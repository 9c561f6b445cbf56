---------------------------- MODULE InboundProofs ----------------------------
(***************************************************************************)
(* Proofs about Inbound for any bots, agents, wires, policies and traffic, *)
(* and any number of messages, faults and restarts of the host.            *)
(***************************************************************************)
EXTENDS Inbound, FiniteSetTheorems, WellFoundedInduction, TLAPS

Rows == [event : Events, trigger : BOOLEAN]
Jobs == [event : Events, rest : Seq(Agents)]
Asks == [agent : Agents, event : Events]

(* What a message of a Telegram chat, of the group and of the dashboard is. *)
MessagesSound ==
    /\ Len(sent) <= MaxMessages
    /\ \A n \in DOMAIN sent :
          IF sent[n].chat \in Bots THEN sent[n].id \in UpdateIds /\ sent[n].from = Founder
          ELSE /\ sent[n].id = n /\ sent[n].kind \in {"text", "command"}
               /\ sent[n].chat = Web => sent[n].from = Founder
    /\ \A n, m \in DOMAIN sent :
          n < m /\ sent[n].chat = sent[m].chat /\ sent[n].chat \in Bots
          => sent[n].id < sent[m].id

(* An event is made of messages of its chat and named for the last of them; *)
(* only texts of a Telegram chat are joined.                                *)
Genuine(e) ==
    /\ e \in Events /\ e.parts # <<>>
    /\ \A p \in DOMAIN e.parts : e.parts[p] \in DOMAIN sent /\ sent[e.parts[p]].chat = e.chat
    /\ LET m == sent[Last(e.parts)] IN e.key = KeyOf(m) /\ e.kind = m.kind /\ e.from = m.from
    /\ (e.chat \in Bots /\ e.kind = "text") \/ Len(e.parts) = 1

(* A message of a stranger that waits for an owner's word.                  *)
Held(q) ==
    /\ Genuine(q.event) /\ q.event.chat = Group /\ q.event.from \in Strangers
    /\ q.agent \in Range(Wired[Group]) /\ Engaged(q.agent, q.event)

(* Only the group has several agents, so only its events wait in a fan-out. *)
Fanned(j) ==
    /\ j \in Jobs /\ Genuine(j.event) /\ j.event.chat = Group
    /\ Range(j.rest) \subseteq Range(Wired[Group])

EventsGenuine ==
    /\ \A a \in Agents : \A i \in DOMAIN rows[a] : Genuine(rows[a][i].event)
    /\ \A j \in job : Fanned(j)
    /\ \A q \in asking : q \in Asks /\ Held(q)
    /\ DOMAIN request = Strangers
    /\ \A s \in Strangers :
          request[s] # None => Held(request[s]) /\ request[s].event.from = s

(* The rows of a session have different ids.                                *)
KeysOnce ==
    \A a \in Agents : \A i, k \in DOMAIN rows[a] :
        rows[a][i].event.key = rows[a][k].event.key => i = k

FoundersBelong == {Founder} \X Agents \subseteq members

(* Texts of its chat are in a bot's buffer, files and taps are awaited.      *)
WaitingSound ==
    /\ \A b \in Bots : \A n \in Range(buffer[b]) :
          n \in DOMAIN sent /\ sent[n].chat = b /\ sent[n].kind = "text"
    /\ \A n \in awaited :
          n \in DOMAIN sent /\ sent[n].chat \in Bots /\ sent[n].kind \in {"file", "tap"}

Sound ==
    /\ TypeOK /\ MessagesSound /\ WaitingSound /\ EventsGenuine
    /\ KeysOnce /\ FoundersBelong /\ StrangersAreHeld

-----------------------------------------------------------------------------
(* The router *)

(* WFMin, in the form the provers take it up.                               *)
LEMMA Minimal ==
    ASSUME NEW S, NEW T, T \subseteq S, T # {}, NEW R, IsWellFoundedOn(R, S)
    PROVE  \E x \in T : \A y \in T : ~ (<<y, x>> \in R)
BY WFMin

(* The least of some numbers.                                               *)
LEMMA MinOf ==
    ASSUME NEW T, T \subseteq Nat, T # {}
    PROVE  Min(T) \in T /\ \A n \in T : Min(T) <= n
<1> DEFINE R == OpToRel(<, Nat)
<1>1. IsWellFoundedOn(R, Nat)
  BY NatLessThanWellFounded
<1>2. \A n \in Nat : \A m \in Nat : <<n, m>> \in R <=> n < m
  BY DEF OpToRel
<1> HIDE DEF R
<1>3. PICK m \in T : \A n \in T : ~ (<<n, m>> \in R)
  BY <1>1, Minimal
<1>4. ASSUME NEW n \in T PROVE m <= n
  <2>1. n \in Nat /\ m \in Nat /\ <<n, m>> \notin R
    BY <1>3
  <2>2. <<n, m>> \in R <=> n < m
    BY <1>2, <2>1, Zenon
  <2>3. ~(n < m)
    BY <2>1, <2>2, Zenon
  <2> QED  BY <2>1, <2>3
<1>5. \E x \in T : \A y \in T : x <= y
  BY <1>4
<1> QED  BY <1>5 DEF Min

(* What an outcome says of an agent and an event.                           *)
LEMMA Outcomes ==
    ASSUME NEW a, NEW e, NEW known
    PROVE  LET wakes == Engaged(a, e) /\ Admits(a, e, known) /\ InScope(a, e, known)
               keeps == ~Engaged(a, e) /\ a \in Keepers
               wanted == Passes(e) /\ (wakes \/ keeps)
           IN  /\ Outcome(a, e, known) = "wake" <=> wanted /\ wakes /\ ~Written(a, e)
               /\ Outcome(a, e, known) = "keep" <=> wanted /\ keeps /\ ~Written(a, e)
               /\ Outcome(a, e, known) = "throw" <=> wanted /\ Written(a, e)
               /\ Outcome(a, e, known) = "skip" <=> ~wanted
<1> DEFINE wakes == Engaged(a, e) /\ Admits(a, e, known) /\ InScope(a, e, known)
           keeps == ~Engaged(a, e) /\ a \in Keepers
<1>1. CASE ~Passes(e) \/ ~(wakes \/ keeps)
  BY <1>1 DEF Outcome
<1>2. CASE Passes(e) /\ (wakes \/ keeps) /\ Written(a, e)
  BY <1>2 DEF Outcome
<1>3. CASE Passes(e) /\ wakes /\ ~Written(a, e)
  BY <1>3 DEF Outcome
<1>4. CASE Passes(e) /\ keeps /\ ~Written(a, e)
  BY <1>4 DEF Outcome
<1> QED  BY <1>1, <1>2, <1>3, <1>4

(* One row of an agent, at most, and only of an event that is not written.  *)
Gets(a, e, known) ==
    /\ ~Written(a, e)
    /\ \E t \in BOOLEAN :
          /\ rows'[a] = Append(rows[a], [event |-> e, trigger |-> t])
          /\ t => Engaged(a, e) /\ Admits(a, e, known) /\ InScope(a, e, known)

LEMMA Stretch ==
    ASSUME NEW e \in Events, NEW agents \in Seq(Agents), NEW known, NEW jobs,
           Serve(e, agents, known, jobs), rows \in [Agents -> Seq(Rows)]
    PROVE  /\ rows' \in [Agents -> Seq(Rows)]
           /\ \A a \in Agents :
                 rows'[a] = rows[a] \/ (a \in Range(agents) /\ Gets(a, e, known))
           /\ \A q \in asking' : q \in asking \/ \E a \in Range(agents) :
                 q = [agent |-> a, event |-> e] /\ Refused(a, e, known)
           /\ \A j \in job' : j \in jobs \/ \E r \in Seq(Agents) :
                 /\ j = [event |-> e, rest |-> r] /\ Range(r) \subseteq Range(agents)
                 /\ Len(agents) > 1
<1> DEFINE out == [i \in DOMAIN agents |-> Outcome(agents[i], e, known)]
           halts == {i \in DOMAIN agents : out[i] \in {"wake", "throw"}}
           stop == Min(halts \cup {Len(agents)})
           done == 1..stop
           rest == SubSeq(agents, stop + 1, Len(agents))
           Is(a, w) == \E i \in done : agents[i] = a /\ out[i] \in w
<1>1. stop \in 0..Len(agents) /\ (halts # {} => stop >= 1)
  <2>1. halts \cup {Len(agents)} \subseteq Nat /\ DOMAIN agents = 1..Len(agents)
    OBVIOUS
  <2>2. /\ stop \in halts \cup {Len(agents)}
        /\ \A n \in halts \cup {Len(agents)} : stop <= n
    BY <2>1, MinOf
  <2> HIDE DEF stop
  <2> QED  BY <2>1, <2>2
<1>2. done \subseteq DOMAIN agents
  <2> HIDE DEF stop
  <2>1. DOMAIN agents = 1..Len(agents) /\ Len(agents) \in Nat
    OBVIOUS
  <2> QED  BY <1>1, <2>1
<1>3. /\ rows' = [a \in Agents |->
              IF \E i \in done : agents[i] = a /\ out[i] \in {"wake", "keep"}
              THEN Append(rows[a], [event |-> e,
                                    trigger |-> \E i \in done : agents[i] = a /\ out[i] = "wake"])
              ELSE rows[a]]
      /\ asking' = asking \cup
              {[agent |-> agents[i], event |-> e] :
                 i \in {k \in done : /\ policy = "request_approval"
                                     /\ Refused(agents[k], e, known)
                                     /\ request[e.from] = None}}
      /\ job' = IF rest # <<>> /\ halts # {} /\ out[stop] = "wake"
                THEN jobs \cup {[event |-> e, rest |-> rest]} ELSE jobs
  BY DEF Serve
<1>4. \A i \in DOMAIN agents : agents[i] \in Agents /\ agents[i] \in Range(agents)
                               /\ out[i] = Outcome(agents[i], e, known)
  BY DEF Range
<1> HIDE DEF stop, out, halts
<1>5. ASSUME NEW a \in Agents
      PROVE  /\ rows'[a] \in Seq(Rows)
             /\ rows'[a] = rows[a] \/ (a \in Range(agents) /\ Gets(a, e, known))
  <2>1. CASE \E i \in done : agents[i] = a /\ out[i] \in {"wake", "keep"}
    <3>1. PICK i \in done : agents[i] = a /\ out[i] \in {"wake", "keep"}
      BY <2>1
    <3>2. a \in Range(agents) /\ ~Written(a, e)
      BY <3>1, <1>2, <1>4, Outcomes
    <3>3. PICK t \in BOOLEAN : t = (\E k \in done : agents[k] = a /\ out[k] = "wake")
      OBVIOUS
    <3>4. rows'[a] = Append(rows[a], [event |-> e, trigger |-> t])
      BY <1>3, <2>1, <3>3
    <3>5. t => Engaged(a, e) /\ Admits(a, e, known) /\ InScope(a, e, known)
      <4> SUFFICES ASSUME t
                   PROVE  Engaged(a, e) /\ Admits(a, e, known) /\ InScope(a, e, known)
        OBVIOUS
      <4>1. PICK k \in done : agents[k] = a /\ out[k] = "wake"
        BY <3>3
      <4>2. Outcome(a, e, known) = "wake"
        BY <4>1, <1>2, <1>4
      <4> QED  BY <4>2, Outcomes
    <3>6. [event |-> e, trigger |-> t] \in Rows
      BY DEF Rows
    <3>7. rows'[a] \in Seq(Rows)
      BY <3>4, <3>6
    <3> QED  BY <3>2, <3>4, <3>5, <3>7 DEF Gets
  <2>2. CASE ~\E i \in done : agents[i] = a /\ out[i] \in {"wake", "keep"}
    BY <1>3, <2>2
  <2> QED  BY <2>1, <2>2
<1>6. ASSUME NEW q \in asking'
      PROVE  q \in asking \/ \E a \in Range(agents) :
                 q = [agent |-> a, event |-> e] /\ Refused(a, e, known)
  BY <1>2, <1>3, <1>4
<1>7. ASSUME NEW j \in job', j \notin jobs
      PROVE  \E r \in Seq(Agents) :
                 /\ j = [event |-> e, rest |-> r] /\ Range(r) \subseteq Range(agents)
                 /\ Len(agents) > 1
  <2>1. j = [event |-> e, rest |-> rest] /\ rest # <<>> /\ halts # {}
    BY <1>3, <1>7
  <2>2. rest \in Seq(Agents) /\ Len(rest) = Len(agents) - stop
        /\ \A i \in 1..Len(rest) : rest[i] = agents[i + stop]
    BY <1>1
  <2>3. Len(rest) > 0
    BY <2>1, <2>2
  <2>4. Len(agents) > 1
    BY <1>1, <2>1, <2>2, <2>3
  <2>5. Range(rest) \subseteq Range(agents)
    <3> SUFFICES ASSUME NEW i \in 1..Len(rest) PROVE rest[i] \in Range(agents)
      BY <2>2 DEF Range
    <3>1. i + stop \in DOMAIN agents
      BY <1>1, <2>2
    <3> QED  BY <3>1, <2>2, <1>4
  <2> QED  BY <2>1, <2>2, <2>4, <2>5
<1>8. rows' \in [Agents -> Seq(Rows)]
  <2>1. rows' = [a \in Agents |-> rows'[a]]
    BY <1>3
  <2> QED  BY <2>1, <1>5
<1> QED  BY <1>5, <1>6, <1>7, <1>8

-----------------------------------------------------------------------------
(* One step, as far as the events are concerned *)

(* Messages are only ever added.                                            *)
Grows ==
    /\ sent' \in Seq(Messages) /\ Len(sent) <= Len(sent')
    /\ \A n \in DOMAIN sent : sent'[n] = sent[n]

(* What the router may do with an event.                                    *)
Spread(e, known) ==
    /\ rows' \in [Agents -> Seq(Rows)]
    /\ \A a \in Agents : rows'[a] = rows[a] \/ (a \in Range(Wired[e.chat]) /\ Gets(a, e, known))
    /\ \A q \in asking' : q \in asking \/ \E a \in Range(Wired[Group]) :
          q = [agent |-> a, event |-> e] /\ Refused(a, e, known)
    /\ \A j \in job' : j \in job \/ \E r \in Seq(Agents) :
          /\ j = [event |-> e, rest |-> r] /\ e.chat = Group
          /\ Range(r) \subseteq Range(Wired[Group])

Quiet == rows' = rows /\ asking' \subseteq asking /\ job' \subseteq job

(* The wires of a chat, and the only one of most.                           *)
LEMMA Wires ==
    /\ \A c \in Chats : Wired[c] \in Seq(Agents) /\ Range(Wired[c]) \subseteq Agents
    /\ \A c \in Chats \ {Group} :
          Len(Wired[c]) = 1 /\ Wired[c][1] \in Agents /\ Wired[c] = <<Wired[c][1]>>
          /\ Range(Wired[c]) = {Wired[c][1]}
<1>1. \A c \in Chats : Wired[c] \in Seq(Agents)
  BY WiresAssumption DEF Chats
<1>2. \A c \in Chats \ {Group} : Len(Wired[c]) = 1
  BY WiresAssumption DEF Chats
<1>3. ASSUME NEW c \in Chats PROVE Range(Wired[c]) \subseteq Agents
  BY <1>1 DEF Range
<1>4. ASSUME NEW c \in Chats \ {Group}
      PROVE  /\ Wired[c][1] \in Agents /\ Wired[c] = <<Wired[c][1]>>
             /\ Range(Wired[c]) = {Wired[c][1]}
  <2>1. Wired[c] \in Seq(Agents) /\ Len(Wired[c]) = 1 /\ DOMAIN Wired[c] = {1}
    BY <1>1, <1>2
  <2> QED  BY <2>1 DEF Range
<1> QED  BY <1>1, <1>2, <1>3, <1>4

(* A stretch of the router that has not left the wires of the event's chat. *)
LEMMA StretchSpreads ==
    ASSUME TypeOK, NEW e \in Events, NEW agents \in Seq(Agents), NEW known, NEW jobs,
           Range(agents) \subseteq Range(Wired[e.chat]), e.chat # Group => Len(agents) <= 1,
           jobs \subseteq job, Serve(e, agents, known, jobs)
    PROVE  Spread(e, known)
<1>1. e.chat \in Chats
  BY DEF Events
<1>2. rows \in [Agents -> Seq(Rows)]
  BY DEF TypeOK, Rows
<1>3. /\ rows' \in [Agents -> Seq(Rows)]
      /\ \A a \in Agents :
            rows'[a] = rows[a] \/ (a \in Range(agents) /\ Gets(a, e, known))
      /\ \A q \in asking' : q \in asking \/ \E a \in Range(agents) :
            q = [agent |-> a, event |-> e] /\ Refused(a, e, known)
      /\ \A j \in job' : j \in jobs \/ \E r \in Seq(Agents) :
            /\ j = [event |-> e, rest |-> r] /\ Range(r) \subseteq Range(agents)
            /\ Len(agents) > 1
  BY <1>2, Stretch
<1>4. \A a : Refused(a, e, known) => e.chat = Group
  BY DEF Refused, Admits
<1>5. Len(agents) > 1 => e.chat = Group
  OBVIOUS
<1> QED  BY <1>3, <1>4, <1>5 DEF Spread

LEMMA GenuineStays ==
    ASSUME TypeOK, Grows, NEW e, Genuine(e)
    PROVE  Genuine(e)'
<1>1. DOMAIN sent = 1..Len(sent) /\ DOMAIN sent' = 1..Len(sent') /\ Len(sent) \in Nat
      /\ Len(sent') \in Nat
  BY DEF TypeOK, Grows
<1>2. DOMAIN sent \subseteq DOMAIN sent'
  BY <1>1 DEF Grows
<1>3. Last(e.parts) \in DOMAIN sent
  <2>1. e.parts \in Seq(Numbers) /\ e.parts # <<>>
    BY DEF Genuine, Events
  <2>2. Len(e.parts) \in DOMAIN e.parts
    BY <2>1
  <2> QED  BY <2>2 DEF Genuine, Last
<1>4. \A p \in DOMAIN e.parts : e.parts[p] \in DOMAIN sent' /\ sent'[e.parts[p]].chat = e.chat
  BY <1>2 DEF Genuine, Grows
<1>5. sent'[Last(e.parts)] = sent[Last(e.parts)]
  BY <1>3 DEF Grows
<1>6. LET m == sent'[Last(e.parts)] IN e.key = KeyOf(m) /\ e.kind = m.kind /\ e.from = m.from
  BY <1>5 DEF Genuine
<1> QED  BY <1>4, <1>6 DEF Genuine

LEMMA HeldStays ==
    ASSUME TypeOK, Grows, NEW q, Held(q)
    PROVE  Held(q)'
<1>1. PICK e : e = q.event
  OBVIOUS
<1>2. Genuine(e)'
  BY <1>1, GenuineStays DEF Held
<1> QED  BY <1>1, <1>2 DEF Held, Engaged

(* What waits for an owner after a stretch is held.                         *)
LEMMA RefusedIsHeld ==
    ASSUME Sound, NEW e, Genuine(e)', NEW known, members \subseteq known,
           NEW a \in Range(Wired[Group]), Refused(a, e, known), NEW q,
           q = [agent |-> a, event |-> e]
    PROVE  q \in Asks /\ Held(q)'
<1>1. e \in Events /\ e.from \in Senders
  BY DEF Genuine, Events
<1>2. Group \in Chats /\ a \in Agents
  BY Wires DEF Chats
<1>3. e.chat = Group /\ <<e.from, a>> \notin known /\ Engaged(a, e)
  BY DEF Refused, Admits
<1>4. e.from # Founder
  BY <1>2, <1>3 DEF Sound, FoundersBelong
<1>5. e.from \in Strangers
  BY <1>1, <1>4 DEF Senders
<1>6. q.agent = a /\ q.event = e
  OBVIOUS
<1>7. q \in Asks
  BY <1>1, <1>2 DEF Asks
<1>8. Held(q)'
  BY <1>3, <1>5, <1>6 DEF Held, Engaged
<1> QED  BY <1>7, <1>8

(* The other variables keep their types and what is held stays held.        *)
Typed ==
    /\ policy' = policy /\ members \subseteq members' /\ members' \subseteq Senders \X Agents
    /\ recent' \subseteq UpdateIds /\ seen' \subseteq UpdateIds
    /\ buffer' \in [Bots -> Seq(Numbers)] /\ awaited' \subseteq Numbers /\ log' \in Seq(Key)
    /\ faults' \in 0..MaxFaults /\ crashes' \in 0..MaxCrashes
    /\ DOMAIN request' = Strangers
    /\ \A s \in Strangers :
          \/ request'[s] = request[s] \/ request'[s] = None
          \/ \E q : /\ request'[s] = q /\ Held(q)' /\ q.event.from = s
                    /\ q.agent \in Agents /\ q.event \in Events /\ q.card \in BOOLEAN

Spreads == \E e, known :
    /\ members \subseteq known /\ known \subseteq members'
    /\ Genuine(e)' /\ Spread(e, known)

(* An agent has the rows it had, or one more of an event that was not       *)
(* written.                                                                 *)
LEMMA RowByRow ==
    ASSUME TypeOK, NEW a \in Agents, NEW e, NEW known, Gets(a, e, known)
    PROVE  /\ DOMAIN rows'[a] = DOMAIN rows[a] \cup {Len(rows[a]) + 1}
           /\ Len(rows[a]) + 1 \notin DOMAIN rows[a]
           /\ \A i \in DOMAIN rows[a] : rows'[a][i] = rows[a][i]
           /\ \A i \in DOMAIN rows[a] : i < Len(rows[a]) + 1
           /\ rows'[a][Len(rows[a]) + 1].event = e
           /\ rows'[a][Len(rows[a]) + 1].trigger =>
                 Engaged(a, e) /\ Admits(a, e, known) /\ InScope(a, e, known)
<1>1. rows[a] \in Seq([event : Events, trigger : BOOLEAN])
  BY DEF TypeOK
<1>2. PICK t \in BOOLEAN :
         /\ rows'[a] = Append(rows[a], [event |-> e, trigger |-> t])
         /\ t => Engaged(a, e) /\ Admits(a, e, known) /\ InScope(a, e, known)
  BY DEF Gets
<1>3. PICK r : r = [event |-> e, trigger |-> t]
  OBVIOUS
<1>4. rows'[a] = Append(rows[a], r) /\ r.event = e /\ r.trigger = t
  BY <1>2, <1>3
<1>5. /\ DOMAIN rows[a] = 1..Len(rows[a]) /\ Len(rows[a]) \in Nat
      /\ DOMAIN rows'[a] = 1..(Len(rows[a]) + 1)
      /\ \A i \in DOMAIN rows[a] : rows'[a][i] = rows[a][i]
      /\ rows'[a][Len(rows[a]) + 1] = r
  BY <1>1, <1>4
<1> QED  BY <1>2, <1>4, <1>5

LEMMA SoundStep ==
    ASSUME Sound, Grows, MessagesSound', WaitingSound', Typed, Quiet \/ Spreads
    PROVE  Sound'
<1>1. rows' \in [Agents -> Seq(Rows)]
  BY DEF Sound, TypeOK, Quiet, Spreads, Spread, Rows
<1>2. /\ \A j \in job' : Fanned(j)'
      /\ \A q \in asking' : q \in Asks /\ Held(q)'
  <2>1. /\ \A j \in job : Fanned(j)'
        /\ \A q \in asking : q \in Asks /\ Held(q)'
    <3>1. ASSUME NEW j \in job PROVE Fanned(j)'
      <4>1. PICK e : e = j.event
        OBVIOUS
      <4>2. Genuine(e)' /\ Fanned(j)
        BY <4>1, GenuineStays DEF Sound, EventsGenuine, Fanned
      <4> QED  BY <4>1, <4>2 DEF Fanned
    <3>2. ASSUME NEW q \in asking PROVE q \in Asks /\ Held(q)'
      BY HeldStays DEF Sound, EventsGenuine
    <3> QED  BY <3>1, <3>2
  <2>2. CASE Quiet
    BY <2>1, <2>2 DEF Quiet
  <2>3. CASE Spreads
    <3>1. PICK e, known : /\ members \subseteq known /\ known \subseteq members'
                          /\ Genuine(e)' /\ Spread(e, known)
      BY <2>3 DEF Spreads
    <3>2. ASSUME NEW j \in job' PROVE Fanned(j)'
      <4>1. CASE j \in job
        BY <2>1, <4>1
      <4>2. CASE j \notin job
        <5>1. PICK r \in Seq(Agents) :
                /\ j = [event |-> e, rest |-> r] /\ e.chat = Group
                /\ Range(r) \subseteq Range(Wired[Group])
          BY <3>1, <4>2 DEF Spread
        <5>2. e \in Events
          BY <3>1 DEF Genuine
        <5>3. j \in Jobs /\ j.event = e /\ j.rest = r
          BY <5>1, <5>2 DEF Jobs
        <5> QED  BY <3>1, <5>1, <5>3 DEF Fanned
      <4> QED  BY <4>1, <4>2
    <3>3. ASSUME NEW q \in asking' PROVE q \in Asks /\ Held(q)'
      <4>1. CASE q \in asking
        BY <2>1, <4>1
      <4>2. CASE q \notin asking
        <5>1. PICK a \in Range(Wired[Group]) :
                 q = [agent |-> a, event |-> e] /\ Refused(a, e, known)
          BY <3>1, <4>2 DEF Spread
        <5> QED  BY <3>1, <5>1, RefusedIsHeld
      <4> QED  BY <4>1, <4>2
    <3> QED  BY <3>2, <3>3
  <2> QED  BY <2>2, <2>3
<1>3. ASSUME NEW a \in Agents, NEW i \in DOMAIN rows'[a]
      PROVE  \/ i \in DOMAIN rows[a] /\ rows'[a][i] = rows[a][i]
             \/ \E e, known : /\ known \subseteq members' /\ Genuine(e)'
                              /\ Gets(a, e, known) /\ i = Len(rows[a]) + 1
                              /\ rows'[a][i].event = e
  <2>1. CASE Quiet
    BY <2>1 DEF Quiet
  <2>2. CASE Spreads
    <3>1. PICK e, known : /\ members \subseteq known /\ known \subseteq members'
                          /\ Genuine(e)' /\ Spread(e, known)
      BY <2>2 DEF Spreads
    <3>2. CASE rows'[a] = rows[a]
      BY <3>2
    <3>3. CASE Gets(a, e, known)
      BY <3>1, <3>3, RowByRow DEF Sound
    <3> QED  BY <3>1, <3>2, <3>3 DEF Spread
  <2> QED  BY <2>1, <2>2
<1>4. ASSUME NEW a \in Agents, NEW i \in DOMAIN rows'[a]
      PROVE  Genuine(rows[a][i].event)'
  <2>1. PICK e : e = rows'[a][i].event
    OBVIOUS
  <2>2. Genuine(e)'
    <3>1. CASE i \in DOMAIN rows[a] /\ rows'[a][i] = rows[a][i]
      BY <2>1, <3>1, GenuineStays DEF Sound, EventsGenuine
    <3>2. CASE ~(i \in DOMAIN rows[a] /\ rows'[a][i] = rows[a][i])
      BY <1>3, <2>1, <3>2
    <3> QED  BY <3>1, <3>2
  <2> QED  BY <2>1, <2>2 DEF Genuine

<1>5. ASSUME NEW s \in Strangers, request'[s] # None
      PROVE  /\ (Held(request[s]) /\ request[s].event.from = s)'
             /\ request'[s].agent \in Agents /\ request'[s].event \in Events
             /\ request'[s].card \in BOOLEAN
  <2>1. CASE request'[s] = request[s]
    <3>1. PICK q : q = request[s]
      OBVIOUS
    <3>2. Held(q) /\ q.event.from = s /\ q.agent \in Agents /\ q.event \in Events
          /\ q.card \in BOOLEAN
      BY <1>5, <2>1, <3>1 DEF Sound, TypeOK, EventsGenuine
    <3>3. Held(q)' /\ request'[s] = q
      BY <2>1, <3>1, <3>2, HeldStays DEF Sound
    <3> QED  BY <3>2, <3>3 DEF Held
  <2>2. CASE \E q : /\ request'[s] = q /\ Held(q)' /\ q.event.from = s
                    /\ q.agent \in Agents /\ q.event \in Events /\ q.card \in BOOLEAN
    BY <2>2 DEF Held
  <2> QED  BY <1>5, <2>1, <2>2 DEF Typed
<1>6. EventsGenuine'
  BY <1>2, <1>4, <1>5 DEF EventsGenuine, Typed
<1>7. KeysOnce'
  <2> SUFFICES ASSUME NEW a \in Agents, NEW i \in DOMAIN rows'[a], NEW k \in DOMAIN rows'[a],
                      rows'[a][i].event.key = rows'[a][k].event.key
               PROVE  i = k
    BY DEF KeysOnce
  <2>1. CASE rows'[a] = rows[a]
    BY <2>1 DEF Sound, KeysOnce
  <2>2. ASSUME NEW e, NEW known, Gets(a, e, known) PROVE i = k
    <3>1. ~\E n \in DOMAIN rows[a] : rows[a][n].event.key = e.key
      BY <2>2 DEF Gets, Written
    <3>2. /\ DOMAIN rows'[a] = DOMAIN rows[a] \cup {Len(rows[a]) + 1}
          /\ \A n \in DOMAIN rows[a] : rows'[a][n] = rows[a][n]
          /\ rows'[a][Len(rows[a]) + 1].event = e
      BY <2>2, RowByRow DEF Sound
    <3>3. \A n, m \in DOMAIN rows[a] : rows[a][n].event.key = rows[a][m].event.key => n = m
      BY DEF Sound, KeysOnce
    <3> QED  BY <3>1, <3>2, <3>3
  <2>3. rows'[a] = rows[a] \/ \E e, known : Gets(a, e, known)
    BY DEF Quiet, Spreads, Spread
  <2> QED  BY <2>1, <2>2, <2>3
<1>8. StrangersAreHeld'
  <2> SUFFICES ASSUME NEW a \in Agents, NEW i \in DOMAIN rows'[a], rows'[a][i].trigger,
                      rows'[a][i].event.chat = Group, policy' # "public" \/ a \in Choosy
               PROVE  <<rows'[a][i].event.from, a>> \in members'
    BY DEF StrangersAreHeld
  <2>1. policy' = policy /\ members \subseteq members'
    BY DEF Typed
  <2>2. CASE i \in DOMAIN rows[a] /\ rows'[a][i] = rows[a][i]
    BY <2>1, <2>2 DEF Sound, StrangersAreHeld
  <2>3. ASSUME NEW e, NEW known, known \subseteq members', Gets(a, e, known),
               i = Len(rows[a]) + 1, rows'[a][i].event = e
        PROVE  <<rows'[a][i].event.from, a>> \in members'
    <3>1. Admits(a, e, known) /\ InScope(a, e, known)
      BY <2>3, RowByRow DEF Sound
    <3>2. <<e.from, a>> \in known
      BY <2>1, <2>3, <3>1 DEF Admits, InScope
    <3> QED  BY <2>3, <3>2
  <2> QED  BY <1>3, <2>2, <2>3
<1>9. TypeOK'
  <2>1. \A j \in job' : j.event \in Events /\ j.rest \in Seq(Agents)
    BY <1>2 DEF Fanned, Jobs
  <2>2. \A q \in asking' : q.agent \in Agents /\ q.event \in Events
    BY <1>2 DEF Asks
  <2> QED
    BY <1>1, <1>5, <2>1, <2>2 DEF Sound, TypeOK, Typed, Grows, Rows
<1>10. FoundersBelong'
  BY DEF Sound, FoundersBelong, Typed
<1> QED  BY <1>6, <1>7, <1>8, <1>9, <1>10 DEF Sound

-----------------------------------------------------------------------------
(* The actions *)

LEMMA ConstantsTyped ==
    /\ MaxMessages \in Nat /\ MaxFaults \in Nat /\ MaxCrashes \in Nat
    /\ Group \notin Bots /\ Group # Web /\ Web \notin Bots /\ UpdateIds \subseteq Nat
BY WiresAssumption

(* A message that is on its own is a genuine event.                         *)
LEMMA AloneIsEvent ==
    ASSUME NEW S \in Seq(Messages), Len(S) <= MaxMessages, NEW n \in DOMAIN S, NEW e,
           e = Event(S[n], <<n>>)
    PROVE  /\ e \in Events /\ e.parts = <<n>> /\ e.parts # <<>> /\ Len(e.parts) = 1
           /\ DOMAIN e.parts = {1} /\ e.parts[1] = n /\ Last(e.parts) = n
           /\ Range(e.parts) = {n}
           /\ e.chat = S[n].chat /\ e.key = KeyOf(S[n]) /\ e.kind = S[n].kind
           /\ e.from = S[n].from
<1>1. PICK m \in Messages : m = S[n]
  OBVIOUS
<1>2. PICK t \in BOOLEAN : t = (m.kind = "tap")
  OBVIOUS
<1>3. PICK k : k = KeyOf(m)
  OBVIOUS
<1>4. k = [chat |-> m.chat, id |-> m.id, tap |-> t]
  BY <1>2, <1>3 DEF KeyOf
<1>5. /\ m.chat \in Chats /\ m.id \in UpdateIds \cup Numbers /\ m.kind \in Kinds
      /\ m.from \in Senders
  BY DEF Messages
<1>6. k \in Key
  BY <1>4, <1>5 DEF Key
<1>7. n \in Numbers
  BY ConstantsTyped DEF Numbers
<1>8. PICK ps : ps = <<n>>
  OBVIOUS
<1>9. /\ ps \in Seq(Numbers) /\ ps # <<>> /\ Len(ps) = 1 /\ DOMAIN ps = {1} /\ ps[1] = n
      /\ Last(ps) = n
  BY <1>7, <1>8 DEF Last
<1>10. e = [key |-> k, chat |-> m.chat, from |-> m.from, kind |-> m.kind, parts |-> ps]
  BY <1>1, <1>3, <1>8 DEF Event
<1>11. e \in Events
  BY <1>5, <1>6, <1>9, <1>10 DEF Events
<1>12. Range(ps) = {n}
  BY <1>9 DEF Range
<1> QED  BY <1>1, <1>3, <1>8, <1>9, <1>10, <1>11, <1>12

LEMMA AloneIsGenuine ==
    /\ \A n \in DOMAIN sent : \A e :
          sent \in Seq(Messages) /\ Len(sent) <= MaxMessages /\ e = Event(sent[n], <<n>>)
          => Genuine(e)
    /\ \A n \in DOMAIN sent' : \A e :
          sent' \in Seq(Messages) /\ Len(sent') <= MaxMessages /\ e = Event(sent'[n], <<n>>)
          => Genuine(e)'
<1>1. ASSUME NEW n \in DOMAIN sent, NEW e,
             sent \in Seq(Messages), Len(sent) <= MaxMessages, e = Event(sent[n], <<n>>)
      PROVE  Genuine(e)
  BY <1>1, AloneIsEvent DEF Genuine
<1>2. ASSUME NEW n \in DOMAIN sent', NEW e,
             sent' \in Seq(Messages), Len(sent') <= MaxMessages, e = Event(sent'[n], <<n>>)
      PROVE  Genuine(e)'
  BY <1>2, AloneIsEvent DEF Genuine
<1> QED  BY <1>1, <1>2

(* So is the buffer of a bot, under the latest of its messages.             *)
LEMMA BufferIsGenuine ==
    ASSUME Sound, NEW b \in Bots, buffer[b] # <<>>, NEW e,
           e = Event(sent[Last(buffer[b])], buffer[b])
    PROVE  Genuine(e) /\ e.chat = b /\ e.kind = "text" /\ e.parts = buffer[b]
<1>1. PICK ps \in Seq(Numbers) : ps = buffer[b]
  BY DEF Sound, TypeOK
<1>2. \A p \in DOMAIN ps :
         ps[p] \in DOMAIN sent /\ sent[ps[p]].chat = b /\ sent[ps[p]].kind = "text"
  BY <1>1 DEF Sound, WaitingSound, Range
<1>3. Len(ps) \in DOMAIN ps
  BY <1>1
<1>4. Last(ps) \in DOMAIN sent /\ sent[Last(ps)].chat = b /\ sent[Last(ps)].kind = "text"
  BY <1>2, <1>3 DEF Last
<1>5. PICK n : n = Last(ps)
  OBVIOUS
<1>6. n \in DOMAIN sent /\ sent \in Seq(Messages) /\ Len(sent) <= MaxMessages
  BY <1>4, <1>5 DEF Sound, TypeOK, MessagesSound
<1>7. PICK f : f = Event(sent[n], <<n>>)
  OBVIOUS
<1>8. Genuine(f)
  BY <1>6, <1>7, AloneIsGenuine
<1>9. f.key \in Key /\ f.chat \in Chats /\ f.from \in Senders /\ f.kind \in Kinds
  BY <1>8 DEF Genuine, Events
<1>10. e = [key |-> f.key, chat |-> f.chat, from |-> f.from, kind |-> f.kind, parts |-> ps]
       /\ f.key = KeyOf(sent[n]) /\ f.chat = b /\ f.from = sent[n].from /\ f.kind = "text"
  BY <1>1, <1>4, <1>5, <1>7 DEF Event
<1>11. e \in Events
  BY <1>9, <1>10 DEF Events
<1> QED  BY <1>1, <1>2, <1>4, <1>5, <1>10, <1>11 DEF Genuine

(* onInbound: the mirror and the router.                                    *)
LEMMA InboundSpreads ==
    ASSUME TypeOK, NEW e \in Events, OnInbound(e)
    PROVE  Spread(e, members) /\ log' \in Seq(Key)
<1>1. e.chat \in Chats /\ e.key \in Key
  BY DEF Events
<1>2. /\ Wired[e.chat] \in Seq(Agents) /\ Range(Wired[e.chat]) \subseteq Range(Wired[e.chat])
      /\ e.chat # Group => Len(Wired[e.chat]) <= 1
  <2>1. CASE e.chat = Group
    BY <1>1, <2>1, Wires
  <2>2. CASE e.chat # Group
    <3>1. e.chat \in Chats \ {Group}
      BY <1>1, <2>2
    <3>2. Len(Wired[e.chat]) = 1 /\ Wired[e.chat] \in Seq(Agents)
      BY <3>1, Wires
    <3> QED  BY <3>2
  <2> QED  BY <2>1, <2>2
<1>3. Serve(e, Wired[e.chat], members, job)
  BY DEF OnInbound, Route
<1>4. Spread(e, members)
  BY <1>2, <1>3, StretchSpreads
<1>5. log' \in Seq(Key)
  BY <1>1 DEF OnInbound, Mirror, TypeOK
<1> QED  BY <1>4, <1>5

(* A message that comes for the first time: the ids of a bot's updates      *)
(* ascend, the other chats name their messages themselves.                  *)
LEMMA Added ==
    ASSUME Sound, NEW m \in Messages, Len(sent) + 1 <= MaxMessages, sent' = Append(sent, m),
           IF m.chat \in Bots
           THEN /\ m.id \in UpdateIds /\ m.from = Founder
                /\ \A p \in DOMAIN sent : sent[p].chat = m.chat => sent[p].id < m.id
           ELSE /\ m.id = Len(sent) + 1 /\ m.kind \in {"text", "command"}
                /\ m.chat = Web => m.from = Founder
    PROVE  /\ Grows /\ MessagesSound' /\ Len(sent) + 1 \in DOMAIN sent'
           /\ DOMAIN sent' = DOMAIN sent \cup {Len(sent) + 1}
           /\ Len(sent) + 1 \notin DOMAIN sent /\ sent'[Len(sent) + 1] = m
<1>1. sent \in Seq(Messages) /\ Len(sent) \in Nat /\ DOMAIN sent = 1..Len(sent)
  BY DEF Sound, TypeOK
<1>2. /\ sent' \in Seq(Messages) /\ Len(sent') = Len(sent) + 1
      /\ DOMAIN sent' = 1..(Len(sent) + 1)
      /\ \A n \in DOMAIN sent : sent'[n] = sent[n]
      /\ sent'[Len(sent) + 1] = m
  BY <1>1
<1>3. DOMAIN sent' = DOMAIN sent \cup {Len(sent) + 1} /\ Len(sent) + 1 \notin DOMAIN sent
  BY <1>1, <1>2
<1>4. Grows
  BY <1>1, <1>2 DEF Grows
<1>5. ASSUME NEW n \in DOMAIN sent'
      PROVE  IF sent'[n].chat \in Bots
             THEN sent'[n].id \in UpdateIds /\ sent'[n].from = Founder
             ELSE /\ sent'[n].id = n /\ sent'[n].kind \in {"text", "command"}
                  /\ sent'[n].chat = Web => sent'[n].from = Founder
  <2>1. CASE n \in DOMAIN sent
    BY <1>2, <2>1 DEF Sound, MessagesSound
  <2>2. CASE n = Len(sent) + 1
    BY <1>2, <2>2
  <2> QED  BY <1>3, <2>1, <2>2
<1>6. ASSUME NEW n \in DOMAIN sent', NEW k \in DOMAIN sent', n < k,
             sent'[n].chat = sent'[k].chat, sent'[n].chat \in Bots
      PROVE  sent'[n].id < sent'[k].id
  <2>1. n \in DOMAIN sent
    BY <1>1, <1>2, <1>6
  <2>2. CASE k \in DOMAIN sent
    BY <1>2, <1>6, <2>1, <2>2 DEF Sound, MessagesSound
  <2>3. CASE k = Len(sent) + 1
    BY <1>2, <1>6, <2>1, <2>3
  <2> QED  BY <1>3, <2>2, <2>3
<1>7. MessagesSound'
  BY <1>2, <1>5, <1>6 DEF MessagesSound
<1> QED  BY <1>2, <1>3, <1>4, <1>7

LEMMA NothingSent ==
    ASSUME Sound, sent' = sent
    PROVE  Grows /\ MessagesSound'
BY DEF Sound, TypeOK, MessagesSound, Grows

(* What waits is sound while the buffers only lose, or gain a text or a     *)
(* file of their chat.                                                      *)
LEMMA WaitingStays ==
    ASSUME Sound, Grows,
           \A b \in Bots : \A n \in Range(buffer'[b]) : n \in Range(buffer[b]) \/
              (n \in DOMAIN sent' /\ sent'[n].chat = b /\ sent'[n].kind = "text"),
           \A n \in awaited' : n \in awaited \/
              (n \in DOMAIN sent' /\ sent'[n].chat \in Bots /\ sent'[n].kind \in {"file", "tap"})
    PROVE  WaitingSound'
<1>1. DOMAIN sent \subseteq DOMAIN sent'
  BY DEF Sound, TypeOK, Grows
<1> QED  BY <1>1 DEF Sound, WaitingSound, Grows

(* A step that leaves the adapter and the approvals alone.                  *)
LEMMA TypedStays ==
    ASSUME Sound, UNCHANGED <<policy, members, request, recent, seen, buffer, awaited>>,
           log' \in Seq(Key), faults' = faults, crashes' = crashes
    PROVE  Typed
BY DEF Sound, TypeOK, EventsGenuine, Typed

(* The group's messages, and the dashboard's, new ones and again.           *)
LEMMA ChatStep ==
    ASSUME Sound,
           \/ \E s \in Senders, k \in {"text", "command"} : GroupMessage(s, k)
           \/ WebMessage \/ \E n \in Numbers : WebAgain(n)
    PROVE  Sound'
<1>1. ASSUME NEW n, NEW e, n \in DOMAIN sent', Grows, MessagesSound',
             e = Event(sent'[n], <<n>>), OnInbound(e),
             UNCHANGED <<policy, adapter, members, request, faults, crashes>>
      PROVE  Sound'
  <2>1. Genuine(e)'
    BY <1>1, AloneIsGenuine DEF Grows, MessagesSound
  <2>2. e \in Events
    BY <2>1 DEF Genuine
  <2>3. Spread(e, members) /\ log' \in Seq(Key)
    BY <1>1, <2>2, InboundSpreads DEF Sound
  <2>4. Typed
    BY <1>1, <2>3, TypedStays DEF adapter
  <2>5. WaitingSound'
    BY <1>1, WaitingStays DEF adapter
  <2>6. Spreads
    BY <2>1, <2>3, <2>4 DEF Spreads, Typed
  <2> QED  BY <1>1, <2>4, <2>5, <2>6, SoundStep

<1>2. ASSUME NEW m \in Messages, Len(sent) + 1 <= MaxMessages, sent' = Append(sent, m),
             m.chat \in {Web, Group}, m.id = Len(sent) + 1, m.kind \in {"text", "command"},
             m.chat = Web => m.from = Founder, OnInbound(Event(m, <<Len(sent) + 1>>)),
             UNCHANGED <<policy, adapter, members, request, faults, crashes>>
      PROVE  Sound'
  <2>1. m.chat \notin Bots
    BY <1>2, ConstantsTyped
  <2>2. /\ Grows /\ MessagesSound' /\ Len(sent) + 1 \in DOMAIN sent'
        /\ sent'[Len(sent) + 1] = m
    BY <1>2, <2>1, Added
  <2>3. PICK n : n = Len(sent) + 1
    OBVIOUS
  <2>4. PICK e : e = Event(m, <<n>>)
    OBVIOUS
  <2> QED  BY <1>1, <1>2, <2>2, <2>3, <2>4
<1>3. ASSUME NEW s \in Senders, NEW k \in {"text", "command"}, GroupMessage(s, k) PROVE Sound'
  <2>1. PICK m : m = [chat |-> Group, id |-> Len(sent) + 1, kind |-> k, from |-> s]
    OBVIOUS
  <2>2. Len(sent) + 1 \in Numbers /\ Len(sent) + 1 <= MaxMessages
    BY <1>3, ConstantsTyped DEF GroupMessage, Numbers, Sound, TypeOK
  <2>3. m \in Messages
    BY <2>1, <2>2 DEF Messages, Chats, Kinds
  <2> QED  BY <1>2, <1>3, <2>1, <2>2, <2>3, ConstantsTyped DEF GroupMessage
<1>4. ASSUME WebMessage PROVE Sound'
  <2>1. PICK m : m = [chat |-> Web, id |-> Len(sent) + 1, kind |-> "text", from |-> Founder]
    OBVIOUS
  <2>2. Len(sent) + 1 \in Numbers /\ Len(sent) + 1 <= MaxMessages
    BY <1>4, ConstantsTyped DEF WebMessage, Numbers, Sound, TypeOK
  <2>3. m \in Messages
    BY <2>1, <2>2 DEF Messages, Chats, Kinds, Senders
  <2> QED  BY <1>2, <1>4, <2>1, <2>2, <2>3 DEF WebMessage
<1>5. ASSUME NEW n \in Numbers, WebAgain(n) PROVE Sound'
  <2>1. PICK e : e = Event(sent[n], <<n>>)
    OBVIOUS
  <2>2. Grows /\ MessagesSound' /\ n \in DOMAIN sent' /\ sent'[n] = sent[n]
    BY <1>5, NothingSent DEF WebAgain
  <2> QED  BY <1>1, <1>5, <2>1, <2>2 DEF WebAgain
<1> QED  BY <1>3, <1>4, <1>5

(* An update of a bot that comes once more, or for the first time.          *)
LEMMA UpdateStep ==
    ASSUME Sound, Grows, MessagesSound', NEW n \in DOMAIN sent', NEW m, m = sent'[n],
           m.chat \in Bots, Process(m, n), UNCHANGED <<policy, members, request, crashes>>
    PROVE  Sound'
<1> USE DEF Sound
<1>1. n \in Numbers /\ m \in Messages /\ m.id \in UpdateIds
  BY ConstantsTyped DEF Grows, MessagesSound, Numbers
<1>2. recent' \subseteq UpdateIds /\ seen' \subseteq UpdateIds
  BY <1>1 DEF Process, TypeOK
<1>3. faults' \in 0..MaxFaults
  BY ConstantsTyped DEF Process, TypeOK
<1>4. ASSUME buffer' \in [Bots -> Seq(Numbers)], awaited' \subseteq Numbers, log' \in Seq(Key)
      PROVE  Typed
  BY <1>2, <1>3, <1>4 DEF TypeOK, EventsGenuine, Typed
<1>5. CASE UNCHANGED <<buffer, awaited, job, log, rows, asking>>
  <2>1. Typed /\ WaitingSound' /\ Quiet
    BY <1>4, <1>5, WaitingStays DEF TypeOK, Quiet
  <2> QED  BY <2>1, SoundStep
<1>6. CASE m.kind = "text" /\ buffer' = [buffer EXCEPT ![m.chat] = Pushed(m.chat, n)]
           /\ UNCHANGED <<awaited, job, log, rows, asking>>
  <2>1. PICK b \in Bots : b = m.chat
    OBVIOUS
  <2>2. buffer[b] \in Seq(Numbers) /\ buffer' = [buffer EXCEPT ![b] = Append(buffer[b], n)]
    BY <1>6, <2>1 DEF TypeOK, Pushed
  <2>3. PICK s : s = Append(buffer[b], n)
    OBVIOUS
  <2>4. s \in Seq(Numbers) /\ buffer' \in [Bots -> Seq(Numbers)]
    <3>1. s \in Seq(Numbers)
      BY <1>1, <2>2, <2>3
    <3> QED  BY <2>2, <2>3, <3>1 DEF TypeOK
  <2>5. \A k \in Range(s) : k \in Range(buffer[b]) \/ k = n
    BY <1>1, <2>2, <2>3 DEF Range
  <2>6. buffer'[b] = s /\ \A c \in Bots \ {b} : buffer'[c] = buffer[c]
    BY <2>2, <2>3 DEF TypeOK
  <2>7. WaitingSound'
    BY <1>6, <2>1, <2>5, <2>6, WaitingStays
  <2>8. Typed /\ Quiet
    BY <1>4, <1>6, <2>4 DEF TypeOK, Quiet
  <2> QED  BY <2>7, <2>8, SoundStep
<1>7. CASE OnInbound(Event(m, <<n>>)) /\ UNCHANGED <<buffer, awaited>>
  <2>1. PICK e : e = Event(m, <<n>>)
    OBVIOUS
  <2>2. Genuine(e)'
    BY <2>1, AloneIsGenuine DEF Grows, MessagesSound
  <2>3. Spread(e, members) /\ log' \in Seq(Key)
    BY <1>7, <2>1, <2>2, InboundSpreads DEF Genuine
  <2>4. Typed /\ WaitingSound'
    BY <1>4, <1>7, <2>3, WaitingStays DEF TypeOK
  <2>5. Spreads
    BY <2>2, <2>3, <2>4 DEF Spreads, Typed
  <2> QED  BY <2>4, <2>5, SoundStep
<1>8. CASE m.kind \in {"file", "tap"} /\ awaited' = awaited \cup {n}
           /\ UNCHANGED <<buffer, job, log, rows, asking>>
  <2>1. Typed /\ Quiet
    BY <1>1, <1>4, <1>8 DEF TypeOK, Quiet
  <2>2. WaitingSound'
    BY <1>8, WaitingStays
  <2> QED  BY <2>1, <2>2, SoundStep
<1> QED  BY <1>5, <1>6, <1>7, <1>8 DEF Process, Dispatch

LEMMA TelegramStep ==
    ASSUME Sound,
           \/ \E b \in Bots, i \in UpdateIds, k \in Kinds : Arrives(b, i, k)
           \/ \E n \in Numbers : ComesAgain(n)
    PROVE  Sound'
<1>1. ASSUME NEW b \in Bots, NEW i \in UpdateIds, NEW k \in Kinds, Arrives(b, i, k)
      PROVE  Sound'
  <2>1. PICK m : m = [chat |-> b, id |-> i, kind |-> k, from |-> Founder]
    OBVIOUS
  <2>2. m \in Messages /\ m.chat = b /\ m.id = i /\ m.from = Founder
    BY <2>1 DEF Messages, Chats, Senders
  <2>3. /\ Len(sent) + 1 <= MaxMessages /\ sent' = Append(sent, m)
        /\ \A p \in DOMAIN sent : sent[p].chat = b => sent[p].id < i
        /\ Process(m, Len(sent) + 1) /\ UNCHANGED <<policy, members, request, crashes>>
    BY <1>1, <2>1 DEF Arrives
  <2>4. /\ Grows /\ MessagesSound' /\ Len(sent) + 1 \in DOMAIN sent'
        /\ sent'[Len(sent) + 1] = m
    BY <2>2, <2>3, Added
  <2>5. PICK n : n = Len(sent) + 1
    OBVIOUS
  <2> QED  BY <2>2, <2>3, <2>4, <2>5, UpdateStep
<1>2. ASSUME NEW n \in Numbers, ComesAgain(n) PROVE Sound'
  <2>1. PICK m : m = sent[n]
    OBVIOUS
  <2>2. Grows /\ MessagesSound' /\ n \in DOMAIN sent' /\ m = sent'[n] /\ m.chat \in Bots
    BY <1>2, <2>1, NothingSent DEF ComesAgain
  <2>3. Process(m, n) /\ UNCHANGED <<policy, members, request, crashes>>
    BY <1>2, <2>1 DEF ComesAgain
  <2> QED  BY <2>2, <2>3, UpdateStep
<1> QED  BY <1>1, <1>2

(* The buffer's timer, and the end of a download or a tap.                  *)
LEMMA FlushStep ==
    ASSUME Sound, NEW b \in Bots, Flush(b)
    PROVE  Sound'
<1>1. PICK e : e = Event(sent[Last(buffer[b])], buffer[b])
  OBVIOUS
<1>2. Grows /\ MessagesSound'
  BY NothingSent DEF Flush
<1>3. Genuine(e) /\ Genuine(e)'
  BY <1>1, <1>2, BufferIsGenuine, GenuineStays DEF Flush, Sound
<1>4. Spread(e, members) /\ log' \in Seq(Key)
  BY <1>1, <1>3, InboundSpreads DEF Flush, Genuine, Sound
<1>5. PICK s : s = <<>>
  OBVIOUS
<1>6. s \in Seq(Numbers) /\ Range(s) = {} /\ buffer' = [buffer EXCEPT ![b] = s]
  BY <1>5 DEF Flush, Range
<1>7. /\ buffer' \in [Bots -> Seq(Numbers)] /\ buffer'[b] = s
      /\ \A c \in Bots \ {b} : buffer'[c] = buffer[c]
  BY <1>6 DEF Sound, TypeOK
<1>8. WaitingSound'
  BY <1>2, <1>6, <1>7, WaitingStays DEF Flush
<1>9. Typed
  BY <1>4, <1>7 DEF Flush, Typed, Sound, TypeOK, EventsGenuine
<1>10. Spreads
  BY <1>3, <1>4, <1>9 DEF Spreads, Typed
<1> QED  BY <1>2, <1>8, <1>9, <1>10, SoundStep

LEMMA FetchedStep ==
    ASSUME Sound, NEW n \in Numbers, Fetched(n)
    PROVE  Sound'
<1>1. Grows /\ MessagesSound' /\ n \in DOMAIN sent
  BY NothingSent DEF Fetched, Sound, WaitingSound
<1>2. PICK e : e = Event(sent[n], <<n>>)
  OBVIOUS
<1>3. Genuine(e) /\ Genuine(e)'
  BY <1>1, <1>2, AloneIsGenuine, GenuineStays DEF Sound, TypeOK, MessagesSound
<1>4. WaitingSound' /\ awaited' \subseteq Numbers
  BY <1>1, WaitingStays DEF Fetched, Sound, TypeOK
<1>5. ASSUME log' \in Seq(Key) PROVE Typed
  BY <1>4, <1>5 DEF Fetched, Typed, Sound, TypeOK, EventsGenuine
<1>6. CASE OnInbound(e)
  <2>1. Spread(e, members) /\ log' \in Seq(Key)
    BY <1>3, <1>6, InboundSpreads DEF Genuine, Sound
  <2>2. Spreads
    BY <1>3, <1>5, <2>1 DEF Spreads, Typed
  <2> QED  BY <1>1, <1>4, <1>5, <2>1, <2>2, SoundStep
<1>7. CASE UNCHANGED <<job, log, rows, asking>>
  <2>1. Typed /\ Quiet
    BY <1>5, <1>7 DEF Quiet, Sound, TypeOK
  <2> QED  BY <1>1, <1>4, <2>1, SoundStep
<1> QED  BY <1>2, <1>6, <1>7 DEF Fetched

(* The container of an agent is up: the fan-out goes on.                    *)
LEMMA WokenStep ==
    ASSUME Sound, NEW j \in job, Woken(j)
    PROVE  Sound'
<1>1. Grows /\ MessagesSound'
  BY NothingSent DEF Woken
<1>2. PICK e : e = j.event
  OBVIOUS
<1>3. PICK r \in Seq(Agents) : r = j.rest
  BY DEF Sound, EventsGenuine, Fanned, Jobs
<1>4. Genuine(e) /\ e.chat = Group /\ Range(r) \subseteq Range(Wired[Group])
  BY <1>2, <1>3 DEF Sound, EventsGenuine, Fanned
<1>5. Genuine(e)' /\ e \in Events
  BY <1>1, <1>4, GenuineStays DEF Sound, Genuine
<1>6. PICK js : js = job \ {j}
  OBVIOUS
<1>7. Serve(e, r, members, js) /\ js \subseteq job
  BY <1>2, <1>3, <1>6 DEF Woken
<1>8. Spread(e, members)
  BY <1>4, <1>5, <1>7, StretchSpreads DEF Sound
<1>9. Typed
  BY TypedStays DEF Woken, adapter, Sound, TypeOK
<1>10. WaitingSound'
  BY <1>1, WaitingStays DEF Woken, adapter
<1>11. Spreads
  BY <1>5, <1>8, <1>9 DEF Spreads, Typed
<1> QED  BY <1>1, <1>9, <1>10, <1>11, SoundStep

(* Requests for an owner's word, and the answers.                           *)
LEMMA AskedStep ==
    ASSUME Sound, NEW q \in asking, Asked(q)
    PROVE  Sound'
<1>1. Grows /\ MessagesSound'
  BY NothingSent DEF Asked
<1>2. WaitingSound' /\ Quiet
  BY <1>1, WaitingStays DEF Asked, adapter, Quiet
<1>3. Held(q) /\ q \in Asks
  BY DEF Sound, EventsGenuine
<1>4. PICK s \in Strangers : s = q.event.from
  BY <1>3 DEF Held
<1>5. Typed
  <2>1. /\ policy' = policy /\ members \subseteq members' /\ members' \subseteq Senders \X Agents
        /\ recent' \subseteq UpdateIds /\ seen' \subseteq UpdateIds
        /\ buffer' \in [Bots -> Seq(Numbers)] /\ awaited' \subseteq Numbers /\ log' \in Seq(Key)
        /\ faults' \in 0..MaxFaults /\ crashes' \in 0..MaxCrashes
    BY DEF Asked, adapter, Sound, TypeOK
  <2>2. CASE UNCHANGED request
    BY <2>1, <2>2 DEF Typed, Sound, EventsGenuine
  <2>3. ASSUME NEW c \in BOOLEAN,
               request' = [request EXCEPT ![s] = [agent |-> q.agent, event |-> q.event, card |-> c]]
        PROVE  Typed
    <3>1. PICK w : w = [agent |-> q.agent, event |-> q.event, card |-> c]
      OBVIOUS
    <3>2. /\ w.agent = q.agent /\ w.event = q.event /\ w.card = c
          /\ w.agent \in Agents /\ w.event \in Events
      BY <1>3, <3>1 DEF Asks
    <3>3. Held(w)
      BY <1>3, <3>2 DEF Held, Engaged
    <3>4. Held(w)' /\ w.event.from = s
      BY <1>1, <1>4, <3>2, <3>3, HeldStays DEF Sound
    <3>5. /\ DOMAIN request' = Strangers /\ request'[s] = w
          /\ \A x \in Strangers \ {s} : request'[x] = request[x]
      BY <2>3, <3>1 DEF Sound, EventsGenuine
    <3>6. \A x \in Strangers :
            \/ request'[x] = request[x] \/ request'[x] = None
            \/ \E p : /\ request'[x] = p /\ Held(p)' /\ p.event.from = x
                      /\ p.agent \in Agents /\ p.event \in Events /\ p.card \in BOOLEAN
      BY <3>2, <3>4, <3>5
    <3> QED  BY <2>1, <3>5, <3>6 DEF Typed
  <2> QED  BY <1>4, <2>2, <2>3 DEF Asked
<1> QED  BY <1>1, <1>2, <1>5, SoundStep

LEMMA AnsweredStep ==
    ASSUME Sound, NEW s \in Strangers, Approve(s) \/ Deny(s)
    PROVE  Sound'
<1>1. Grows /\ MessagesSound'
  BY NothingSent DEF Approve, Deny
<1>2. WaitingSound'
  BY <1>1, WaitingStays DEF Approve, Deny, adapter
<1>3. PICK q : q = request[s]
  OBVIOUS
<1>4. q # None /\ Held(q) /\ q.agent \in Agents /\ q.event \in Events
  BY <1>3 DEF Approve, Deny, Sound, EventsGenuine, TypeOK
<1>5. request' = [request EXCEPT ![s] = None]
  BY DEF Approve, Deny
<1>6. ASSUME members \subseteq members', members' \subseteq Senders \X Agents PROVE Typed
  <2>1. /\ policy' = policy
        /\ recent' \subseteq UpdateIds /\ seen' \subseteq UpdateIds
        /\ buffer' \in [Bots -> Seq(Numbers)] /\ awaited' \subseteq Numbers /\ log' \in Seq(Key)
        /\ faults' \in 0..MaxFaults /\ crashes' \in 0..MaxCrashes
    BY DEF Approve, Deny, adapter, Sound, TypeOK
  <2>2. /\ DOMAIN request' = Strangers
        /\ \A x \in Strangers : request'[x] = request[x] \/ request'[x] = None
    BY <1>5 DEF Sound, EventsGenuine
  <2> QED  BY <1>6, <2>1, <2>2 DEF Typed
<1>7. CASE Deny(s)
  <2>1. Typed /\ Quiet
    BY <1>6, <1>7 DEF Deny, Sound, TypeOK, Quiet
  <2> QED  BY <1>1, <1>2, <2>1, SoundStep
<1>8. CASE Approve(s)
  <2>1. PICK e \in Events : e = q.event
    BY <1>4
  <2>2. Genuine(e) /\ Genuine(e)' /\ e.chat = Group
    BY <1>1, <1>4, <2>1, GenuineStays DEF Held, Sound
  <2>3. PICK known : known = KnownAtReplay(s)
    OBVIOUS
  <2>4. members' = known /\ known = members \cup {<<s, q.agent>>}
    BY <1>3, <1>8, <2>3 DEF Approve, KnownAtReplay, Joined
  <2>5. Serve(e, Wired[e.chat], known, job)
    BY <1>3, <1>8, <2>1, <2>3 DEF Approve
  <2>6. Wired[e.chat] \in Seq(Agents)
    BY <2>2, Wires DEF Chats
  <2>7. Spread(e, known)
    BY <2>2, <2>5, <2>6, StretchSpreads DEF Sound
  <2>8. Typed
    BY <1>4, <1>6, <2>4 DEF Sound, TypeOK, Senders
  <2>9. Spreads
    BY <2>2, <2>4, <2>7 DEF Spreads
  <2> QED  BY <1>1, <1>2, <2>8, <2>9, SoundStep
<1> QED  BY <1>7, <1>8

LEMMA RestartStep ==
    ASSUME Sound, Restart
    PROVE  Sound'
<1>1. Grows /\ MessagesSound'
  BY NothingSent DEF Restart
<1>2. PICK s : s = <<>>
  OBVIOUS
<1>3. s \in Seq(Numbers) /\ Range(s) = {} /\ buffer' = [b \in Bots |-> s]
  BY <1>2 DEF Restart, Range
<1>4. WaitingSound'
  BY <1>1, <1>3, WaitingStays DEF Restart
<1>5. crashes' \in 0..MaxCrashes
  BY ConstantsTyped DEF Restart, Sound, TypeOK
<1>6. Typed
  BY <1>3, <1>5 DEF Restart, Typed, Sound, TypeOK, EventsGenuine
<1>7. Quiet
  BY DEF Restart, Quiet
<1> QED  BY <1>1, <1>4, <1>6, <1>7, SoundStep

LEMMA SoundNext ==
    ASSUME Sound, [Next]_vars
    PROVE  Sound'
<1>1. CASE UNCHANGED vars
  <2>1. Grows /\ MessagesSound'
    BY <1>1, NothingSent DEF vars
  <2>2. Typed /\ Quiet
    BY <1>1 DEF vars, adapter, access, Typed, Quiet, Sound, TypeOK, EventsGenuine
  <2>3. WaitingSound'
    BY <1>1, <2>1, WaitingStays DEF vars, adapter
  <2> QED  BY <2>1, <2>2, <2>3, SoundStep
<1>2. CASE Next
  BY <1>2, ChatStep, TelegramStep, FlushStep, FetchedStep, WokenStep, AskedStep, AnsweredStep,
     RestartStep
  DEF Next
<1> QED  BY <1>1, <1>2

(* Messages, events, rows and requests are well formed; the rows of a       *)
(* session have different ids; nobody wakes an agent they do not belong to  *)
(* (routeInbound, insertMessage, the access gate).                          *)
THEOREM EventsAreGenuine == Spec => []Sound
<1>1. Init => Sound
  <2> SUFFICES ASSUME Init PROVE Sound
    OBVIOUS
  <2>1. PICK s : s = <<>>
    OBVIOUS
  <2>2. \A T : s \in Seq(T)
    BY <2>1
  <2>3. DOMAIN s = {} /\ Range(s) = {} /\ Len(s) = 0
    BY <2>1 DEF Range
  <2>4. /\ sent = s /\ log = s /\ rows = [a \in Agents |-> s] /\ buffer = [b \in Bots |-> s]
    BY <2>1 DEF Init
  <2>5. TypeOK
    BY <2>2, <2>4, ConstantsTyped DEF Init, TypeOK, Senders
  <2>6. MessagesSound /\ WaitingSound
    BY <2>3, <2>4, ConstantsTyped DEF Init, MessagesSound, WaitingSound
  <2>7. EventsGenuine /\ KeysOnce /\ FoundersBelong /\ StrangersAreHeld
    BY <2>3, <2>4 DEF Init, EventsGenuine, KeysOnce, FoundersBelong, StrangersAreHeld
  <2> QED  BY <2>5, <2>6, <2>7 DEF Sound
<1>2. Sound /\ [Next]_vars => Sound'
  BY SoundNext
<1> QED  BY <1>1, <1>2, PTL DEF Spec

(* No row wakes an agent with a message of somebody who is not a member of  *)
(* its group, through the gates, the fan-outs that wait for a container and *)
(* the replays after an approval (the access gate, sender_scope).           *)
THEOREM NoStrangerWakesAnAgent == Spec => []StrangersAreHeld
<1>1. Sound => StrangersAreHeld
  BY DEF Sound
<1> QED  BY <1>1, EventsAreGenuine, PTL

-----------------------------------------------------------------------------
(* The replay of an approval *)

(* A stretch gets to the first agent that has the event, or wakes on it.    *)
LEMMA StretchHalts ==
    ASSUME TypeOK, NEW e \in Events, NEW agents \in Seq(Agents), NEW known, NEW jobs,
           Serve(e, agents, known, jobs), NEW i \in DOMAIN agents,
           Outcome(agents[i], e, known) \in {"wake", "throw"}
    PROVE  \E s \in 1..i : \E r \in DOMAIN rows'[agents[s]] :
              rows'[agents[s]][r].event.key = e.key
<1> DEFINE out == [k \in DOMAIN agents |-> Outcome(agents[k], e, known)]
           halts == {k \in DOMAIN agents : out[k] \in {"wake", "throw"}}
           stop == Min(halts \cup {Len(agents)})
           done == 1..stop
<1>1. DOMAIN agents = 1..Len(agents) /\ Len(agents) \in Nat
  OBVIOUS
<1>2. i \in halts /\ halts \subseteq 1..Len(agents)
  BY <1>1
<1>3. stop \in halts /\ stop <= i
  <2>1. halts \cup {Len(agents)} \subseteq Nat
    BY <1>1
  <2>2. /\ stop \in halts \cup {Len(agents)}
        /\ \A n \in halts \cup {Len(agents)} : stop <= n
    BY <2>1, MinOf
  <2> HIDE DEF stop
  <2>3. i <= Len(agents) /\ stop <= i
    BY <1>1, <2>2
  <2>4. CASE stop = Len(agents)
    BY <1>1, <1>2, <2>3, <2>4
  <2> QED  BY <2>2, <2>3, <2>4
<1>4. rows' = [a \in Agents |->
              IF \E k \in done : agents[k] = a /\ out[k] \in {"wake", "keep"}
              THEN Append(rows[a], [event |-> e,
                                    trigger |-> \E k \in done : agents[k] = a /\ out[k] = "wake"])
              ELSE rows[a]]
  BY DEF Serve
<1>5. \A k \in DOMAIN agents : agents[k] \in Agents /\ out[k] = Outcome(agents[k], e, known)
  OBVIOUS
<1> HIDE DEF stop, out
<1>6. PICK s \in 1..i : s = stop
  BY <1>1, <1>2, <1>3
<1>7. PICK a \in Agents : a = agents[s]
  BY <1>2, <1>3, <1>5, <1>6
<1>8. out[s] \in {"wake", "throw"} /\ s \in done /\ s \in DOMAIN agents
  BY <1>2, <1>3, <1>6
<1>9. rows[a] \in Seq([event : Events, trigger : BOOLEAN])
  BY DEF TypeOK
<1>10. CASE out[s] = "wake"
  <2>1. \E k \in done : agents[k] = a /\ out[k] \in {"wake", "keep"}
    BY <1>7, <1>8, <1>10
  <2>2. PICK t \in BOOLEAN : t = (\E k \in done : agents[k] = a /\ out[k] = "wake")
    OBVIOUS
  <2>3. PICK w : w = [event |-> e, trigger |-> t]
    OBVIOUS
  <2>4. rows'[a] = Append(rows[a], w) /\ w.event = e
    BY <1>4, <2>1, <2>2, <2>3
  <2>5. Len(rows[a]) + 1 \in DOMAIN rows'[a] /\ rows'[a][Len(rows[a]) + 1] = w
    BY <1>9, <2>4
  <2> QED  BY <1>7, <2>4, <2>5
<1>11. CASE out[s] = "throw"
  <2>1. Written(a, e)
    BY <1>5, <1>7, <1>8, <1>11, Outcomes
  <2>2. PICK r \in DOMAIN rows[a] : rows[a][r].event.key = e.key
    BY <2>1 DEF Written
  <2>3. rows'[a] = rows[a] \/ \E w : rows'[a] = Append(rows[a], w)
    BY <1>4
  <2>4. r \in DOMAIN rows'[a] /\ rows'[a][r] = rows[a][r]
    BY <1>9, <2>2, <2>3
  <2> QED  BY <1>7, <2>2, <2>4
<1> QED  BY <1>8, <1>10, <1>11

(* When a sender is allowed, the agent they were allowed for has the        *)
(* message that was held, unless an agent before it in the fan-out has it   *)
(* (the approval's replay through routeInbound).                            *)
THEOREM TheApprovedIsHeard == Spec => ApprovedIsHeard
<1> DEFINE Heard(s) ==
      LET q == request[s] IN
         /\ q # None /\ q.event.kind = "text"
         /\ members' # members /\ request'[s] = None
         => \E i \in DOMAIN Wired[Group] :
               LET a == Wired[Group][i] IN
               /\ \A k \in 1..(i - 1) : Wired[Group][k] # q.agent
               /\ \E r \in DOMAIN rows'[a] : rows'[a][r].event.key = q.event.key
<1>1. Sound /\ [Next]_vars => [\A s \in Strangers : Heard(s)]_vars
  <2> SUFFICES ASSUME Sound, Next, NEW s \in Strangers,
                      request[s] # None, request[s].event.kind = "text",
                      members' # members, request'[s] = None
               PROVE  \E i \in DOMAIN Wired[Group] :
                         /\ \A k \in 1..(i - 1) : Wired[Group][k] # request[s].agent
                         /\ \E r \in DOMAIN rows'[Wired[Group][i]] :
                               rows'[Wired[Group][i]][r].event.key = request[s].event.key
    OBVIOUS
  <2>1. Approve(s)
    <3>1. \E x \in Strangers : Approve(x)
      BY DEF Next, GroupMessage, WebMessage, WebAgain, Arrives, ComesAgain, Fetched, Flush, Woken,
             Asked, Deny, Restart
    <3>2. PICK x \in Strangers : Approve(x)
      BY <3>1
    <3>3. request' = [request EXCEPT ![x] = None]
      BY <3>2 DEF Approve
    <3> QED  BY <3>2, <3>3 DEF Sound, EventsGenuine
  <2>2. PICK q : q = request[s]
    OBVIOUS
  <2>3. /\ Held(q) /\ q.event \in Events /\ q.event.chat = Group /\ q.event.from = s
        /\ q.agent \in Agents
    BY <2>2 DEF Held, Sound, EventsGenuine, TypeOK
  <2>4. PICK e \in Events : e = q.event
    BY <2>3
  <2>5. PICK known : known = members \cup {<<s, q.agent>>}
    OBVIOUS
  <2>6. PICK agents \in Seq(Agents) : agents = Wired[Group]
    BY Wires DEF Chats
  <2>7. Serve(e, agents, known, job)
    BY <2>1, <2>2, <2>3, <2>4, <2>5, <2>6 DEF Approve, KnownAtReplay, Joined
  <2>8. PICK i \in DOMAIN agents :
           agents[i] = q.agent /\ \A k \in 1..(i - 1) : agents[k] # q.agent
    <3> DEFINE T == {k \in DOMAIN agents : agents[k] = q.agent}
    <3>1. T # {} /\ T \subseteq Nat
      BY <2>3, <2>6 DEF Held, Range
    <3>2. Min(T) \in T /\ \A k \in T : Min(T) <= k
      BY <3>1, MinOf
    <3>3. PICK i \in T : \A k \in T : i <= k
      BY <3>2
    <3>4. ASSUME NEW k \in 1..(i - 1) PROVE agents[k] # q.agent
      BY <3>3
    <3> QED  BY <3>3, <3>4
  <2>9. Outcome(agents[i], e, known) \in {"wake", "throw"}
    <3>1. Engaged(q.agent, e) /\ <<e.from, q.agent>> \in known /\ e.kind = "text"
      BY <2>2, <2>3, <2>4, <2>5 DEF Held
    <3>2. Admits(q.agent, e, known) /\ InScope(q.agent, e, known) /\ Passes(e)
      BY <3>1 DEF Admits, InScope, Passes
    <3> QED  BY <2>8, <3>1, <3>2, Outcomes
  <2>10. PICK n \in 1..i : \E r \in DOMAIN rows'[agents[n]] :
                              rows'[agents[n]][r].event.key = e.key
    BY <2>7, <2>9, StretchHalts DEF Sound
  <2>11. n \in DOMAIN agents /\ \A k \in 1..(n - 1) : agents[k] # q.agent
    BY <2>8
  <2> QED  BY <2>2, <2>4, <2>6, <2>10, <2>11
<1>2. Spec => [][\A s \in Strangers : Heard(s)]_vars
  BY <1>1, EventsAreGenuine, PTL DEF Spec
<1> QED  BY <1>2 DEF ApprovedIsHeard

-----------------------------------------------------------------------------
(* The steps, as far as the rows, the log and the updates are concerned *)

(* A message of the group or the dashboard reaches onInbound.               *)
ChatInbound ==
    /\ Grows /\ \A n \in DOMAIN sent' \ DOMAIN sent : sent'[n].chat \notin Bots
    /\ UNCHANGED <<adapter, faults, crashes>>
    /\ \E e : Genuine(e)' /\ OnInbound(e) /\ e.chat \notin Bots

(* A fan-out goes on, a request of a stranger is made or answered.          *)
GroupOnly ==
    /\ UNCHANGED <<sent, log, adapter, faults, crashes>>
    /\ \A a \in Agents : rows'[a] = rows[a] \/ \E e, known :
          Genuine(e)' /\ e.chat = Group /\ Gets(a, e, known)

(* An update of a bot comes, for the first time or again.                   *)
Updated ==
    /\ Grows /\ crashes' = crashes
    /\ \E n \in DOMAIN sent' :
          /\ DOMAIN sent' \ DOMAIN sent \subseteq {n} /\ sent'[n].chat \in Bots
          /\ Process(sent'[n], n)

LEMMA Shapes ==
    ASSUME Sound, [Next]_vars
    PROVE  \/ ChatInbound \/ GroupOnly \/ Updated \/ Restart
           \/ \E b \in Bots : Flush(b)
           \/ \E n \in Numbers : Fetched(n)
<1>1. ASSUME NEW n \in DOMAIN sent', Grows, MessagesSound', NEW e, e = Event(sent'[n], <<n>>)
      PROVE  Genuine(e)' /\ e.chat = sent'[n].chat
  <2>1. sent' \in Seq(Messages) /\ Len(sent') <= MaxMessages
    BY <1>1 DEF Grows, MessagesSound
  <2> QED  BY <1>1, <2>1, AloneIsGenuine, AloneIsEvent
<1>2. ASSUME NEW m \in Messages, Len(sent) + 1 <= MaxMessages, sent' = Append(sent, m),
             m.chat \in {Web, Group}, m.id = Len(sent) + 1, m.kind \in {"text", "command"},
             m.chat = Web => m.from = Founder, OnInbound(Event(m, <<Len(sent) + 1>>)),
             UNCHANGED <<adapter, faults, crashes>>
      PROVE  ChatInbound
  <2>1. m.chat \notin Bots
    BY <1>2, ConstantsTyped
  <2>2. /\ Grows /\ MessagesSound' /\ Len(sent) + 1 \in DOMAIN sent'
        /\ DOMAIN sent' = DOMAIN sent \cup {Len(sent) + 1} /\ sent'[Len(sent) + 1] = m
    BY <1>2, <2>1, Added
  <2>3. PICK n : n = Len(sent) + 1
    OBVIOUS
  <2>4. PICK e : e = Event(m, <<n>>)
    OBVIOUS
  <2>5. Genuine(e)' /\ e.chat = m.chat
    BY <1>1, <2>2, <2>3, <2>4
  <2> QED  BY <1>2, <2>1, <2>2, <2>3, <2>4, <2>5 DEF ChatInbound
<1>3. ASSUME NEW s \in Senders, NEW k \in {"text", "command"}, GroupMessage(s, k)
      PROVE  ChatInbound
  <2>1. PICK m : m = [chat |-> Group, id |-> Len(sent) + 1, kind |-> k, from |-> s]
    OBVIOUS
  <2>2. Len(sent) + 1 \in Numbers /\ Len(sent) + 1 <= MaxMessages
    BY <1>3, ConstantsTyped DEF GroupMessage, Numbers, Sound, TypeOK
  <2>3. m \in Messages
    BY <2>1, <2>2 DEF Messages, Chats, Kinds
  <2> QED  BY <1>2, <1>3, <2>1, <2>2, <2>3, ConstantsTyped DEF GroupMessage
<1>4. ASSUME WebMessage PROVE ChatInbound
  <2>1. PICK m : m = [chat |-> Web, id |-> Len(sent) + 1, kind |-> "text", from |-> Founder]
    OBVIOUS
  <2>2. Len(sent) + 1 \in Numbers /\ Len(sent) + 1 <= MaxMessages
    BY <1>4, ConstantsTyped DEF WebMessage, Numbers, Sound, TypeOK
  <2>3. m \in Messages
    BY <2>1, <2>2 DEF Messages, Chats, Kinds, Senders
  <2> QED  BY <1>2, <1>4, <2>1, <2>2, <2>3 DEF WebMessage
<1>5. ASSUME NEW n \in Numbers, WebAgain(n) PROVE ChatInbound
  <2>1. PICK e : e = Event(sent[n], <<n>>)
    OBVIOUS
  <2>2. Grows /\ MessagesSound' /\ n \in DOMAIN sent' /\ sent' = sent
    BY <1>5, NothingSent DEF WebAgain
  <2>3. Genuine(e)' /\ e.chat = Web
    BY <1>1, <1>5, <2>1, <2>2 DEF WebAgain
  <2> QED  BY <1>5, <2>1, <2>2, <2>3, ConstantsTyped DEF WebAgain, ChatInbound
<1>6. ASSUME NEW b \in Bots, NEW i \in UpdateIds, NEW k \in Kinds, Arrives(b, i, k)
      PROVE  Updated
  <2>1. PICK m : m = [chat |-> b, id |-> i, kind |-> k, from |-> Founder]
    OBVIOUS
  <2>2. m \in Messages /\ m.chat = b /\ m.id = i /\ m.from = Founder
    BY <2>1 DEF Messages, Chats, Senders
  <2>3. /\ Len(sent) + 1 <= MaxMessages /\ sent' = Append(sent, m)
        /\ \A p \in DOMAIN sent : sent[p].chat = b => sent[p].id < i
        /\ Process(m, Len(sent) + 1) /\ crashes' = crashes
    BY <1>6, <2>1 DEF Arrives
  <2>4. /\ Grows /\ Len(sent) + 1 \in DOMAIN sent'
        /\ DOMAIN sent' = DOMAIN sent \cup {Len(sent) + 1} /\ sent'[Len(sent) + 1] = m
    BY <2>2, <2>3, Added
  <2>5. PICK n : n = Len(sent) + 1
    OBVIOUS
  <2> QED  BY <2>2, <2>3, <2>4, <2>5 DEF Updated
<1>7. ASSUME NEW n \in Numbers, ComesAgain(n) PROVE Updated
  <2>1. Grows /\ n \in DOMAIN sent' /\ sent' = sent
    BY <1>7, NothingSent DEF ComesAgain
  <2> QED  BY <1>7, <2>1 DEF ComesAgain, Updated
<1>8. ASSUME NEW j \in job, Woken(j) PROVE GroupOnly
  <2>1. Grows
    BY <1>8, NothingSent DEF Woken
  <2>2. PICK e : e = j.event
    OBVIOUS
  <2>3. PICK r \in Seq(Agents) : r = j.rest
    BY DEF Sound, EventsGenuine, Fanned, Jobs
  <2>4. Genuine(e) /\ e.chat = Group /\ e \in Events
    BY <2>2 DEF Sound, EventsGenuine, Fanned, Genuine
  <2>5. Genuine(e)'
    BY <2>1, <2>4, GenuineStays DEF Sound
  <2>6. PICK js : js = job \ {j}
    OBVIOUS
  <2>7. Serve(e, r, members, js) /\ rows \in [Agents -> Seq(Rows)]
    BY <1>8, <2>2, <2>3, <2>6 DEF Woken, Sound, TypeOK, Rows
  <2>8. \A a \in Agents : rows'[a] = rows[a] \/ Gets(a, e, members)
    BY <2>4, <2>7, Stretch
  <2> QED  BY <1>8, <2>4, <2>5, <2>8 DEF Woken, GroupOnly
<1>9. ASSUME NEW s \in Strangers, Approve(s) PROVE GroupOnly
  <2>1. Grows
    BY <1>9, NothingSent DEF Approve
  <2>2. PICK e : e = request[s].event
    OBVIOUS
  <2>3. Genuine(e) /\ e.chat = Group /\ e \in Events
    BY <1>9, <2>2 DEF Approve, Sound, EventsGenuine, Held, Genuine
  <2>4. Genuine(e)'
    BY <2>1, <2>3, GenuineStays DEF Sound
  <2>5. PICK known : known = KnownAtReplay(s)
    OBVIOUS
  <2>6. PICK agents \in Seq(Agents) : agents = Wired[Group]
    BY Wires DEF Chats
  <2>7. Serve(e, agents, known, job) /\ rows \in [Agents -> Seq(Rows)]
    BY <1>9, <2>2, <2>3, <2>5, <2>6 DEF Approve, Sound, TypeOK, Rows
  <2>8. \A a \in Agents : rows'[a] = rows[a] \/ Gets(a, e, known)
    BY <2>3, <2>7, Stretch
  <2> QED  BY <1>9, <2>3, <2>4, <2>8 DEF Approve, GroupOnly
<1>10. CASE \/ \E q \in asking : Asked(q)
            \/ \E s \in Strangers : Deny(s)
            \/ UNCHANGED vars
  BY <1>10 DEF Asked, Deny, vars, GroupOnly
<1> QED
  BY <1>3, <1>4, <1>5, <1>6, <1>7, <1>8, <1>9, <1>10 DEF Next

-----------------------------------------------------------------------------
(* The dashboard's log *)

(* What an agent takes of its founder's chat.                               *)
Accepts(a, k) == k # "help" /\ (<<a, k>> \in Engages \/ a \in Keepers)

(* The log has messages, and the agent of their chat has read those.        *)
LogSound ==
    /\ \A p \in DOMAIN log : \E n \in DOMAIN sent : log[p] = KeyOf(sent[n])
    /\ \A a \in Agents, n \in DOMAIN sent :
          /\ sent[n].chat # Group /\ Wired[sent[n].chat] = <<a>>
          /\ Accepts(a, sent[n].kind) /\ KeyOf(sent[n]) \in Range(log)
          => \E i \in DOMAIN rows[a] : rows[a][i].event.key = KeyOf(sent[n])

(* A key names one message.                                                 *)
LEMMA KeysName ==
    Sound => \A n, m \in DOMAIN sent : KeyOf(sent[n]) = KeyOf(sent[m]) => n = m
<1> SUFFICES ASSUME Sound, NEW n \in DOMAIN sent, NEW m \in DOMAIN sent,
                    KeyOf(sent[n]) = KeyOf(sent[m])
             PROVE  n = m
  OBVIOUS
<1>1. sent \in Seq(Messages) /\ DOMAIN sent = 1..Len(sent) /\ Len(sent) \in Nat
  BY DEF Sound, TypeOK
<1>2. sent[n].chat = sent[m].chat /\ sent[n].id = sent[m].id
  BY DEF KeyOf
<1>3. CASE sent[n].chat \in Bots
  <2>1. sent[n].id \in UpdateIds /\ sent[m].id \in UpdateIds /\ UpdateIds \subseteq Nat
    BY <1>2, <1>3, ConstantsTyped DEF Sound, MessagesSound
  <2>2. /\ n < m => sent[n].id < sent[m].id
        /\ m < n => sent[m].id < sent[n].id
    BY <1>2, <1>3 DEF Sound, MessagesSound
  <2>3. sent[n].id \in Nat /\ sent[n].id = sent[m].id
    BY <1>2, <2>1
  <2>4. ~(n < m) /\ ~(m < n)
    BY <2>2, <2>3
  <2> QED  BY <1>1, <2>4
<1>4. CASE sent[n].chat \notin Bots
  BY <1>2, <1>4 DEF Sound, MessagesSound
<1> QED  BY <1>3, <1>4

LEMMA KeysNameNext ==
    (Sound => \A n, m \in DOMAIN sent : KeyOf(sent[n]) = KeyOf(sent[m]) => n = m)'
BY KeysName, PTL

(* A stretch of the router with one agent.                                  *)
LEMMA OneAgent ==
    ASSUME NEW e, NEW agents, NEW a \in Agents, agents = <<a>>, NEW known, NEW jobs,
           Serve(e, agents, known, jobs)
    PROVE  /\ \A b \in Agents \ {a} : rows'[b] = rows[b]
           /\ Outcome(a, e, known) \notin {"wake", "keep"} => rows'[a] = rows[a]
           /\ Outcome(a, e, known) \in {"wake", "keep"} =>
                 \E t \in BOOLEAN : rows'[a] = Append(rows[a], [event |-> e, trigger |-> t])
<1> DEFINE out == [k \in DOMAIN agents |-> Outcome(agents[k], e, known)]
           halts == {k \in DOMAIN agents : out[k] \in {"wake", "throw"}}
           stop == Min(halts \cup {Len(agents)})
           done == 1..stop
<1>1. DOMAIN agents = {1} /\ Len(agents) = 1 /\ agents[1] = a
  OBVIOUS
<1>2. halts \cup {Len(agents)} = {1}
  BY <1>1
<1>3. stop = 1
  <2>1. Min({1}) \in {1}
    BY MinOf
  <2> QED  BY <1>2, <2>1
<1>4. out[1] = Outcome(a, e, known)
  BY <1>1
<1>5. rows' = [b \in Agents |->
              IF \E k \in done : agents[k] = b /\ out[k] \in {"wake", "keep"}
              THEN Append(rows[b], [event |-> e,
                                    trigger |-> \E k \in done : agents[k] = b /\ out[k] = "wake"])
              ELSE rows[b]]
  BY DEF Serve
<1> HIDE DEF stop
<1>6. done = {1}
  BY <1>3
<1> HIDE DEF done, out
<1>7. \A b \in Agents \ {a} : rows'[b] = rows[b]
  BY <1>1, <1>4, <1>5, <1>6
<1>8. Outcome(a, e, known) \notin {"wake", "keep"} => rows'[a] = rows[a]
  BY <1>1, <1>4, <1>5, <1>6
<1>9. ASSUME Outcome(a, e, known) \in {"wake", "keep"}
      PROVE  \E t \in BOOLEAN : rows'[a] = Append(rows[a], [event |-> e, trigger |-> t])
  <2>1. PICK t \in BOOLEAN : t = (\E k \in done : agents[k] = a /\ out[k] = "wake")
    OBVIOUS
  <2>2. \E k \in done : agents[k] = a /\ out[k] \in {"wake", "keep"}
    BY <1>1, <1>4, <1>6, <1>9
  <2> QED  BY <1>5, <2>1, <2>2
<1> QED  BY <1>7, <1>8, <1>9

(* The agent of a founder's chat takes what it accepts and does not have.   *)
LEMMA FoundersOutcome ==
    ASSUME Sound, MessagesSound', NEW e, Genuine(e)', e.chat # Group, NEW a \in Agents
    PROVE  /\ Accepts(a, e.kind) /\ ~Written(a, e) <=> Outcome(a, e, members) \in {"wake", "keep"}
           /\ e.from = Founder
<1>1. e.chat \in Bots \cup {Web} /\ e \in Events /\ e.parts \in Seq(Numbers) /\ e.parts # <<>>
  BY DEF Genuine, Events, Chats
<1>2. Len(e.parts) \in DOMAIN e.parts
  BY <1>1
<1>3. PICK n : n = Last(e.parts)
  OBVIOUS
<1>4. n \in DOMAIN sent' /\ sent'[n].chat = e.chat /\ e.from = sent'[n].from
  BY <1>2, <1>3 DEF Genuine, Last
<1>5. e.from = Founder
  BY <1>1, <1>4, ConstantsTyped DEF MessagesSound
<1>6. <<e.from, a>> \in members
  BY <1>5 DEF Sound, FoundersBelong
<1>7. Admits(a, e, members) /\ InScope(a, e, members)
  BY <1>6 DEF Admits, InScope
<1>8. Passes(e) <=> e.kind # "help"
  BY <1>5 DEF Passes
<1>9. Engaged(a, e) <=> <<a, e.kind>> \in Engages
  BY DEF Engaged
<1> QED  BY <1>5, <1>7, <1>8, <1>9, Outcomes DEF Accepts

(* A sequence and one more element.                                         *)
LEMMA OneMore ==
    ASSUME NEW T, NEW s \in Seq(T), NEW x \in T, NEW t
    PROVE  /\ t = s \/ t = Append(s, x) =>
                 \A p \in DOMAIN s : p \in DOMAIN t /\ t[p] = s[p] /\ p \in Nat /\ p < Len(s) + 1
           /\ t = Append(s, x) =>
                 /\ Len(s) + 1 \in DOMAIN t /\ t[Len(s) + 1] = x /\ Len(s) \in Nat
                 /\ \A p \in DOMAIN t : p \in DOMAIN s \/ p = Len(s) + 1
<1>1. CASE t = s
  BY <1>1
<1>2. CASE t = Append(s, x)
  BY <1>2
<1> QED  BY <1>1, <1>2

(* A step may log one message that was not logged, and must give it to the  *)
(* agent of its chat then; other messages an agent gets are the group's.    *)
Mine(a, k) == k.chat # Group /\ Wired[k.chat] = <<a>>

\* The log is what it was, or has k.
Logs(k) ==
    \/ log' = log
    \/ /\ log' = Append(log, k) /\ k \notin Range(log)
       /\ \E n \in DOMAIN sent' : k = KeyOf(sent'[n])
\* An agent's new row is of the group, or of k.
Fills(k) ==
    \A a \in Agents : rows'[a] = rows[a] \/ \E e, known :
       /\ Gets(a, e, known) /\ Genuine(e)'
       /\ e.chat = Group \/ (log' = Append(log, k) /\ e.key = k)
\* The agent of the chat has k, if it takes such messages.
Hears(k) ==
    log' # log => \A a \in Agents, n \in DOMAIN sent' :
       /\ sent'[n].chat # Group /\ Wired[sent'[n].chat] = <<a>>
       /\ Accepts(a, sent'[n].kind) /\ KeyOf(sent'[n]) = k
       => \E i \in DOMAIN rows'[a] : rows'[a][i].event.key = k

LEMMA TimelineIs ==
    SameTimeline <=>
      /\ \A p, q \in DOMAIN log : log[p] = log[q] => p = q
      /\ \A a \in Agents : \A i \in DOMAIN rows[a] :
            Mine(a, rows[a][i].event.key) => \E p \in DOMAIN log : log[p] = rows[a][i].event.key
      /\ \A a \in Agents : \A i, j \in DOMAIN rows[a], p, q \in DOMAIN log :
            /\ Mine(a, rows[a][i].event.key) /\ Mine(a, rows[a][j].event.key)
            /\ log[p] = rows[a][i].event.key /\ log[q] = rows[a][j].event.key
            => (i < j <=> p < q)
BY DEF SameTimeline, Mine

LEMMA TimelineIsNext ==
    (SameTimeline <=>
      /\ \A p, q \in DOMAIN log : log[p] = log[q] => p = q
      /\ \A a \in Agents : \A i \in DOMAIN rows[a] :
            Mine(a, rows[a][i].event.key) => \E p \in DOMAIN log : log[p] = rows[a][i].event.key
      /\ \A a \in Agents : \A i, j \in DOMAIN rows[a], p, q \in DOMAIN log :
            /\ Mine(a, rows[a][i].event.key) /\ Mine(a, rows[a][j].event.key)
            /\ log[p] = rows[a][i].event.key /\ log[q] = rows[a][j].event.key
            => (i < j <=> p < q))'
BY TimelineIs, PTL

LEMMA TimelineStep ==
    ASSUME Sound, Sound', Grows, LogSound, SameTimeline, NEW k \in Key,
           Logs(k), Fills(k), Hears(k)
    PROVE  LogSound' /\ SameTimeline'
<1>1. /\ log \in Seq(Key) /\ log' \in Seq(Key)
      /\ DOMAIN log = 1..Len(log) /\ Len(log) \in Nat
      /\ DOMAIN sent \subseteq DOMAIN sent'
  BY DEF Sound, TypeOK, Grows
<1>2. ASSUME NEW p \in DOMAIN log'
      PROVE  \/ p \in DOMAIN log /\ log'[p] = log[p]
             \/ log' # log /\ p = Len(log) + 1 /\ log'[p] = k /\ log' = Append(log, k)
  BY <1>1, <1>2, OneMore DEF Logs
<1>3. \A p \in DOMAIN log : p \in DOMAIN log' /\ log'[p] = log[p] /\ p < Len(log) + 1
  BY <1>1, OneMore DEF Logs
<1>14. log' = Append(log, k) => Len(log) + 1 \in DOMAIN log' /\ log'[Len(log) + 1] = k
  BY <1>1, OneMore
<1>4. log' # log => k \notin Range(log)
  BY DEF Logs
<1>5. \A p \in DOMAIN log : log[p] \in Range(log)
  BY DEF Range
<1>6. ASSUME NEW a \in Agents, NEW i \in DOMAIN rows'[a], Mine(a, rows'[a][i].event.key)
      PROVE  \/ i \in DOMAIN rows[a] /\ rows'[a][i] = rows[a][i]
             \/ /\ i = Len(rows[a]) + 1 /\ rows'[a][i].event.key = k
                /\ log' = Append(log, k)
  <2>1. CASE rows'[a] = rows[a]
    BY <2>1
  <2>2. ASSUME NEW e, NEW known, Gets(a, e, known), Genuine(e)',
               e.chat = Group \/ (log' = Append(log, k) /\ e.key = k)
        PROVE  \/ i \in DOMAIN rows[a] /\ rows'[a][i] = rows[a][i]
               \/ /\ i = Len(rows[a]) + 1 /\ rows'[a][i].event.key = k
                  /\ log' = Append(log, k)
    <3>1. /\ DOMAIN rows'[a] = DOMAIN rows[a] \cup {Len(rows[a]) + 1}
          /\ \A j \in DOMAIN rows[a] : rows'[a][j] = rows[a][j]
          /\ rows'[a][Len(rows[a]) + 1].event = e
      BY <2>2, RowByRow DEF Sound
    <3>2. e.key.chat = e.chat
      <4>1. e.parts \in Seq(Numbers) /\ e.parts # <<>>
        BY <2>2 DEF Genuine, Events
      <4>2. Len(e.parts) \in DOMAIN e.parts
        BY <4>1
      <4> QED  BY <2>2, <4>2 DEF Genuine, Last, KeyOf
    <3> QED  BY <1>6, <2>2, <3>1, <3>2 DEF Mine
  <2> QED  BY <2>1, <2>2 DEF Fills
<1>7. \A a \in Agents : \A i \in DOMAIN rows[a] :
         /\ i \in DOMAIN rows'[a] /\ rows'[a][i] = rows[a][i] /\ i < Len(rows[a]) + 1
         /\ Len(rows[a]) \in Nat /\ i \in Nat
  <2> SUFFICES ASSUME NEW a \in Agents, NEW i \in DOMAIN rows[a]
               PROVE  /\ i \in DOMAIN rows'[a] /\ rows'[a][i] = rows[a][i] /\ i < Len(rows[a]) + 1
                      /\ Len(rows[a]) \in Nat /\ i \in Nat
    OBVIOUS
  <2>1. i \in Nat /\ Len(rows[a]) \in Nat /\ i < Len(rows[a]) + 1
    BY DEF Sound, TypeOK
  <2>2. CASE rows'[a] = rows[a]
    BY <2>1, <2>2
  <2>3. ASSUME NEW e, NEW known, Gets(a, e, known)
        PROVE  i \in DOMAIN rows'[a] /\ rows'[a][i] = rows[a][i]
    BY <2>3, RowByRow DEF Sound
  <2> QED  BY <2>1, <2>2, <2>3 DEF Fills
<1>8. LogSound'
  <2>1. ASSUME NEW p \in DOMAIN log' PROVE \E n \in DOMAIN sent' : log'[p] = KeyOf(sent'[n])
    <3>1. CASE p \in DOMAIN log /\ log'[p] = log[p]
      <4>1. PICK n \in DOMAIN sent : log[p] = KeyOf(sent[n])
        BY <3>1 DEF LogSound
      <4> QED  BY <1>1, <3>1, <4>1 DEF Grows
    <3>2. CASE log' = Append(log, k) /\ log' # log /\ log'[p] = k
      BY <3>2 DEF Logs
    <3> QED  BY <1>2, <3>1, <3>2
  <2>2. ASSUME NEW a \in Agents, NEW n \in DOMAIN sent', sent'[n].chat # Group,
               Wired[sent'[n].chat] = <<a>>, Accepts(a, sent'[n].kind),
               KeyOf(sent'[n]) \in Range(log')
        PROVE  \E i \in DOMAIN rows'[a] : rows'[a][i].event.key = KeyOf(sent'[n])
    <3>1. PICK p \in DOMAIN log' : log'[p] = KeyOf(sent'[n])
      BY <2>2 DEF Range
    <3>2. CASE p \in DOMAIN log /\ log'[p] = log[p]
      <4>1. PICK m \in DOMAIN sent : log[p] = KeyOf(sent[m])
        BY <3>2 DEF LogSound
      <4>2. m \in DOMAIN sent' /\ sent'[m] = sent[m]
        BY <1>1, <4>1 DEF Grows
      <4>3. n = m
        BY <3>1, <3>2, <4>1, <4>2, KeysNameNext
      <4>4. KeyOf(sent[m]) \in Range(log)
        BY <1>5, <3>2, <4>1
      <4>5. PICK i \in DOMAIN rows[a] : rows[a][i].event.key = KeyOf(sent[m])
        BY <2>2, <4>2, <4>3, <4>4 DEF LogSound
      <4> QED  BY <1>7, <4>2, <4>3, <4>5
    <3>3. CASE log' # log /\ log'[p] = k
      BY <2>2, <3>1, <3>3 DEF Hears
    <3> QED  BY <1>2, <3>2, <3>3
  <2> QED  BY <2>1, <2>2 DEF LogSound

<1>9. ASSUME NEW p \in DOMAIN log', NEW q \in DOMAIN log', log'[p] = log'[q] PROVE p = q
  BY <1>2, <1>4, <1>5, <1>9, TimelineIs
<1>10. ASSUME NEW a \in Agents, NEW i \in DOMAIN rows[a], Mine(a, rows[a][i].event.key)
       PROVE  \E p \in DOMAIN log : log[p] = rows[a][i].event.key
  BY <1>10, TimelineIs
<1>11. ASSUME NEW a \in Agents, NEW i \in DOMAIN rows'[a], Mine(a, rows'[a][i].event.key)
       PROVE  \E p \in DOMAIN log' : log'[p] = rows'[a][i].event.key
  <2>1. CASE i \in DOMAIN rows[a] /\ rows'[a][i] = rows[a][i]
    BY <1>3, <1>10, <1>11, <2>1
  <2>2. CASE rows'[a][i].event.key = k /\ log' = Append(log, k)
    BY <1>14, <2>2
  <2> QED  BY <1>6, <1>11, <2>1, <2>2
<1>12. ASSUME NEW a \in Agents, NEW i \in DOMAIN rows'[a], NEW j \in DOMAIN rows'[a],
              NEW p \in DOMAIN log', NEW q \in DOMAIN log',
              Mine(a, rows'[a][i].event.key), Mine(a, rows'[a][j].event.key),
              log'[p] = rows'[a][i].event.key, log'[q] = rows'[a][j].event.key
       PROVE  i < j <=> p < q
  <2> DEFINE Old(x, y) == x \in DOMAIN rows[a] /\ rows'[a][x] = rows[a][x]
                          /\ y \in DOMAIN log /\ log'[y] = log[y]
             New(x, y) == x = Len(rows[a]) + 1 /\ y = Len(log) + 1
  <2>1. ASSUME NEW x \in DOMAIN rows'[a], NEW y \in DOMAIN log',
               Mine(a, rows'[a][x].event.key), log'[y] = rows'[a][x].event.key
        PROVE  Old(x, y) \/ New(x, y)
    <3>1. CASE x \in DOMAIN rows[a] /\ rows'[a][x] = rows[a][x]
      <4>1. PICK z \in DOMAIN log : log[z] = rows[a][x].event.key
        BY <1>10, <2>1, <3>1
      <4>2. y = z
        BY <1>3, <1>9, <2>1, <3>1, <4>1
      <4> QED  BY <1>3, <3>1, <4>1, <4>2
    <3>2. CASE x = Len(rows[a]) + 1 /\ rows'[a][x].event.key = k /\ log' = Append(log, k)
      <4>1. Len(log) + 1 \in DOMAIN log' /\ log'[Len(log) + 1] = k
        BY <1>14, <3>2
      <4> QED  BY <1>9, <2>1, <3>2, <4>1
    <3> QED  BY <1>6, <2>1, <3>1, <3>2
  <2>2. (Old(i, p) \/ New(i, p)) /\ (Old(j, q) \/ New(j, q))
    BY <1>12, <2>1
  <2>3. CASE Old(i, p) /\ Old(j, q)
    BY <1>12, <2>3, TimelineIs
  <2>4. CASE New(i, p) /\ New(j, q)
    <3>1. i = j /\ p = q /\ i \in Nat /\ p \in Nat
      BY <1>1, <2>4 DEF Sound, TypeOK
    <3> QED  BY <3>1
  <2>5. CASE Old(i, p) /\ New(j, q)
    <3>1. i < j /\ p < q
      BY <1>3, <1>7, <2>5
    <3> QED  BY <3>1
  <2>6. CASE New(i, p) /\ Old(j, q)
    <3>1. j < i /\ q < p /\ i \in Nat /\ j \in Nat /\ p \in Nat /\ q \in Nat
      BY <1>1, <1>3, <1>7, <2>6
    <3> QED  BY <3>1
  <2> QED  BY <2>2, <2>3, <2>4, <2>5, <2>6
<1>13. SameTimeline'
  BY <1>9, <1>11, <1>12, TimelineIsNext
<1> QED  BY <1>8, <1>13

(* What onInbound does with a message: it logs it and gives it to its       *)
(* agent, or finds it in both.                                              *)
LEMMA TimelineInbound ==
    ASSUME Sound, Sound', Grows, LogSound, SameTimeline,
           NEW e, Genuine(e)', OnInbound(e)
    PROVE  LogSound' /\ SameTimeline'
<1>1. e \in Events /\ e.key \in Key /\ e.chat \in Chats
  BY DEF Genuine, Events
<1>2. PICK n \in DOMAIN sent' :
         e.key = KeyOf(sent'[n]) /\ e.kind = sent'[n].kind /\ sent'[n].chat = e.chat
  <2>1. e.parts \in Seq(Numbers) /\ e.parts # <<>>
    BY DEF Genuine, Events
  <2>2. Len(e.parts) \in DOMAIN e.parts
    BY <2>1
  <2> QED  BY <2>2 DEF Genuine, Last
<1>3. \A m \in DOMAIN sent' : KeyOf(sent'[m]) = e.key => m = n
  BY <1>2, KeysNameNext
<1>4. Logs(e.key)
  <2>1. log' = log \/ (log' = Append(log, e.key) /\ ~Logged(e))
    BY DEF OnInbound, Mirror
  <2>2. ~Logged(e) => e.key \notin Range(log)
    BY DEF Logged, Range
  <2> QED  BY <1>2, <2>1, <2>2 DEF Logs
<1>5. Spread(e, members)
  BY <1>1, InboundSpreads DEF Sound
<1>6. CASE e.chat = Group
  <2>1. Fills(e.key)
    BY <1>5, <1>6 DEF Spread, Fills
  <2>2. Hears(e.key)
    BY <1>2, <1>3, <1>6 DEF Hears
  <2> QED  BY <1>1, <1>4, <2>1, <2>2, TimelineStep
<1>7. CASE e.chat # Group
  <2>1. PICK a \in Agents : Wired[e.chat] = <<a>>
    BY <1>1, <1>7, Wires
  <2>2. /\ \A b \in Agents \ {a} : rows'[b] = rows[b]
        /\ Outcome(a, e, members) \notin {"wake", "keep"} => rows'[a] = rows[a]
        /\ Outcome(a, e, members) \in {"wake", "keep"} =>
              \E t \in BOOLEAN : rows'[a] = Append(rows[a], [event |-> e, trigger |-> t])
    <3>1. PICK agents : agents = Wired[e.chat]
      OBVIOUS
    <3>2. Serve(e, agents, members, job)
      BY <3>1 DEF OnInbound, Route
    <3> QED  BY <2>1, <3>1, <3>2, OneAgent
  <2>3. Accepts(a, e.kind) /\ ~Written(a, e) <=> Outcome(a, e, members) \in {"wake", "keep"}
    BY <1>7, FoundersOutcome DEF Sound
  <2>4. log' = IF ~Logged(e) THEN Append(log, e.key) ELSE log
    BY <2>1 DEF OnInbound, Mirror
  <2>5. ASSUME Accepts(a, e.kind), Logged(e) PROVE Written(a, e)
    <3>1. PICK p \in DOMAIN log : log[p] = e.key
      BY <2>5 DEF Logged
    <3>2. PICK m \in DOMAIN sent : log[p] = KeyOf(sent[m])
      BY DEF LogSound
    <3>3. m \in DOMAIN sent' /\ sent'[m] = sent[m]
      BY DEF Sound, TypeOK, Grows
    <3>4. m = n
      BY <1>3, <3>1, <3>2, <3>3
    <3>5. KeyOf(sent[m]) \in Range(log)
      BY <3>2 DEF Range
    <3>6. \E i \in DOMAIN rows[a] : rows[a][i].event.key = KeyOf(sent[m])
      BY <1>2, <1>7, <2>1, <2>5, <3>3, <3>4, <3>5 DEF LogSound
    <3> QED  BY <3>1, <3>2, <3>6 DEF Written
  <2>6. Fills(e.key)
    <3> SUFFICES ASSUME NEW b \in Agents, rows'[b] # rows[b]
                 PROVE  Gets(b, e, members) /\ log' = Append(log, e.key)
      BY DEF Fills
    <3>1. b = a /\ Accepts(a, e.kind) /\ ~Written(a, e)
      BY <2>2, <2>3
    <3>2. ~Logged(e)
      BY <2>5, <3>1
    <3> QED  BY <1>5, <2>4, <3>2 DEF Spread
  <2>7. Hears(e.key)
    <3> SUFFICES ASSUME NEW b \in Agents, NEW m \in DOMAIN sent',
                        Wired[sent'[m].chat] = <<b>>, Accepts(b, sent'[m].kind),
                        KeyOf(sent'[m]) = e.key
                 PROVE  \E i \in DOMAIN rows'[b] : rows'[b][i].event.key = e.key
      BY DEF Hears
    <3>1. m = n /\ b = a
      BY <1>2, <1>3, <2>1
    <3>2. Accepts(a, e.kind)
      BY <1>2, <3>1
    <3>3. rows[a] \in Seq(Rows)
      BY DEF Sound, TypeOK, Rows
    <3>4. CASE Written(a, e)
      <4>1. rows'[a] = rows[a]
        BY <2>2, <2>3, <3>4
      <4> QED  BY <3>1, <3>4, <4>1 DEF Written
    <3>5. CASE ~Written(a, e)
      <4>1. PICK t \in BOOLEAN : rows'[a] = Append(rows[a], [event |-> e, trigger |-> t])
        BY <2>2, <2>3, <3>2, <3>5
      <4>2. PICK r : r = [event |-> e, trigger |-> t]
        OBVIOUS
      <4>3. r \in Rows /\ r.event = e
        BY <1>1, <4>2 DEF Rows
      <4>4. Len(rows[a]) + 1 \in DOMAIN rows'[a] /\ rows'[a][Len(rows[a]) + 1] = r
        BY <3>3, <4>1, <4>2, <4>3, OneMore
      <4> QED  BY <3>1, <4>3, <4>4
    <3> QED  BY <3>4, <3>5
  <2> QED  BY <1>1, <1>4, <2>6, <2>7, TimelineStep
<1> QED  BY <1>6, <1>7

(* Every step is a message at onInbound, or a matter of the group.          *)
LEMMA ComesIn ==
    ASSUME Sound, [Next]_vars
    PROVE  /\ Grows
           /\ \/ \E e : Genuine(e)' /\ OnInbound(e)
              \/ /\ log' = log
                 /\ \A a \in Agents : rows'[a] = rows[a] \/ \E e, known :
                       Genuine(e)' /\ e.chat = Group /\ Gets(a, e, known)
<1>1. CASE ChatInbound
  BY <1>1 DEF ChatInbound
<1>2. CASE GroupOnly
  BY <1>2, NothingSent DEF GroupOnly
<1>3. CASE Updated
  <2>1. PICK n \in DOMAIN sent' : Process(sent'[n], n)
    BY <1>3 DEF Updated
  <2>2. PICK e : e = Event(sent'[n], <<n>>)
    OBVIOUS
  <2>3. Sound' /\ Grows
    BY <1>3, SoundNext DEF Updated
  <2>4. Genuine(e)'
    BY <2>2, <2>3, AloneIsGenuine DEF Sound, TypeOK, MessagesSound
  <2>5. OnInbound(e) \/ UNCHANGED <<log, rows>>
    BY <2>1, <2>2 DEF Process, Dispatch
  <2> QED  BY <2>3, <2>4, <2>5
<1>4. ASSUME NEW b \in Bots, Flush(b)
      PROVE  Grows /\ \E e : Genuine(e)' /\ OnInbound(e)
  <2>1. PICK e : e = Event(sent[Last(buffer[b])], buffer[b])
    OBVIOUS
  <2>2. Grows /\ Genuine(e)
    BY <1>4, <2>1, BufferIsGenuine, NothingSent DEF Flush
  <2>3. Genuine(e)'
    BY <2>2, GenuineStays DEF Sound
  <2> QED  BY <1>4, <2>1, <2>2, <2>3 DEF Flush
<1>5. ASSUME NEW n \in Numbers, Fetched(n)
      PROVE  Grows /\ (UNCHANGED <<log, rows>> \/ \E e : Genuine(e)' /\ OnInbound(e))
  <2>1. PICK e : e = Event(sent[n], <<n>>)
    OBVIOUS
  <2>2. Grows /\ n \in DOMAIN sent
    BY <1>5, NothingSent DEF Fetched, Sound, WaitingSound
  <2>3. Genuine(e)
    BY <2>1, <2>2, AloneIsGenuine DEF Sound, TypeOK, MessagesSound
  <2>4. Genuine(e)'
    BY <2>2, <2>3, GenuineStays DEF Sound
  <2> QED  BY <1>5, <2>1, <2>2, <2>4 DEF Fetched
<1>6. CASE Restart
  BY <1>6, NothingSent DEF Restart
<1> QED  BY <1>1, <1>2, <1>3, <1>4, <1>5, <1>6, Shapes

(* The dashboard's log has what the agent of a founder's chat read there,   *)
(* in the same order and once (mirrorInbound, findMessageBySource,          *)
(* insertMessage): what is logged was given to the agent in the same step.  *)
THEOREM LogMatchesRows == Spec => []SameTimeline
<1>1. Init => LogSound /\ SameTimeline
  <2> SUFFICES ASSUME Init PROVE LogSound /\ SameTimeline
    OBVIOUS
  <2>1. PICK s : s = <<>>
    OBVIOUS
  <2>2. DOMAIN s = {} /\ Range(s) = {}
    BY <2>1 DEF Range
  <2>3. log = s /\ sent = s /\ rows = [a \in Agents |-> s]
    BY <2>1 DEF Init
  <2>4. LogSound
    BY <2>2, <2>3 DEF LogSound
  <2>5. SameTimeline
    BY <2>2, <2>3, TimelineIs
  <2> QED  BY <2>4, <2>5
<1>2. Sound /\ Sound' /\ LogSound /\ SameTimeline /\ [Next]_vars => LogSound' /\ SameTimeline'
  <2> SUFFICES ASSUME Sound, Sound', LogSound, SameTimeline, [Next]_vars
               PROVE  LogSound' /\ SameTimeline'
    OBVIOUS
  <2>1. Grows
    BY ComesIn
  <2>2. CASE \E e : Genuine(e)' /\ OnInbound(e)
    BY <2>1, <2>2, TimelineInbound
  <2>3. CASE /\ log' = log
             /\ \A a \in Agents : rows'[a] = rows[a] \/ \E e, known :
                   Genuine(e)' /\ e.chat = Group /\ Gets(a, e, known)
    <3>1. ASSUME NEW k \in Key PROVE LogSound' /\ SameTimeline'
      <4>1. Logs(k) /\ Fills(k) /\ Hears(k)
        BY <2>3 DEF Logs, Fills, Hears
      <4> QED  BY <2>1, <4>1, TimelineStep
    <3>2. CASE Key = {}
      <4>1. \A e : ~ Genuine(e)'
        BY <3>2 DEF Genuine, Events
      <4>2. \A a \in Agents : rows'[a] = rows[a]
        BY <2>3, <4>1
      <4>3. DOMAIN sent' = {}
        <5>1. ASSUME NEW n \in DOMAIN sent' PROVE FALSE
          <6>1. sent'[n] \in Messages
            BY <2>1 DEF Grows
          <6>2. [chat |-> sent'[n].chat, id |-> sent'[n].id, tap |-> TRUE] \in Key
            BY <6>1 DEF Messages, Key
          <6> QED  BY <3>2, <6>2
        <5> QED  BY <5>1
      <4>4. DOMAIN log = {}
        <5>1. log \in Seq(Key)
          BY DEF Sound, TypeOK
        <5> QED  BY <3>2, <5>1
      <4>5. LogSound'
        BY <2>3, <4>3, <4>4 DEF LogSound
      <4>6. SameTimeline'
        <5>1. \A a \in Agents : \A i \in DOMAIN rows'[a] : FALSE
          BY <3>2, <4>2 DEF Sound, TypeOK, Events
        <5> QED  BY <2>3, <4>4, <5>1, TimelineIsNext
      <4> QED  BY <4>5, <4>6
    <3> QED  BY <3>1, <3>2
  <2> QED  BY <2>2, <2>3, ComesIn
<1> QED  BY <1>1, <1>2, EventsAreGenuine, PTL DEF Spec

-----------------------------------------------------------------------------
(* What the agents read of the Telegram chats *)

(* A message waits in a buffer, or for its file or its tap.                 *)
Waits(n) == n \in awaited \/ \E b \in Bots : n \in Range(buffer[b])
Known(n) == sent[n].id \in recent \cup seen
Of(b, n) == sent[n].chat = b /\ sent[n].kind = "text"

(* The numbers that are remembered are of updates; what waits has its       *)
(* number there, and as long as all could be stored, every update has.      *)
UpdatesRemembered ==
    /\ \A u \in recent \cup seen : \E n \in DOMAIN sent : sent[n].chat \in Bots /\ sent[n].id = u
    /\ \A n \in DOMAIN sent : Waits(n) => Known(n)
    /\ faults = 0 => /\ recent = {}
                     /\ \A n \in DOMAIN sent : sent[n].chat \in Bots => sent[n].id \in seen

RowsWith(a, n) == {i \in DOMAIN rows[a] : n \in Range(rows[a][i].event.parts)}
Paid(n) == faults + (IF sent[n].id \in seen THEN 1 ELSE 0)
Reads(a, n) == Cardinality(RowsWith(a, n)) + (IF Waits(n) THEN 1 ELSE 0)

(* Each time an update is let through, its number is stored, or that fails: *)
(* what an agent has read of it, and may still read, is paid for.           *)
ReadsArePaid ==
    \A a \in Agents, n \in DOMAIN sent : sent[n].chat \in Bots => Reads(a, n) <= Paid(n)

(* While the host runs, an update that was read is known and waits no more. *)
OnceInALife ==
    crashes = 0 => \A a \in Agents : \A n \in ReadBy(a) :
        sent[n].chat \in Bots => Known(n) /\ ~Waits(n)

(* A buffer has its texts in order, after those that were read.             *)
BuffersInOrder ==
    faults = 0 => \A b \in Bots :
        /\ \A i, k \in DOMAIN buffer[b] : i < k => buffer[b][i] < buffer[b][k]
        /\ \A n \in ReadBy(Wired[b][1]), m \in Range(buffer[b]) : Of(b, n) => n < m

Reading ==
    /\ UpdatesRemembered /\ ReadsArePaid /\ OnceInALife
    /\ BuffersInOrder /\ TextsInOrder /\ TextIsNotLost

(* What was read was sent.                                                  *)
LEMMA ReadWasSent ==
    Sound => \A a \in Agents : \A i \in DOMAIN rows[a] :
                \A n \in Range(rows[a][i].event.parts) :
                   n \in DOMAIN sent /\ n \in ReadBy(a)
                   /\ sent[n].chat = rows[a][i].event.chat
<1> SUFFICES ASSUME Sound, NEW a \in Agents, NEW i \in DOMAIN rows[a],
                    NEW n \in Range(rows[a][i].event.parts)
             PROVE  n \in DOMAIN sent /\ n \in ReadBy(a)
                    /\ sent[n].chat = rows[a][i].event.chat
  OBVIOUS
<1>1. Genuine(rows[a][i].event)
  BY DEF Sound, EventsGenuine
<1>2. PICK p \in DOMAIN rows[a][i].event.parts : rows[a][i].event.parts[p] = n
  BY DEF Range
<1>3. n \in DOMAIN sent /\ sent[n].chat = rows[a][i].event.chat
  BY <1>1, <1>2 DEF Genuine
<1>4. n \in ReadBy(a)
  BY DEF ReadBy
<1> QED  BY <1>3, <1>4

LEMMA ReadIsSent ==
    Sound => \A a \in Agents : \A n \in ReadBy(a) : n \in DOMAIN sent
<1> SUFFICES ASSUME Sound, NEW a \in Agents, NEW n \in ReadBy(a) PROVE n \in DOMAIN sent
  OBVIOUS
<1>1. PICK i \in DOMAIN rows[a] : n \in Range(rows[a][i].event.parts)
  BY DEF ReadBy
<1> QED  BY <1>1, ReadWasSent

(* The rows that have a message are finitely many.                          *)
LEMMA RowsFinite ==
    ASSUME TypeOK, NEW a \in Agents, NEW n
    PROVE  /\ IsFiniteSet(RowsWith(a, n)) /\ Cardinality(RowsWith(a, n)) \in Nat
           /\ Reads(a, n) \in Nat
<1>1. DOMAIN rows[a] = 1..Len(rows[a]) /\ Len(rows[a]) \in Nat
  BY DEF TypeOK
<1>2. IsFiniteSet(1..Len(rows[a]))
  BY <1>1, FS_Interval
<1>3. RowsWith(a, n) \subseteq 1..Len(rows[a])
  BY <1>1 DEF RowsWith
<1>4. IsFiniteSet(RowsWith(a, n))
  BY <1>2, <1>3, FS_Subset
<1>5. Cardinality(RowsWith(a, n)) \in Nat
  BY <1>4, FS_CardinalityType
<1> QED  BY <1>4, <1>5 DEF Reads

(* An agent's reading grows by the parts of a row at most.                  *)
LEMMA ReadsGrow ==
    ASSUME TypeOK, NEW a \in Agents, NEW ns,
           rows'[a] = rows[a] \/ \E e, known : Gets(a, e, known) /\ Range(e.parts) = ns
    PROVE  /\ ReadBy(a) \subseteq ReadBy(a)' /\ ReadBy(a)' \subseteq ReadBy(a) \cup ns
           /\ \A n : n \notin ns => RowsWith(a, n)' = RowsWith(a, n)
           /\ \A n : /\ Cardinality(RowsWith(a, n)') \in Nat
                     /\ Cardinality(RowsWith(a, n)') <= Cardinality(RowsWith(a, n)) + 1
<1>1. CASE rows'[a] = rows[a]
  <2>1. ReadBy(a)' = ReadBy(a) /\ \A n : RowsWith(a, n)' = RowsWith(a, n)
    BY <1>1 DEF ReadBy, RowsWith
  <2>2. \A n : Cardinality(RowsWith(a, n)) \in Nat
    BY RowsFinite
  <2>3. \A n : Cardinality(RowsWith(a, n)') = Cardinality(RowsWith(a, n))
    BY <2>1
  <2> QED  BY <2>1, <2>2, <2>3
<1>2. ASSUME NEW e, NEW known, Gets(a, e, known), Range(e.parts) = ns
      PROVE  /\ ReadBy(a) \subseteq ReadBy(a)' /\ ReadBy(a)' \subseteq ReadBy(a) \cup ns
             /\ \A n : n \notin ns => RowsWith(a, n)' = RowsWith(a, n)
             /\ \A n : /\ Cardinality(RowsWith(a, n)') \in Nat
                       /\ Cardinality(RowsWith(a, n)') <= Cardinality(RowsWith(a, n)) + 1
  <2>1. /\ DOMAIN rows'[a] = DOMAIN rows[a] \cup {Len(rows[a]) + 1}
        /\ Len(rows[a]) + 1 \notin DOMAIN rows[a]
        /\ \A i \in DOMAIN rows[a] : rows'[a][i] = rows[a][i]
        /\ rows'[a][Len(rows[a]) + 1].event = e
    BY <1>2, RowByRow
  <2>2. PICK l : l = Len(rows[a]) + 1
    OBVIOUS
  <2>3. ReadBy(a) \subseteq ReadBy(a)' /\ ReadBy(a)' \subseteq ReadBy(a) \cup ns
    BY <1>2, <2>1 DEF ReadBy
  <2>4. ASSUME NEW n
        PROVE  /\ n \notin ns => RowsWith(a, n)' = RowsWith(a, n)
               /\ RowsWith(a, n)' = RowsWith(a, n) \/ RowsWith(a, n)' = RowsWith(a, n) \cup {l}
               /\ l \notin RowsWith(a, n)
    BY <1>2, <2>1, <2>2 DEF RowsWith
  <2>5. ASSUME NEW n
        PROVE  /\ Cardinality(RowsWith(a, n)') \in Nat
               /\ Cardinality(RowsWith(a, n)') <= Cardinality(RowsWith(a, n)) + 1
    <3>1. PICK S : S = RowsWith(a, n)
      OBVIOUS
    <3>2. PICK T : T = RowsWith(a, n)'
      OBVIOUS
    <3>3. IsFiniteSet(S) /\ Cardinality(S) \in Nat
      BY <3>1, RowsFinite
    <3>4. Cardinality(S \cup {l}) = Cardinality(S) + 1
      BY <2>4, <3>1, <3>3, FS_AddElement
    <3>5. T = S \/ T = S \cup {l}
      BY <2>4, <3>1, <3>2
    <3>6. Cardinality(T) = Cardinality(S) \/ Cardinality(T) = Cardinality(S) + 1
      BY <3>4, <3>5
    <3>7. Cardinality(T) \in Nat /\ Cardinality(T) <= Cardinality(S) + 1
      BY <3>3, <3>6
    <3> QED  BY <3>1, <3>2, <3>7
  <2> QED  BY <2>3, <2>4, <2>5
<1> QED  BY <1>1, <1>2

(* The order of the texts, spelled out.                                     *)
LEMMA OrderIs ==
    TextsInOrder <=>
      (\A b \in Bots : faults = 0 => \A i, k \in DOMAIN rows[Wired[b][1]] :
         \A p \in DOMAIN rows[Wired[b][1]][i].event.parts,
            q \in DOMAIN rows[Wired[b][1]][k].event.parts :
            /\ i < k \/ (i = k /\ p < q)
            /\ Of(b, rows[Wired[b][1]][i].event.parts[p])
            /\ Of(b, rows[Wired[b][1]][k].event.parts[q])
            => rows[Wired[b][1]][i].event.parts[p] < rows[Wired[b][1]][k].event.parts[q])
<1> DEFINE Row(b, i) == rows[Wired[b][1]][i].event.parts
<1>1. TextsInOrder <=>
      (\A b \in Bots : faults = 0 => \A i, k \in DOMAIN rows[Wired[b][1]] :
         \A p \in DOMAIN Row(b, i), q \in DOMAIN Row(b, k) :
            (i < k \/ (i = k /\ p < q)) /\ Of(b, Row(b, i)[p]) /\ Of(b, Row(b, k)[q])
            => Row(b, i)[p] < Row(b, k)[q])
  BY DEF TextsInOrder, Of
<1> QED  BY <1>1

LEMMA OrderIsNext ==
    (TextsInOrder <=>
      (\A b \in Bots : faults = 0 => \A i, k \in DOMAIN rows[Wired[b][1]] :
         \A p \in DOMAIN rows[Wired[b][1]][i].event.parts,
            q \in DOMAIN rows[Wired[b][1]][k].event.parts :
            /\ i < k \/ (i = k /\ p < q)
            /\ Of(b, rows[Wired[b][1]][i].event.parts[p])
            /\ Of(b, rows[Wired[b][1]][k].event.parts[q])
            => rows[Wired[b][1]][i].event.parts[p] < rows[Wired[b][1]][k].event.parts[q]))'
BY OrderIs, PTL

(* The texts of a bot in a row are in order, and after what was read.       *)
InTurn(a, b, e) ==
    /\ \A p, q \in DOMAIN e.parts :
          p < q /\ Of(b, e.parts[p])' /\ Of(b, e.parts[q])' => e.parts[p] < e.parts[q]
    /\ \A n \in ReadBy(a), m \in Range(e.parts) : Of(b, n)' /\ Of(b, m)' => n < m

AllInTurn ==
    \A b \in Bots : \/ rows'[Wired[b][1]] = rows[Wired[b][1]]
                    \/ \E e, known : /\ Gets(Wired[b][1], e, known)
                                     /\ faults' = 0 => InTurn(Wired[b][1], b, e)

LEMMA Apart ==
    ASSUME NEW i \in Nat, NEW k \in Nat
    PROVE  /\ i = k => ~(i < k)
           /\ k < i => ~(i < k) /\ i # k
OBVIOUS

LEMMA RowNumbers ==
    ASSUME TypeOK, NEW a \in Agents
    PROVE  /\ \A j \in DOMAIN rows[a] : j \in Nat /\ j < Len(rows[a]) + 1
           /\ Len(rows[a]) + 1 \in Nat
BY DEF TypeOK

LEMMA OrderStep ==
    ASSUME Sound, Grows, TextsInOrder, faults' = 0 => faults = 0, AllInTurn
    PROVE  TextsInOrder'
<1> SUFFICES ASSUME faults' = 0, NEW b \in Bots, NEW a, a = Wired[b][1],
                    NEW i \in DOMAIN rows'[a], NEW k \in DOMAIN rows'[a],
                    NEW p \in DOMAIN rows'[a][i].event.parts,
                    NEW q \in DOMAIN rows'[a][k].event.parts,
                    i < k \/ (i = k /\ p < q),
                    NEW n, n = rows'[a][i].event.parts[p],
                    NEW m, m = rows'[a][k].event.parts[q],
                    Of(b, n)', Of(b, m)'
             PROVE  n < m
  BY OrderIsNext
<1>1. a \in Agents /\ faults = 0
  BY Wires, ConstantsTyped DEF Chats
<1>2. \A j \in DOMAIN rows[a] : \A x \in DOMAIN rows[a][j].event.parts :
         \A w : w = rows[a][j].event.parts[x] => w \in ReadBy(a) /\ (Of(b, w)' => Of(b, w))
  <2> SUFFICES ASSUME NEW j \in DOMAIN rows[a], NEW x \in DOMAIN rows[a][j].event.parts,
                      NEW w, w = rows[a][j].event.parts[x]
               PROVE  w \in ReadBy(a) /\ (Of(b, w)' => Of(b, w))
    OBVIOUS
  <2>1. w \in Range(rows[a][j].event.parts)
    BY DEF Range
  <2>2. w \in DOMAIN sent /\ w \in ReadBy(a)
    BY <1>1, <2>1, ReadWasSent
  <2> QED  BY <2>2 DEF Of, Grows
<1>3. ASSUME i \in DOMAIN rows[a], k \in DOMAIN rows[a], rows'[a][i] = rows[a][i],
             rows'[a][k] = rows[a][k]
      PROVE  n < m
  BY <1>1, <1>2, <1>3, OrderIs
<1>4. CASE rows'[a] = rows[a]
  BY <1>3, <1>4
<1>5. ASSUME NEW e, NEW known, Gets(a, e, known), InTurn(a, b, e)
      PROVE  n < m
  <2>1. /\ DOMAIN rows'[a] = DOMAIN rows[a] \cup {Len(rows[a]) + 1}
        /\ Len(rows[a]) + 1 \notin DOMAIN rows[a]
        /\ \A j \in DOMAIN rows[a] : rows'[a][j] = rows[a][j]
        /\ rows'[a][Len(rows[a]) + 1].event = e
    BY <1>1, <1>5, RowByRow DEF Sound
  <2>6. \A j \in DOMAIN rows[a] : j \in Nat /\ j < Len(rows[a]) + 1
    BY <1>1, RowNumbers DEF Sound
  <2>7. Len(rows[a]) + 1 \in Nat
    BY <1>1, RowNumbers DEF Sound
  <2>2. CASE i \in DOMAIN rows[a] /\ k \in DOMAIN rows[a]
    BY <1>3, <2>1, <2>2
  <2>3. CASE i \in DOMAIN rows[a] /\ k = Len(rows[a]) + 1
    <3>1. n \in ReadBy(a)
      BY <1>2, <2>1, <2>3
    <3>2. m \in Range(e.parts)
      BY <2>1, <2>3 DEF Range
    <3> QED  BY <1>5, <3>1, <3>2 DEF InTurn
  <2>4. CASE i = Len(rows[a]) + 1 /\ k = Len(rows[a]) + 1
    <3>1. i = k /\ i \in Nat
      BY <2>4, <2>7
    <3>2. ~(i < k)
      BY <3>1, Apart
    <3>3. p < q
      BY <3>2
    <3>4. p \in DOMAIN e.parts /\ q \in DOMAIN e.parts /\ n = e.parts[p] /\ m = e.parts[q]
      BY <2>1, <2>4
    <3> QED  BY <1>5, <3>3, <3>4 DEF InTurn
  <2>5. CASE i = Len(rows[a]) + 1 /\ k \in DOMAIN rows[a]
    <3>1. k < i /\ k \in Nat /\ i \in Nat
      BY <2>5, <2>6, <2>7
    <3>2. ~(i < k) /\ i # k
      BY <3>1, Apart
    <3> QED  BY <3>2
  <2> QED  BY <2>1, <2>2, <2>3, <2>4, <2>5
<1> QED  BY <1>4, <1>5 DEF AllInTurn

(* A text that must not be lost.                                            *)
Due(n) ==
    /\ sent[n].chat \in Bots /\ sent[n].kind = "text"
    /\ <<Wired[sent[n].chat][1], "text">> \in Engages
    /\ crashes = 0
    /\ \A m \in 1..(n - 1) : sent[m].chat \in Bots \ {sent[n].chat} => sent[m].id # sent[n].id
Arrived(n) == n \in Range(buffer[sent[n].chat]) \cup ReadBy(Wired[sent[n].chat][1])

LEMMA NotLostIs == TextIsNotLost <=> \A n \in DOMAIN sent : Due(n) => Arrived(n)
BY DEF TextIsNotLost, Due, Arrived

LEMMA NotLostIsNext == (TextIsNotLost <=> \A n \in DOMAIN sent : Due(n) => Arrived(n))'
BY NotLostIs, PTL

LEMMA DueBefore ==
    ASSUME Sound, Grows, NEW n \in DOMAIN sent, Due(n)', crashes' = 0 => crashes = 0
    PROVE  Due(n)
<1>1. DOMAIN sent = 1..Len(sent) /\ Len(sent) \in Nat
  BY DEF Sound, TypeOK
<1>2. \A m \in 1..(n - 1) : m \in DOMAIN sent /\ sent'[m] = sent[m]
  BY <1>1 DEF Grows
<1>3. sent'[n] = sent[n]
  BY DEF Grows
<1> QED  BY <1>2, <1>3 DEF Due

LEMMA BotsAgent ==
    ASSUME NEW b \in Bots
    PROVE  /\ Wired[b][1] \in Agents /\ Wired[b] = <<Wired[b][1]>>
           /\ Range(Wired[b]) = {Wired[b][1]} /\ b \in Chats /\ b # Group
BY Wires, ConstantsTyped DEF Chats

(* Messages of the group and the dashboard, fan-outs and requests.          *)
Elsewhere ==
    /\ Grows /\ \A n \in DOMAIN sent' \ DOMAIN sent : sent'[n].chat \notin Bots
    /\ UNCHANGED <<adapter, faults, crashes>>
    /\ \A a \in Agents : rows'[a] = rows[a] \/ \E e, known :
          Gets(a, e, known) /\ Genuine(e)' /\ e.chat \notin Bots

LEMMA ElsewhereReads ==
    ASSUME Sound, Reading, Elsewhere
    PROVE  Reading'
<1>1. /\ DOMAIN sent \subseteq DOMAIN sent' /\ \A n \in DOMAIN sent : sent'[n] = sent[n]
      /\ faults' = faults /\ crashes' = crashes /\ recent' = recent /\ seen' = seen
      /\ buffer' = buffer /\ awaited' = awaited
      /\ Grows
  BY DEF Elsewhere, Grows, adapter, Sound, TypeOK
<1>2. \A n : Waits(n)' <=> Waits(n)
  BY <1>1 DEF Waits
<1>3. ASSUME NEW a \in Agents
      PROVE  \E ns : /\ rows'[a] = rows[a] \/ \E e, known : Gets(a, e, known) /\ Range(e.parts) = ns
                     /\ \A n \in ns : n \in DOMAIN sent' /\ sent'[n].chat \notin Bots
  <2>1. CASE rows'[a] = rows[a]
    <3>1. PICK ns : ns = {}
      OBVIOUS
    <3> QED  BY <2>1, <3>1
  <2>2. ASSUME NEW e, NEW known, Gets(a, e, known), Genuine(e)', e.chat \notin Bots
        PROVE  \E ns : /\ Gets(a, e, known) /\ Range(e.parts) = ns
                       /\ \A n \in ns : n \in DOMAIN sent' /\ sent'[n].chat \notin Bots
    <3>1. \A p \in DOMAIN e.parts :
             e.parts[p] \in DOMAIN sent' /\ sent'[e.parts[p]].chat \notin Bots
      BY <2>2 DEF Genuine
    <3>2. \A n \in Range(e.parts) : n \in DOMAIN sent' /\ sent'[n].chat \notin Bots
      BY <3>1 DEF Range
    <3> QED  BY <2>2, <3>2
  <2> QED  BY <2>1, <2>2 DEF Elsewhere
<1>4. ASSUME NEW a \in Agents
      PROVE  /\ ReadBy(a) \subseteq ReadBy(a)'
             /\ \A n \in ReadBy(a)' :
                   sent'[n].chat \in Bots => n \in ReadBy(a) /\ n \in DOMAIN sent
             /\ \A n \in DOMAIN sent' : sent'[n].chat \in Bots =>
                   n \in DOMAIN sent /\ RowsWith(a, n)' = RowsWith(a, n)
  <2>1. PICK ns : /\ rows'[a] = rows[a] \/ \E e, known : Gets(a, e, known) /\ Range(e.parts) = ns
                  /\ \A n \in ns : n \in DOMAIN sent' /\ sent'[n].chat \notin Bots
    BY <1>3
  <2>2. /\ ReadBy(a) \subseteq ReadBy(a)' /\ ReadBy(a)' \subseteq ReadBy(a) \cup ns
        /\ \A n : n \notin ns => RowsWith(a, n)' = RowsWith(a, n)
    BY <2>1, ReadsGrow DEF Sound
  <2> QED  BY <2>1, <2>2, ReadIsSent DEF Elsewhere
<1>5. UpdatesRemembered'
  <2>1. \A n \in DOMAIN sent' : Waits(n)' => n \in DOMAIN sent
    BY <1>1 DEF Waits, Sound, WaitingSound
  <2> QED  BY <1>1, <1>2, <2>1 DEF UpdatesRemembered, Known, Reading, Elsewhere
<1>6. ReadsArePaid'
  <2> SUFFICES ASSUME NEW a \in Agents, NEW n \in DOMAIN sent', sent'[n].chat \in Bots
               PROVE  Reads(a, n)' <= Paid(n)'
    BY DEF ReadsArePaid
  <2>1. n \in DOMAIN sent /\ RowsWith(a, n)' = RowsWith(a, n)
    BY <1>4
  <2>2. Reads(a, n)' = Reads(a, n) /\ Paid(n)' = Paid(n)
    BY <1>1, <1>2, <2>1 DEF Reads, Paid
  <2> QED  BY <1>1, <2>1, <2>2 DEF Reading, ReadsArePaid
<1>7. OnceInALife'
  BY <1>1, <1>2, <1>4 DEF OnceInALife, Known, Reading
<1>8. BuffersInOrder'
  BY <1>1, <1>4, BotsAgent DEF BuffersInOrder, Of, Reading
<1>9. TextsInOrder'
  <2>1. ASSUME NEW b \in Bots, NEW e, NEW known, Gets(Wired[b][1], e, known),
               Genuine(e)', e.chat \notin Bots
        PROVE  InTurn(Wired[b][1], b, e)
    <3>1. \A q \in DOMAIN e.parts : sent'[e.parts[q]].chat # b
      BY <2>1 DEF Genuine
    <3>2. \A m \in Range(e.parts) : sent'[m].chat # b
      BY <3>1 DEF Range
    <3> QED  BY <3>1, <3>2 DEF InTurn, Of
  <2>2. AllInTurn
    BY <2>1, BotsAgent DEF AllInTurn, Elsewhere
  <2> QED  BY <1>1, <2>2, OrderStep DEF Reading
<1>10. TextIsNotLost'
  <2> SUFFICES ASSUME NEW n \in DOMAIN sent', Due(n)' PROVE Arrived(n)'
    BY NotLostIsNext
  <2>1. n \in DOMAIN sent /\ sent'[n] = sent[n] /\ sent[n].chat \in Bots
    BY <1>1 DEF Due, Elsewhere
  <2>2. Arrived(n)
    BY <1>1, <2>1, DueBefore, NotLostIs DEF Reading
  <2>3. Wired[sent[n].chat][1] \in Agents
    BY <2>1, BotsAgent
  <2> QED  BY <1>1, <1>4, <2>1, <2>2, <2>3 DEF Arrived
<1> QED  BY <1>5, <1>6, <1>7, <1>8, <1>9, <1>10 DEF Reading

(* An update whose number is known.                                         *)
LEMMA AgainReads ==
    ASSUME Sound, MessagesSound', Reading, Grows, NEW x \in DOMAIN sent',
           DOMAIN sent' \ DOMAIN sent \subseteq {x},
           sent'[x].chat \in Bots, sent'[x].id \in recent \cup seen,
           UNCHANGED <<recent, seen, buffer, awaited, rows, faults, crashes>>
    PROVE  Reading'
<1>1. /\ DOMAIN sent \subseteq DOMAIN sent' /\ \A n \in DOMAIN sent : sent'[n] = sent[n]
      /\ \A n \in DOMAIN sent' : n \in DOMAIN sent \/ n = x
  BY DEF Grows, Sound, TypeOK
<1>2. /\ \A n : Waits(n)' <=> Waits(n)
      /\ \A a : ReadBy(a)' = ReadBy(a)
      /\ \A a, n : RowsWith(a, n)' = RowsWith(a, n)
  BY DEF Waits, ReadBy, RowsWith
<1>3. \A n : Waits(n) => n \in DOMAIN sent
  BY DEF Waits, Sound, WaitingSound
<1>4. UpdatesRemembered'
  BY <1>1, <1>2, <1>3 DEF UpdatesRemembered, Known, Reading
<1>5. ReadsArePaid'
  <2> SUFFICES ASSUME NEW a \in Agents, NEW n \in DOMAIN sent', sent'[n].chat \in Bots
               PROVE  Reads(a, n)' <= Paid(n)'
    BY DEF ReadsArePaid
  <2>1. Reads(a, n)' = Reads(a, n)
    BY <1>2 DEF Reads
  <2>2. CASE n \in DOMAIN sent
    <3>1. Paid(n)' = Paid(n) /\ Reads(a, n) <= Paid(n)
      BY <1>1, <2>2 DEF Paid, Reading, ReadsArePaid
    <3> QED  BY <2>1, <3>1
  <2>3. CASE n \notin DOMAIN sent
    <3>1. RowsWith(a, n) = {}
      BY <2>3, ReadWasSent DEF RowsWith
    <3>2. Reads(a, n) = 0
      BY <1>3, <2>3, <3>1, FS_EmptySet DEF Reads
    <3>3. faults' \in Nat
      BY ConstantsTyped DEF Sound, TypeOK
    <3>4. Paid(n)' \in Nat
      BY <3>3 DEF Paid
    <3> QED  BY <2>1, <3>2, <3>4
  <2> QED  BY <2>2, <2>3
<1>6. OnceInALife'
  BY <1>1, <1>2, ReadIsSent DEF OnceInALife, Known, Reading
<1>7. BuffersInOrder'
  BY <1>1, <1>2, ReadIsSent, BotsAgent DEF BuffersInOrder, Of, Reading
<1>8. TextsInOrder'
  <2>1. AllInTurn
    BY DEF AllInTurn
  <2> QED  BY <2>1, OrderStep DEF Reading
<1>9. TextIsNotLost'
  <2> SUFFICES ASSUME NEW n \in DOMAIN sent', Due(n)' PROVE Arrived(n)'
    BY NotLostIsNext
  <2>1. CASE n \in DOMAIN sent
    <3>1. Arrived(n)
      BY <2>1, DueBefore, NotLostIs DEF Reading
    <3> QED  BY <1>1, <1>2, <2>1, <3>1 DEF Arrived
  <2>2. CASE n \notin DOMAIN sent
    <3>1. n = x
      BY <1>1, <2>2
    <3>2. PICK m \in DOMAIN sent : sent[m].chat \in Bots /\ sent[m].id = sent'[n].id
      BY <3>1 DEF Reading, UpdatesRemembered
    <3>3. DOMAIN sent = 1..Len(sent) /\ Len(sent) \in Nat /\ DOMAIN sent' = 1..Len(sent')
      BY DEF Sound, TypeOK, Grows
    <3>4. m \in 1..(n - 1) /\ m < n
      BY <2>2, <3>2, <3>3
    <3>5. sent'[m].chat = sent'[n].chat
      BY <1>1, <3>2, <3>4 DEF Due
    <3>6. sent'[m].id < sent'[n].id
      BY <1>1, <3>1, <3>4, <3>5 DEF MessagesSound
    <3>7. sent'[n].id \in Nat
      BY <3>1, ConstantsTyped DEF MessagesSound
    <3> QED  BY <1>1, <3>2, <3>6, <3>7
  <2> QED  BY <2>1, <2>2
<1> QED  BY <1>4, <1>5, <1>6, <1>7, <1>8, <1>9 DEF Reading

(* An update that is let through: a text waits in the buffer, a command     *)
(* goes to the router, a file or a tap is awaited.                          *)
Fresh(x) ==
    /\ x \in DOMAIN sent' /\ DOMAIN sent' \ DOMAIN sent \subseteq {x}
    /\ sent'[x].chat \in Bots /\ sent'[x].id \notin recent \cup seen
    /\ \/ seen' = seen \cup {sent'[x].id} /\ recent' = recent /\ faults' = faults
       \/ seen' = seen /\ recent' = recent \cup {sent'[x].id} /\ faults' = faults + 1
    /\ crashes' = crashes

\* What becomes of it.
Dispatched(x) ==
    \/ /\ sent'[x].kind = "text" /\ awaited' = awaited
       /\ buffer' = [buffer EXCEPT ![sent'[x].chat] = Append(buffer[sent'[x].chat], x)]
       /\ \A a \in Agents : rows'[a] = rows[a]
    \/ /\ sent'[x].kind # "text" /\ awaited' = awaited /\ buffer' = buffer
       /\ \A a \in Agents : rows'[a] = rows[a] \/ \E e, known :
             Gets(a, e, known) /\ Range(e.parts) = {x} /\ e.parts = <<x>>
    \/ /\ sent'[x].kind # "text" /\ awaited' = awaited \cup {x} /\ buffer' = buffer
       /\ \A a \in Agents : rows'[a] = rows[a]

(* It neither waited before nor, in this life of the host, was read.        *)
LEMMA FreshIsNew ==
    ASSUME Sound, Reading, Grows, NEW x, Fresh(x)
    PROVE  /\ ~Waits(x)
           /\ crashes = 0 => \A a \in Agents : x \notin ReadBy(a)
           /\ faults' = 0 => /\ faults = 0 /\ x \notin DOMAIN sent
                             /\ \A n \in DOMAIN sent : n < x
<1>1. x \in DOMAIN sent => ~Known(x) /\ sent'[x] = sent[x]
  BY DEF Fresh, Grows, Known
<1>2. ~Waits(x)
  BY <1>1 DEF Reading, UpdatesRemembered, Waits, Sound, WaitingSound
<1>3. ASSUME crashes = 0, NEW a \in Agents, x \in ReadBy(a) PROVE FALSE
  <2>1. x \in DOMAIN sent
    BY <1>3, ReadIsSent
  <2>2. Known(x)
    BY <1>1, <1>3, <2>1 DEF Fresh, Reading, OnceInALife
  <2> QED  BY <1>1, <2>1, <2>2
<1>4. ASSUME faults' = 0
      PROVE  faults = 0 /\ x \notin DOMAIN sent /\ \A n \in DOMAIN sent : n < x
  <2>1. faults \in Nat
    BY ConstantsTyped DEF Sound, TypeOK
  <2>2. faults = 0
    BY <1>4, <2>1 DEF Fresh
  <2>3. x \notin DOMAIN sent
    BY <1>1, <2>2 DEF Reading, UpdatesRemembered, Fresh
  <2>4. DOMAIN sent = 1..Len(sent) /\ Len(sent) \in Nat /\ DOMAIN sent' = 1..Len(sent')
        /\ Len(sent') \in Nat
    BY DEF Sound, TypeOK, Grows
  <2>5. x \in Nat /\ x > Len(sent)
    BY <2>3, <2>4 DEF Fresh
  <2> QED  BY <2>2, <2>3, <2>4, <2>5
<1> QED  BY <1>2, <1>3, <1>4

LEMMA FreshReads ==
    ASSUME Sound, MessagesSound', Reading, Grows, NEW x, Fresh(x), Dispatched(x)
    PROVE  Reading'
<1>1. /\ DOMAIN sent \subseteq DOMAIN sent' /\ \A n \in DOMAIN sent : sent'[n] = sent[n]
      /\ \A n \in DOMAIN sent' : n \in DOMAIN sent \/ n = x
      /\ recent \subseteq recent' /\ seen \subseteq seen' /\ crashes' = crashes
      /\ sent'[x].id \in recent' \cup seen' /\ sent'[x].chat \in Bots /\ x \in DOMAIN sent'
      /\ faults \in Nat /\ faults' \in Nat
  <2>1. faults \in Nat
    BY ConstantsTyped DEF Sound, TypeOK
  <2> QED  BY <2>1 DEF Grows, Sound, TypeOK, Fresh
<1>2. /\ ~Waits(x)
      /\ crashes = 0 => \A a \in Agents : x \notin ReadBy(a)
      /\ faults' = 0 => /\ faults = 0 /\ x \notin DOMAIN sent
                        /\ \A n \in DOMAIN sent : n < x
  BY FreshIsNew
<1>3. ASSUME NEW b \in Bots
      PROVE  /\ buffer[b] \in Seq(Numbers)
             /\ buffer'[b] = buffer[b]
                \/ (sent'[x].kind = "text" /\ b = sent'[x].chat /\ buffer'[b] = Append(buffer[b], x))
             /\ Range(buffer[b]) \subseteq Range(buffer'[b])
             /\ Range(buffer'[b]) \subseteq Range(buffer[b]) \cup {x}
             /\ sent'[x].kind = "text" /\ b = sent'[x].chat => x \in Range(buffer'[b])
  <2>1. buffer \in [Bots -> Seq(Numbers)]
    BY DEF Sound, TypeOK
  <2>2. x \in Numbers
    <3>1. DOMAIN sent' = 1..Len(sent') /\ Len(sent') \in Nat /\ Len(sent') <= MaxMessages
      BY DEF Grows, MessagesSound
    <3> QED  BY <1>1, <3>1, ConstantsTyped DEF Numbers
  <2>3. /\ buffer'[b] = buffer[b]
           \/ (sent'[x].kind = "text" /\ b = sent'[x].chat /\ buffer'[b] = Append(buffer[b], x))
        /\ sent'[x].kind = "text" /\ b = sent'[x].chat => buffer'[b] = Append(buffer[b], x)
    BY <2>1 DEF Dispatched
  <2>4. PICK s \in Seq(Numbers) : s = buffer[b]
    BY <2>1
  <2>5. PICK t : t = Append(s, x)
    OBVIOUS
  <2>6. /\ \A i \in DOMAIN t : i \in DOMAIN s \/ i = Len(s) + 1
        /\ \A i \in DOMAIN s : i \in DOMAIN t /\ t[i] = s[i]
        /\ t[Len(s) + 1] = x /\ Len(s) + 1 \in DOMAIN t
    BY <2>2, <2>5, OneMore
  <2>7. Range(t) = Range(s) \cup {x}
    BY <2>6 DEF Range
  <2> QED  BY <2>3, <2>4, <2>5, <2>7
<1>4. \A n : n # x => (Waits(n)' <=> Waits(n))
  <2>1. \A n : n # x => (n \in awaited' <=> n \in awaited)
    BY DEF Dispatched
  <2> QED  BY <1>3, <2>1 DEF Waits
<1>5. ASSUME NEW a \in Agents
      PROVE  /\ ReadBy(a) \subseteq ReadBy(a)' /\ ReadBy(a)' \subseteq ReadBy(a) \cup {x}
             /\ \A n : n # x => RowsWith(a, n)' = RowsWith(a, n)
             /\ Cardinality(RowsWith(a, x)') \in Nat
             /\ Cardinality(RowsWith(a, x)') <= Cardinality(RowsWith(a, x)) + 1
  <2>1. PICK ns : ns = {x}
    OBVIOUS
  <2>2. rows'[a] = rows[a] \/ \E e, known : Gets(a, e, known) /\ Range(e.parts) = ns
    BY <2>1 DEF Dispatched
  <2>3. /\ ReadBy(a) \subseteq ReadBy(a)' /\ ReadBy(a)' \subseteq ReadBy(a) \cup ns
        /\ \A n : n \notin ns => RowsWith(a, n)' = RowsWith(a, n)
        /\ \A n : /\ Cardinality(RowsWith(a, n)') \in Nat
                  /\ Cardinality(RowsWith(a, n)') <= Cardinality(RowsWith(a, n)) + 1
    BY <2>2, ReadsGrow DEF Sound
  <2> QED  BY <2>1, <2>3
<1>6. ASSUME Waits(x)' \/ sent'[x].kind = "text"
      PROVE  \A a \in Agents : /\ ReadBy(a)' = ReadBy(a)
                               /\ RowsWith(a, x)' = RowsWith(a, x)
  <2>1. \A a \in Agents : rows'[a] = rows[a]
    BY <1>2, <1>6 DEF Dispatched, Waits
  <2> QED  BY <2>1 DEF ReadBy, RowsWith
<1>7. UpdatesRemembered'
  <2>1. ASSUME NEW u \in recent' \cup seen'
        PROVE  \E n \in DOMAIN sent' : sent'[n].chat \in Bots /\ sent'[n].id = u
    <3>1. u \in recent \cup seen \/ u = sent'[x].id
      BY DEF Fresh
    <3>2. CASE u \in recent \cup seen
      <4>1. PICK n \in DOMAIN sent : sent[n].chat \in Bots /\ sent[n].id = u
        BY <3>2 DEF Reading, UpdatesRemembered
      <4> QED  BY <1>1, <4>1
    <3> QED  BY <1>1, <3>1, <3>2
  <2>2. \A n \in DOMAIN sent' : Waits(n)' => sent'[n].id \in recent' \cup seen'
    BY <1>1, <1>4 DEF Reading, UpdatesRemembered, Known
  <2>3. faults' = 0 => /\ recent' = {}
                       /\ \A n \in DOMAIN sent' : sent'[n].chat \in Bots => sent'[n].id \in seen'
    BY <1>1, <1>2 DEF Fresh, Reading, UpdatesRemembered
  <2> QED  BY <2>1, <2>2, <2>3 DEF UpdatesRemembered, Known
<1>8. ReadsArePaid'
  <2> SUFFICES ASSUME NEW a \in Agents, NEW n \in DOMAIN sent', sent'[n].chat \in Bots
               PROVE  Reads(a, n)' <= Paid(n)'
    BY DEF ReadsArePaid
  <2>1. CASE n # x
    <3>1. n \in DOMAIN sent /\ sent'[n] = sent[n]
      BY <1>1, <2>1
    <3>2. Reads(a, n)' = Reads(a, n)
      BY <1>4, <1>5, <2>1 DEF Reads
    <3>3. Reads(a, n) <= Paid(n)
      BY <3>1 DEF Reading, ReadsArePaid
    <3>4. Paid(n) <= Paid(n)' /\ Paid(n) \in Nat /\ Paid(n)' \in Nat
      <4>1. faults <= faults'
        BY <1>1 DEF Fresh
      <4>2. PICK i : i = sent[n].id
        OBVIOUS
      <4>3. sent'[n].id = i /\ (i \in seen => i \in seen')
        BY <1>1, <3>1, <4>2
      <4>4. PICK f \in Nat : f = faults
        BY <1>1
      <4>5. PICK g \in Nat : g = faults'
        BY <1>1
      <4>6. f <= g
        BY <4>1, <4>4, <4>5
      <4>7. (i \in seen => Paid(n) = f + 1) /\ (i \notin seen => Paid(n) = f)
        BY <4>2, <4>4 DEF Paid
      <4>8. (i \in seen' => Paid(n)' = g + 1) /\ (i \notin seen' => Paid(n)' = g)
        <5>1. CASE i \in seen'
          BY <4>3, <4>5, <5>1 DEF Paid
        <5>2. CASE i \notin seen'
          <6>1. Paid(n)' = g + 0
            BY <4>3, <4>5, <5>2 DEF Paid
          <6> QED  BY <5>2, <6>1
        <5> QED  BY <5>1, <5>2
      <4> QED  BY <4>3, <4>6, <4>7, <4>8
    <3>5. Reads(a, n) \in Nat
      BY RowsFinite DEF Sound
    <3> QED  BY <3>2, <3>3, <3>4, <3>5
  <2>2. CASE n = x
    <3>1. PICK c \in Nat : c = Cardinality(RowsWith(a, x))
      BY RowsFinite DEF Sound
    <3>2. c <= faults
      <4>1. CASE x \in DOMAIN sent
        <5>1. Reads(a, x) = c
          BY <1>2, <3>1 DEF Reads
        <5>2. Paid(x) = faults
          BY <1>1, <4>1 DEF Paid, Fresh
        <5>3. sent'[x] = sent[x]
          BY <1>1, <4>1
        <5> QED  BY <1>1, <4>1, <5>1, <5>2, <5>3 DEF Reading, ReadsArePaid
      <4>2. CASE x \notin DOMAIN sent
        <5>1. RowsWith(a, x) = {}
          BY <4>2, ReadWasSent DEF RowsWith
        <5> QED  BY <1>1, <3>1, <5>1, FS_EmptySet
      <4> QED  BY <4>1, <4>2
    <3>3. Paid(x)' = faults + 1
      <4>1. CASE seen' = seen \cup {sent'[x].id} /\ faults' = faults
        BY <1>1, <4>1 DEF Paid
      <4>2. CASE seen' = seen /\ faults' = faults + 1
        <5>1. sent'[x].id \notin seen'
          BY <4>2 DEF Fresh
        <5> QED  BY <1>1, <4>2, <5>1 DEF Paid
      <4> QED  BY <4>1, <4>2 DEF Fresh
    <3>4. Reads(a, x)' <= c + 1
      <4>1. PICK d \in Nat : d = Cardinality(RowsWith(a, x)')
        BY <1>5
      <4>2. d <= c + 1
        BY <1>5, <3>1, <4>1
      <4>3. Waits(x)' => d = c
        BY <1>6, <3>1, <4>1
      <4>4. Reads(a, x)' = d + (IF Waits(x)' THEN 1 ELSE 0)
        BY <4>1 DEF Reads
      <4> QED  BY <4>2, <4>3, <4>4
    <3>5. Reads(a, x)' \in Nat
      BY <1>5 DEF Reads
    <3> QED  BY <1>1, <2>2, <3>2, <3>3, <3>4, <3>5
  <2> QED  BY <2>1, <2>2

<1>9. OnceInALife'
  <2> SUFFICES ASSUME crashes' = 0, NEW a \in Agents, NEW n, n \in ReadBy(a)',
                      sent'[n].chat \in Bots
               PROVE  Known(n)' /\ ~Waits(n)'
    BY DEF OnceInALife
  <2>1. CASE n # x
    <3>1. n \in ReadBy(a) /\ n \in DOMAIN sent
      BY <1>5, <2>1, ReadIsSent
    <3>2. Known(n) /\ ~Waits(n)
      BY <1>1, <3>1 DEF Reading, OnceInALife
    <3> QED  BY <1>1, <1>4, <2>1, <3>1, <3>2 DEF Known
  <2>2. CASE n = x
    <3>1. x \notin ReadBy(a)
      BY <1>1, <1>2
    <3>2. ~Waits(x)'
      BY <1>6, <2>2, <3>1
    <3> QED  BY <1>1, <2>2, <3>2 DEF Known
  <2> QED  BY <2>1, <2>2
<1>10. BuffersInOrder'
  <2> SUFFICES ASSUME faults' = 0, NEW b \in Bots
               PROVE  /\ \A i, k \in DOMAIN buffer'[b] : i < k => buffer'[b][i] < buffer'[b][k]
                      /\ \A n, m : n \in ReadBy(Wired[b][1])' /\ m \in Range(buffer'[b])
                                   /\ Of(b, n)' => n < m
    BY DEF BuffersInOrder
  <2>1. faults = 0 /\ x \notin DOMAIN sent /\ \A n \in DOMAIN sent : n < x
    BY <1>2
  <2>2. /\ \A i, k \in DOMAIN buffer[b] : i < k => buffer[b][i] < buffer[b][k]
        /\ \A n \in ReadBy(Wired[b][1]), m \in Range(buffer[b]) : Of(b, n) => n < m
    BY <2>1 DEF Reading, BuffersInOrder
  <2>3. \A i \in DOMAIN buffer[b] : buffer[b][i] < x
    BY <2>1 DEF Sound, WaitingSound, Range
  <2>4. \A i, k \in DOMAIN buffer'[b] : i < k => buffer'[b][i] < buffer'[b][k]
    <3>1. CASE buffer'[b] = buffer[b]
      BY <2>2, <3>1
    <3>2. CASE buffer'[b] = Append(buffer[b], x)
      <4>1. PICK s \in Seq(Numbers) : s = buffer[b]
        BY <1>3
      <4>2. PICK t : t = Append(s, x)
        OBVIOUS
      <4>3. x \in Numbers
        <5>1. DOMAIN sent' = 1..Len(sent') /\ Len(sent') \in Nat /\ Len(sent') <= MaxMessages
          BY DEF Grows, MessagesSound
        <5> QED  BY <1>1, <5>1, ConstantsTyped DEF Numbers
      <4>4. /\ \A i \in DOMAIN t : i \in DOMAIN s \/ i = Len(s) + 1
            /\ \A i \in DOMAIN s : t[i] = s[i] /\ i \in Nat /\ i < Len(s) + 1
            /\ t[Len(s) + 1] = x /\ Len(s) \in Nat
        BY <4>2, <4>3, OneMore
      <4>5. \A i, k \in DOMAIN t : i < k => t[i] < t[k]
        BY <2>2, <2>3, <4>1, <4>4
      <4> QED  BY <3>2, <4>1, <4>2, <4>5
    <3> QED  BY <1>3, <3>1, <3>2
  <2>5. ASSUME NEW n, NEW m, n \in ReadBy(Wired[b][1])', m \in Range(buffer'[b]), Of(b, n)'
        PROVE  n < m
    <3>1. Wired[b][1] \in Agents
      BY BotsAgent
    <3>2. n \in ReadBy(Wired[b][1])
      <4>1. CASE n # x
        BY <1>5, <2>5, <3>1, <4>1
      <4>2. CASE n = x
        BY <1>6, <2>5, <3>1, <4>2 DEF Of
      <4> QED  BY <4>1, <4>2
    <3>3. n \in DOMAIN sent
      BY <3>1, <3>2, ReadIsSent
    <3>4. Of(b, n)
      BY <1>1, <2>5, <3>3 DEF Of
    <3>5. m \in Range(buffer[b]) \/ m = x
      BY <1>3, <2>5
    <3> QED  BY <2>1, <2>2, <3>2, <3>3, <3>4, <3>5
  <2> QED  BY <2>4, <2>5
<1>11. TextsInOrder'
  <2>1. ASSUME NEW a, NEW b \in Bots, NEW e, e.parts = <<x>>, sent'[x].kind # "text"
        PROVE  InTurn(a, b, e)
    <3>1. \A q \in DOMAIN e.parts : e.parts[q] = x
      BY <2>1
    <3>2. \A m \in Range(e.parts) : m = x
      BY <3>1 DEF Range
    <3> QED  BY <2>1, <3>1, <3>2 DEF InTurn, Of
  <2>2. AllInTurn
    BY <2>1, BotsAgent DEF AllInTurn, Dispatched
  <2> QED  BY <1>2, <2>2, OrderStep DEF Reading
<1>12. TextIsNotLost'
  <2> SUFFICES ASSUME NEW n \in DOMAIN sent', Due(n)' PROVE Arrived(n)'
    BY NotLostIsNext
  <2>1. CASE n \in DOMAIN sent
    <3>1. Arrived(n)
      BY <1>1, <2>1, DueBefore, NotLostIs DEF Reading
    <3>2. sent'[n] = sent[n] /\ sent[n].chat \in Bots
      BY <1>1, <2>1 DEF Due
    <3>3. Wired[sent[n].chat][1] \in Agents
      BY <3>2, BotsAgent
    <3> QED  BY <1>3, <1>5, <3>1, <3>2, <3>3 DEF Arrived
  <2>2. CASE n = x
    BY <1>1, <1>3, <2>2 DEF Due, Arrived
  <2> QED  BY <1>1, <2>1, <2>2
<1> QED  BY <1>7, <1>8, <1>9, <1>10, <1>11, <1>12 DEF Reading

(* Messages ns wait no more: an agent may have read them now.               *)
Taken(ns) ==
    /\ UNCHANGED <<sent, recent, seen, faults, crashes>>
    /\ \A n \in ns : n \in DOMAIN sent /\ Waits(n)
    /\ \A n : Waits(n)' <=> Waits(n) /\ n \notin ns
    /\ awaited' \subseteq awaited
    /\ \A b \in Bots : \/ buffer'[b] = buffer[b] /\ \A n \in ns : ~Of(b, n)
                       \/ DOMAIN buffer'[b] = {} /\ Range(buffer'[b]) = {}
    /\ \A a \in Agents : rows'[a] = rows[a] \/ \E e, known :
          Gets(a, e, known) /\ Range(e.parts) = ns

LEMMA TakenReads ==
    ASSUME Sound, Reading, NEW ns, Taken(ns), AllInTurn,
           \A b \in Bots : \A n \in ns : Of(b, n) /\ Due(n) => n \in ReadBy(Wired[b][1])'
    PROVE  Reading'
<1>1. /\ sent' = sent /\ recent' = recent /\ seen' = seen /\ faults' = faults
      /\ crashes' = crashes /\ Grows
  BY NothingSent DEF Taken
<1>2. \A n : Waits(n)' <=> Waits(n) /\ n \notin ns
  BY DEF Taken
<1>3. ASSUME NEW a \in Agents
      PROVE  /\ ReadBy(a) \subseteq ReadBy(a)' /\ ReadBy(a)' \subseteq ReadBy(a) \cup ns
             /\ \A n : n \notin ns => RowsWith(a, n)' = RowsWith(a, n)
             /\ \A n : /\ Cardinality(RowsWith(a, n)') \in Nat
                       /\ Cardinality(RowsWith(a, n)') <= Cardinality(RowsWith(a, n)) + 1
  <2>1. rows'[a] = rows[a] \/ \E e, known : Gets(a, e, known) /\ Range(e.parts) = ns
    BY DEF Taken
  <2> QED  BY <2>1, ReadsGrow DEF Sound
<1>4. ASSUME NEW b \in Bots
      PROVE  \/ buffer'[b] = buffer[b] /\ \A n \in ns : ~Of(b, n)
             \/ DOMAIN buffer'[b] = {} /\ Range(buffer'[b]) = {}
  BY DEF Taken
<1>5. UpdatesRemembered'
  BY <1>1, <1>2 DEF UpdatesRemembered, Known, Reading
<1>6. ReadsArePaid'
  <2> SUFFICES ASSUME NEW a \in Agents, NEW n \in DOMAIN sent, sent[n].chat \in Bots
               PROVE  Reads(a, n)' <= Paid(n)'
    BY <1>1 DEF ReadsArePaid
  <2>1. Paid(n)' = Paid(n)
    BY <1>1 DEF Paid
  <2>2. Reads(a, n) <= Paid(n)
    BY DEF Reading, ReadsArePaid
  <2>3. PICK c \in Nat : c = Cardinality(RowsWith(a, n))
    BY RowsFinite DEF Sound
  <2>4. PICK d \in Nat : d = Cardinality(RowsWith(a, n)')
    BY <1>3
  <2>5. CASE n \in ns
    <3>1. Waits(n) /\ ~Waits(n)'
      BY <1>2, <2>5 DEF Taken
    <3>2. Reads(a, n) = c + 1
      BY <2>3, <3>1 DEF Reads
    <3>3. Reads(a, n)' = d + 0
      BY <2>4, <3>1 DEF Reads
    <3>4. d <= c + 1
      BY <1>3, <2>3, <2>4
    <3>5. faults \in Nat
      BY ConstantsTyped DEF Sound, TypeOK
    <3>6. Paid(n) \in Nat
      BY <3>5 DEF Paid
    <3> QED  BY <2>1, <2>2, <3>2, <3>3, <3>4, <3>6
  <2>6. CASE n \notin ns
    <3>1. RowsWith(a, n)' = RowsWith(a, n) /\ (Waits(n)' <=> Waits(n))
      BY <1>2, <1>3, <2>6
    <3>2. Reads(a, n)' = Reads(a, n)
      BY <3>1 DEF Reads
    <3> QED  BY <2>1, <2>2, <3>2
  <2> QED  BY <2>5, <2>6
<1>7. OnceInALife'
  <2> SUFFICES ASSUME crashes = 0, NEW a \in Agents, NEW n, n \in ReadBy(a)',
                      sent[n].chat \in Bots
               PROVE  Known(n) /\ ~Waits(n)'
    BY <1>1 DEF OnceInALife, Known
  <2>1. CASE n \in ns
    <3>1. n \in DOMAIN sent /\ Waits(n) /\ ~Waits(n)'
      BY <1>2, <2>1 DEF Taken
    <3> QED  BY <3>1 DEF Reading, UpdatesRemembered
  <2>2. CASE n \notin ns
    <3>1. n \in ReadBy(a)
      BY <1>3, <2>2
    <3>2. Known(n) /\ ~Waits(n)
      BY <3>1 DEF Reading, OnceInALife
    <3> QED  BY <1>2, <3>2
  <2> QED  BY <2>1, <2>2
<1>8. BuffersInOrder'
  <2> SUFFICES ASSUME faults = 0, NEW b \in Bots
               PROVE  /\ \A i, k \in DOMAIN buffer'[b] : i < k => buffer'[b][i] < buffer'[b][k]
                      /\ \A n, m : n \in ReadBy(Wired[b][1])' /\ m \in Range(buffer'[b])
                                   /\ Of(b, n) => n < m
    BY <1>1 DEF BuffersInOrder, Of
  <2>1. Wired[b][1] \in Agents
    BY BotsAgent
  <2>2. CASE DOMAIN buffer'[b] = {} /\ Range(buffer'[b]) = {}
    BY <2>2
  <2>3. CASE buffer'[b] = buffer[b] /\ \A n \in ns : ~Of(b, n)
    BY <1>3, <2>1, <2>3 DEF Reading, BuffersInOrder
  <2> QED  BY <1>4, <2>2, <2>3
<1>9. TextsInOrder'
  BY <1>1, OrderStep DEF Reading
<1>10. TextIsNotLost'
  <2> SUFFICES ASSUME NEW n \in DOMAIN sent, Due(n)' PROVE Arrived(n)'
    BY <1>1, NotLostIsNext
  <2>1. Due(n)
    BY <1>1, DueBefore
  <2>2. Arrived(n)
    BY <2>1, NotLostIs DEF Reading
  <2>3. PICK b \in Bots : b = sent[n].chat /\ Of(b, n)
    BY <2>1 DEF Due, Of
  <2>4. Wired[b][1] \in Agents
    BY BotsAgent
  <2>5. CASE n \in ReadBy(Wired[b][1])
    <3>1. n \in ReadBy(Wired[b][1])'
      BY <1>3, <2>4, <2>5
    <3> QED  BY <1>1, <2>3, <3>1 DEF Arrived
  <2>6. CASE n \in Range(buffer[b])
    <3>1. CASE n \in ns
      <4>1. n \in ReadBy(Wired[b][1])'
        BY <2>1, <2>3, <3>1
      <4> QED  BY <1>1, <2>3, <4>1 DEF Arrived
    <3>2. CASE n \notin ns
      <4>1. Waits(n)'
        BY <1>2, <2>6, <3>2 DEF Waits
      <4>2. n \notin awaited'
        <5>1. n \notin awaited
          BY <2>3 DEF Sound, WaitingSound, Of
        <5> QED  BY <5>1 DEF Taken
      <4>3. n \in Range(buffer'[b])
        BY <1>4, <2>3, <4>1, <4>2 DEF Waits, Sound, WaitingSound, Of
      <4> QED  BY <1>1, <2>3, <4>3 DEF Arrived
    <3> QED  BY <3>1, <3>2
  <2> QED  BY <2>2, <2>3, <2>5, <2>6 DEF Arrived
<1> QED  BY <1>5, <1>6, <1>7, <1>8, <1>9, <1>10 DEF Reading

LEMMA RestartReads ==
    ASSUME Sound, Reading, Restart
    PROVE  Reading'
<1>1. /\ sent' = sent /\ recent' = {} /\ seen' = seen /\ faults' = faults
      /\ rows' = rows /\ Grows /\ awaited' = {}
  BY NothingSent DEF Restart
<1>2. PICK s : s = <<>>
  OBVIOUS
<1>3. \A b \in Bots : buffer'[b] = s /\ DOMAIN s = {} /\ Range(s) = {}
  BY <1>2 DEF Restart, Range
<1>4. \A n : ~Waits(n)'
  BY <1>1, <1>3 DEF Waits
<1>5. crashes' # 0
  BY ConstantsTyped DEF Restart, Sound, TypeOK
<1>6. UpdatesRemembered'
  BY <1>1, <1>4 DEF UpdatesRemembered, Known, Reading
<1>7. ReadsArePaid'
  <2> SUFFICES ASSUME NEW a \in Agents, NEW n \in DOMAIN sent, sent[n].chat \in Bots
               PROVE  Reads(a, n)' <= Paid(n)'
    BY <1>1 DEF ReadsArePaid
  <2>1. Paid(n)' = Paid(n) /\ Reads(a, n) <= Paid(n)
    BY <1>1 DEF Paid, Reading, ReadsArePaid
  <2>2. PICK c \in Nat : c = Cardinality(RowsWith(a, n))
    BY RowsFinite DEF Sound
  <2>3. RowsWith(a, n)' = RowsWith(a, n)
    BY <1>1 DEF RowsWith
  <2>4. Reads(a, n)' = c + 0 /\ (Reads(a, n) = c + 1 \/ Reads(a, n) = c + 0)
    BY <1>4, <2>2, <2>3 DEF Reads
  <2>5. faults \in Nat
    BY ConstantsTyped DEF Sound, TypeOK
  <2>6. Paid(n) \in Nat
    BY <2>5 DEF Paid
  <2> QED  BY <2>1, <2>4, <2>6
<1>8. OnceInALife'
  BY <1>5 DEF OnceInALife
<1>9. BuffersInOrder'
  BY <1>3 DEF BuffersInOrder
<1>10. TextsInOrder'
  <2>1. AllInTurn
    BY <1>1 DEF AllInTurn
  <2> QED  BY <1>1, <2>1, OrderStep DEF Reading
<1>11. TextIsNotLost'
  BY <1>5, NotLostIsNext DEF Due
<1> QED  BY <1>6, <1>7, <1>8, <1>9, <1>10, <1>11 DEF Reading

(* The buffer's timer: what was in the buffer is read, in its order.        *)
LEMMA FlushReads ==
    ASSUME Sound, Reading, NEW b \in Bots, Flush(b)
    PROVE  Reading'
<1>1. PICK e : e = Event(sent[Last(buffer[b])], buffer[b])
  OBVIOUS
<1>2. PICK ns : ns = Range(buffer[b])
  OBVIOUS
<1>3. PICK a \in Agents : a = Wired[b][1] /\ Wired[b] = <<a>> /\ b \in Chats /\ b # Group
  BY BotsAgent
<1>4. /\ UNCHANGED <<sent, recent, seen, awaited, faults, crashes>> /\ Grows
      /\ buffer[b] # <<>> /\ buffer' = [buffer EXCEPT ![b] = <<>>] /\ OnInbound(e)
      /\ MessagesSound'
  BY <1>1, NothingSent DEF Flush
<1>5. /\ Genuine(e) /\ Genuine(e)' /\ e.chat = b /\ e.kind = "text" /\ e.parts = buffer[b]
      /\ e \in Events
  <2>1. Genuine(e) /\ e.chat = b /\ e.kind = "text" /\ e.parts = buffer[b]
    BY <1>1, <1>4, BufferIsGenuine
  <2>2. Genuine(e)'
    BY <1>4, <2>1, GenuineStays DEF Sound
  <2> QED  BY <2>1, <2>2 DEF Genuine
<1>6. /\ \A x \in Agents \ {a} : rows'[x] = rows[x]
      /\ Outcome(a, e, members) \notin {"wake", "keep"} => rows'[a] = rows[a]
      /\ Outcome(a, e, members) \in {"wake", "keep"} =>
            \E t \in BOOLEAN : rows'[a] = Append(rows[a], [event |-> e, trigger |-> t])
  <2>1. PICK agents : agents = Wired[e.chat]
    OBVIOUS
  <2>2. Serve(e, agents, members, job)
    BY <1>4, <2>1 DEF OnInbound, Route
  <2>3. agents = <<a>>
    BY <1>3, <1>5, <2>1
  <2> QED  BY <2>2, <2>3, OneAgent
<1>7. \A x \in Agents : rows'[x] = rows[x] \/ Gets(x, e, members)
  BY <1>4, <1>5, InboundSpreads DEF Sound, Spread
<1>8. \A n \in ns : n \in DOMAIN sent /\ sent[n].chat = b /\ sent[n].kind = "text"
                    /\ n \notin awaited
  BY <1>2 DEF Sound, WaitingSound
<1>9. DOMAIN buffer'[b] = {} /\ Range(buffer'[b]) = {}
  <2>1. PICK s : s = <<>>
    OBVIOUS
  <2>2. DOMAIN s = {} /\ Range(s) = {}
    BY <2>1 DEF Range
  <2>3. buffer'[b] = s
    BY <1>4, <2>1 DEF Sound, TypeOK
  <2> QED  BY <2>2, <2>3
<1>10. \A c \in Bots \ {b} : buffer'[c] = buffer[c]
  BY <1>4 DEF Sound, TypeOK
<1>11. Taken(ns)
  <2>1. \A n : Waits(n)' <=> Waits(n) /\ n \notin ns
    <3>1. \A n : n \in ns => ~Waits(n)'
      BY <1>4, <1>8, <1>9, <1>10 DEF Waits, Sound, WaitingSound
    <3>2. \A n : n \notin ns => (Waits(n)' <=> Waits(n))
      BY <1>2, <1>4, <1>9, <1>10 DEF Waits
    <3>3. \A n \in ns : Waits(n)
      BY <1>2 DEF Waits
    <3> QED  BY <3>1, <3>2, <3>3
  <2>2. \A n \in ns : n \in DOMAIN sent /\ Waits(n)
    BY <1>2, <1>8 DEF Waits
  <2>3. \A c \in Bots : \/ buffer'[c] = buffer[c] /\ \A n \in ns : ~Of(c, n)
                        \/ DOMAIN buffer'[c] = {} /\ Range(buffer'[c]) = {}
    BY <1>8, <1>9, <1>10 DEF Of
  <2>4. \A x \in Agents : rows'[x] = rows[x] \/ \E f, known :
           Gets(x, f, known) /\ Range(f.parts) = ns
    BY <1>2, <1>5, <1>7
  <2> QED  BY <1>4, <2>1, <2>2, <2>3, <2>4 DEF Taken
<1>12. ASSUME NEW c \in Bots, faults' = 0 PROVE InTurn(Wired[c][1], c, e)
  <2>1. \A q \in DOMAIN e.parts : e.parts[q] \in ns
    BY <1>2, <1>5 DEF Range
  <2>2. Range(e.parts) = ns
    BY <1>2, <1>5
  <2>3. CASE c = b
    <3>1. /\ \A i, k \in DOMAIN buffer[b] : i < k => buffer[b][i] < buffer[b][k]
          /\ \A n \in ReadBy(Wired[b][1]), m \in Range(buffer[b]) : Of(b, n) => n < m
      BY <1>4, <1>12 DEF Reading, BuffersInOrder
    <3>2. \A n : Of(b, n)' <=> Of(b, n)
      BY <1>4 DEF Of
    <3> QED  BY <1>2, <1>5, <2>2, <2>3, <3>1, <3>2 DEF InTurn
  <2>4. CASE c # b
    <3>1. \A n \in ns : ~ Of(c, n)'
      BY <1>4, <1>8, <2>4 DEF Of
    <3> QED  BY <2>1, <2>2, <3>1 DEF InTurn
  <2> QED  BY <2>3, <2>4
<1>13. AllInTurn
  BY <1>7, <1>12, BotsAgent DEF AllInTurn
<1>14. ASSUME NEW c \in Bots, NEW n \in ns, Of(c, n), Due(n)
       PROVE  n \in ReadBy(Wired[c][1])'
  <2>1. c = b /\ crashes = 0 /\ <<a, "text">> \in Engages
    BY <1>3, <1>8, <1>14 DEF Of, Due
  <2>2. ~Written(a, e)
    <3> SUFFICES ASSUME NEW i \in DOMAIN rows[a], rows[a][i].event.key = e.key PROVE FALSE
      BY DEF Written
    <3>1. Genuine(rows[a][i].event)
      BY DEF Sound, EventsGenuine
    <3>2. PICK ps \in Seq(Numbers) : ps = rows[a][i].event.parts /\ ps # <<>>
      BY <3>1 DEF Genuine, Events
    <3>3. Len(ps) \in DOMAIN ps
      BY <3>2
    <3>4. PICK l : l = Last(ps)
      OBVIOUS
    <3>5. /\ l \in Range(ps) /\ e.key = KeyOf(sent[l])
      BY <3>1, <3>2, <3>3, <3>4 DEF Genuine, Last, Range
    <3>6. l \in DOMAIN sent /\ l \in ReadBy(a)
      BY <3>2, <3>5, ReadWasSent
    <3>7. PICK qs \in Seq(Numbers) : qs = buffer[b] /\ qs # <<>>
      BY <1>4 DEF Sound, TypeOK
    <3>8. Len(qs) \in DOMAIN qs
      BY <3>7
    <3>9. PICK k : k = Last(qs)
      OBVIOUS
    <3>10. k \in ns /\ e.key = KeyOf(sent[k])
      BY <1>2, <1>5, <3>7, <3>8, <3>9 DEF Genuine, Last, Range
    <3>11. k = l /\ Waits(k) /\ sent[k].chat \in Bots
      BY <1>2, <1>8, <3>5, <3>6, <3>10, KeysName DEF Waits
    <3> QED  BY <2>1, <3>6, <3>11 DEF Reading, OnceInALife
  <2>3. Accepts(a, e.kind)
    BY <1>5, <2>1 DEF Accepts
  <2>4. Outcome(a, e, members) \in {"wake", "keep"}
    BY <1>3, <1>4, <1>5, <2>2, <2>3, FoundersOutcome
  <2>5. PICK t \in BOOLEAN : rows'[a] = Append(rows[a], [event |-> e, trigger |-> t])
    BY <1>6, <2>4
  <2>6. PICK r : r = [event |-> e, trigger |-> t]
    OBVIOUS
  <2>7. r \in Rows /\ r.event = e /\ rows[a] \in Seq(Rows)
    BY <1>5, <2>6 DEF Rows, Sound, TypeOK
  <2>8. Len(rows[a]) + 1 \in DOMAIN rows'[a] /\ rows'[a][Len(rows[a]) + 1] = r
    BY <2>5, <2>6, <2>7, OneMore
  <2>9. n \in Range(rows'[a][Len(rows[a]) + 1].event.parts)
    BY <1>2, <1>5, <2>7, <2>8
  <2> QED  BY <1>3, <2>1, <2>8, <2>9 DEF ReadBy
<1> QED  BY <1>11, <1>13, <1>14, TakenReads

(* The end of a download or a tap: it is read, or the download failed.      *)
LEMMA FetchedReads ==
    ASSUME Sound, Reading, NEW n \in Numbers, Fetched(n)
    PROVE  Reading'
<1>1. PICK e : e = Event(sent[n], <<n>>)
  OBVIOUS
<1>2. PICK ns : ns = {n}
  OBVIOUS
<1>3. /\ UNCHANGED <<sent, recent, seen, buffer, faults, crashes>> /\ Grows
      /\ n \in awaited /\ awaited' = awaited \ {n} /\ (OnInbound(e) \/ rows' = rows)
  BY <1>1, NothingSent DEF Fetched
<1>4. n \in DOMAIN sent /\ sent[n].chat \in Bots /\ sent[n].kind # "text"
      /\ \A b \in Bots : n \notin Range(buffer[b])
  BY <1>3 DEF Sound, WaitingSound
<1>5. Genuine(e) /\ e \in Events /\ e.parts = <<n>> /\ Range(e.parts) = ns
  <2>1. sent \in Seq(Messages) /\ Len(sent) <= MaxMessages
    BY DEF Sound, TypeOK, MessagesSound
  <2> QED  BY <1>1, <1>2, <1>4, <2>1, AloneIsGenuine, AloneIsEvent
<1>6. \A a \in Agents : rows'[a] = rows[a] \/ Gets(a, e, members)
  BY <1>3, <1>5, InboundSpreads DEF Sound, Spread
<1>7. \A c \in Bots, m \in ns : ~Of(c, m)
  BY <1>2, <1>4 DEF Of
<1>8. Taken(ns)
  <2>1. \A m : Waits(m)' <=> Waits(m) /\ m \notin ns
    BY <1>2, <1>3, <1>4 DEF Waits
  <2>2. \A m \in ns : m \in DOMAIN sent /\ Waits(m)
    BY <1>2, <1>3, <1>4 DEF Waits
  <2>3. \A x \in Agents : rows'[x] = rows[x] \/ \E f, known :
           Gets(x, f, known) /\ Range(f.parts) = ns
    BY <1>5, <1>6
  <2> QED  BY <1>3, <1>7, <2>1, <2>2, <2>3 DEF Taken
<1>9. AllInTurn
  <2>1. ASSUME NEW c \in Bots PROVE InTurn(Wired[c][1], c, e)
    <3>1. \A m : Of(c, m)' <=> Of(c, m)
      BY <1>3 DEF Of
    <3>2. \A q \in DOMAIN e.parts : e.parts[q] \in ns
      BY <1>5 DEF Range
    <3> QED  BY <1>5, <1>7, <3>1, <3>2 DEF InTurn
  <2> QED  BY <1>6, <2>1, BotsAgent DEF AllInTurn
<1> QED  BY <1>7, <1>8, <1>9, TakenReads

LEMMA UpdatedReads ==
    ASSUME Sound, Sound', Reading, Updated
    PROVE  Reading'
<1>1. PICK n \in DOMAIN sent' :
         /\ DOMAIN sent' \ DOMAIN sent \subseteq {n} /\ sent'[n].chat \in Bots
         /\ Process(sent'[n], n)
  BY DEF Updated
<1>2. Grows /\ crashes' = crashes /\ MessagesSound'
  BY DEF Updated, Sound
<1>3. CASE sent'[n].id \in recent \cup seen
  <2>1. UNCHANGED <<recent, seen, buffer, awaited, rows, faults, crashes>>
    BY <1>1, <1>2, <1>3 DEF Process, SeenBefore
  <2> QED  BY <1>1, <1>2, <1>3, <2>1, AgainReads
<1>4. CASE sent'[n].id \notin recent \cup seen
  <2>1. Fresh(n) /\ Dispatch(sent'[n], n)
    BY <1>1, <1>2, <1>4 DEF Process, SeenBefore, Fresh
  <2>2. Dispatched(n)
    <3>1. CASE sent'[n].kind \in {"command", "help"} /\ OnInbound(Event(sent'[n], <<n>>))
               /\ UNCHANGED <<buffer, awaited>>
      <4>1. PICK e : e = Event(sent'[n], <<n>>)
        OBVIOUS
      <4>2. e \in Events /\ e.parts = <<n>> /\ Range(e.parts) = {n}
        <5>1. PICK S \in Seq(Messages) : S = sent' /\ Len(S) <= MaxMessages
          BY <1>2 DEF Grows, MessagesSound
        <5>2. n \in DOMAIN S /\ e = Event(S[n], <<n>>)
          BY <4>1, <5>1
        <5>3. e \in Events /\ e.parts = <<n>>
          BY <5>1, <5>2, AloneIsEvent
        <5>4. Range(e.parts) = {n}
          BY <5>1, <5>2, AloneIsEvent
        <5> QED  BY <5>3, <5>4
      <4>3. \A a \in Agents : rows'[a] = rows[a] \/ Gets(a, e, members)
        BY <3>1, <4>1, <4>2, InboundSpreads DEF Sound, Spread
      <4>4. sent'[n].kind # "text"
        BY <3>1
      <4> QED  BY <3>1, <4>2, <4>3, <4>4 DEF Dispatched
    <3> QED  BY <2>1, <3>1 DEF Dispatch, Dispatched, Pushed
  <2> QED  BY <1>2, <2>1, <2>2, FreshReads
<1> QED  BY <1>3, <1>4

LEMMA ReadingNext ==
    ASSUME Sound, Sound', Reading, [Next]_vars
    PROVE  Reading'
<1>1. CASE ChatInbound
  <2>1. PICK e : Genuine(e)' /\ OnInbound(e) /\ e.chat \notin Bots
    BY <1>1 DEF ChatInbound
  <2>2. e \in Events
    BY <2>1 DEF Genuine
  <2>3. \A a \in Agents : rows'[a] = rows[a] \/ Gets(a, e, members)
    BY <2>1, <2>2, InboundSpreads DEF Sound, Spread
  <2>4. Elsewhere
    BY <1>1, <2>1, <2>3 DEF ChatInbound, Elsewhere
  <2> QED  BY <2>4, ElsewhereReads
<1>2. CASE GroupOnly
  <2>1. Grows
    BY <1>2, NothingSent DEF GroupOnly
  <2>2. Elsewhere
    BY <1>2, <2>1, ConstantsTyped DEF GroupOnly, Elsewhere
  <2> QED  BY <2>2, ElsewhereReads
<1> QED  BY <1>1, <1>2, Shapes, UpdatedReads, RestartReads, FlushReads, FetchedReads

(* What the agents read of the Telegram chats is paid for, in order and     *)
(* complete, through the buffers, the copies and the restarts.              *)
THEOREM ReadingIsSound == Spec => []Reading
<1>1. Init => Reading
  <2> SUFFICES ASSUME Init PROVE Reading
    OBVIOUS
  <2>1. PICK s : s = <<>>
    OBVIOUS
  <2>2. DOMAIN s = {} /\ Range(s) = {}
    BY <2>1 DEF Range
  <2>3. /\ sent = s /\ rows = [a \in Agents |-> s] /\ buffer = [b \in Bots |-> s]
        /\ recent = {} /\ seen = {} /\ awaited = {}
    BY <2>1 DEF Init
  <2>4. \A a \in Agents : ReadBy(a) = {}
    BY <2>2, <2>3 DEF ReadBy
  <2>5. UpdatesRemembered /\ ReadsArePaid
    BY <2>2, <2>3 DEF UpdatesRemembered, ReadsArePaid
  <2>6. OnceInALife
    BY <2>4 DEF OnceInALife
  <2>7. BuffersInOrder
    BY <2>2, <2>3 DEF BuffersInOrder
  <2>8. TextsInOrder
    <3>1. \A b \in Bots : DOMAIN rows[Wired[b][1]] = {}
      BY <2>2, <2>3, BotsAgent
    <3> QED  BY <3>1, OrderIs
  <2>9. TextIsNotLost
    BY <2>2, <2>3, NotLostIs
  <2> QED  BY <2>5, <2>6, <2>7, <2>8, <2>9 DEF Reading
<1>2. Sound /\ Sound' /\ Reading /\ [Next]_vars => Reading'
  BY ReadingNext
<1> QED  BY <1>1, <1>2, EventsAreGenuine, PTL DEF Spec

(* The texts of a founder reach the agent, in the order they came, through  *)
(* the debouncer's buffer, the restarts and the copies (processUpdate,      *)
(* push, flush).                                                            *)
THEOREM FoundersTextsAreRead == Spec => []TextsAreRead
<1>1. Reading => TextsAreRead
  BY DEF Reading, TextsAreRead
<1> QED  BY <1>1, ReadingIsSound, PTL

(* However often an update, a message of the group or of the dashboard is   *)
(* repeated, no agent reads it twice, but once more for every update whose  *)
(* number could not be stored (the update dedup, the ids of the rows).      *)
THEOREM NoAgentReadsTwice == Spec => []OncePerAgent
<1>1. Sound /\ Reading => OncePerAgent
  <2> SUFFICES ASSUME Sound, Reading, NEW a \in Agents, NEW n \in Numbers
               PROVE  Cardinality(RowsWith(a, n)) <= 1 + faults
    BY DEF OncePerAgent, Sound, RowsWith
  <2>1. PICK c \in Nat : c = Cardinality(RowsWith(a, n))
    BY RowsFinite DEF Sound
  <2>2. PICK f \in Nat : f = faults
    BY ConstantsTyped DEF Sound, TypeOK
  <2>3. CASE n \notin DOMAIN sent
    <3>1. RowsWith(a, n) = {}
      BY <2>3, ReadWasSent DEF RowsWith
    <3>2. c = 0
      BY <2>1, <3>1, FS_EmptySet
    <3> QED  BY <2>1, <2>2, <3>2
  <2>4. CASE n \in DOMAIN sent /\ sent[n].chat \in Bots
    <3>1. Reads(a, n) <= Paid(n)
      BY <2>4 DEF Reading, ReadsArePaid
    <3>2. Reads(a, n) = c + 1 \/ Reads(a, n) = c + 0
      BY <2>1 DEF Reads
    <3>3. Paid(n) = f + 1 \/ Paid(n) = f + 0
      BY <2>2 DEF Paid
    <3>4. c <= 1 + f
      BY <3>1, <3>2, <3>3
    <3> QED  BY <2>1, <2>2, <3>4
  <2>5. CASE n \in DOMAIN sent /\ sent[n].chat \notin Bots
    <3>1. ASSUME NEW i \in RowsWith(a, n) PROVE rows[a][i].event.key = KeyOf(sent[n])
      <4>1. i \in DOMAIN rows[a] /\ n \in Range(rows[a][i].event.parts)
        BY DEF RowsWith
      <4>2. Genuine(rows[a][i].event) /\ rows[a][i].event.chat \notin Bots
        BY <2>5, <4>1, ReadWasSent DEF Sound, EventsGenuine
      <4>3. PICK ps \in Seq(Numbers) : ps = rows[a][i].event.parts /\ Len(ps) = 1
        BY <4>2 DEF Genuine, Events
      <4>4. Last(ps) = n
        BY <4>1, <4>3 DEF Last, Range
      <4> QED  BY <4>2, <4>3, <4>4 DEF Genuine
    <3>2. ASSUME NEW i \in RowsWith(a, n), NEW k \in RowsWith(a, n) PROVE i = k
      BY <3>1, <3>2 DEF RowsWith, Sound, KeysOnce
    <3>3. c = 0 \/ c = 1
      <4>1. CASE RowsWith(a, n) = {}
        BY <2>1, <4>1, FS_EmptySet
      <4>2. ASSUME NEW i \in RowsWith(a, n) PROVE c = 1
        <5>1. RowsWith(a, n) = {i}
          BY <3>2
        <5>2. Cardinality({i}) = 1
          BY FS_Singleton
        <5> QED  BY <2>1, <5>1, <5>2
      <4> QED  BY <4>1, <4>2
    <3> QED  BY <2>1, <2>2, <3>3
  <2> QED  BY <2>3, <2>4, <2>5
<1> QED  BY <1>1, EventsAreGenuine, ReadingIsSound, PTL
=============================================================================
