----------------------------- MODULE BotPoolProofs -----------------------------
(***************************************************************************)
(* Proofs about BotPool for any sets of bots, groups, founders, calls and  *)
(* secrets.                                                                *)
(***************************************************************************)
EXTENDS BotPool, FiniteSetTheorems, TLAPS

(* A bot somebody uses or registers has a row. *)
RowExists ==
    /\ \A g \in Groups : assigned[g] # None => bot[assigned[g]].state # "absent"
    /\ \A c \in Calls : call[c].at # "free" => bot[call[c].bot].state # "absent"

(* A call that is alone is the only one of its bot, carries the secret of   *)
(* the row, and has brought it to Telegram once landed.                     *)
AloneCalls ==
    \A c \in Calls :
        (call[c].at # "free" /\ call[c].alone) =>
            /\ \A d \in Calls : call[d].bot = call[c].bot => d = c
            /\ call[c].secret = bot[call[c].bot].secret
            /\ call[c].at = "landed" => wire[call[c].bot] = call[c].secret

(* A bind that still awaits found an unregistered row: if it is registered  *)
(* by now, another call has done it.                                        *)
HeldCalls ==
    \A c \in Calls :
        call[c].at = "held" =>
            ~bot[call[c].bot].registered \/ call[c].bot \in disturbed

Heard == HeardUnlessDisturbed
Registration == RowExists /\ AloneCalls /\ HeldCalls /\ Heard

-----------------------------------------------------------------------------
(* Types *)

LEMMA SeededType ==
    ASSUME NEW row \in {Absent} \cup [state : {"active", "retired"}, secret : Secrets,
                                      registered : BOOLEAN],
           NEW s \in Secrets
    PROVE  /\ Seeded(row, s) \in [state : {"active", "retired"}, secret : Secrets,
                                  registered : BOOLEAN]
           /\ Seeded(row, s).secret = s
           /\ Seeded(row, s).registered = row.registered
<1>1. row.state \in {"absent", "active", "retired"} /\ row.registered \in BOOLEAN
  <2>1. CASE row = Absent
    BY <2>1 DEF Absent
  <2>2. CASE row \in [state : {"active", "retired"}, secret : Secrets, registered : BOOLEAN]
    BY <2>2
  <2> QED  BY <2>1, <2>2
<1> QED  BY <1>1 DEF Seeded

(* Registering keeps the types of the calls. *)
LEMMA RegisterType ==
    ASSUME TypeOK, NEW c \in Calls, NEW b \in Bots, NEW s \in Secrets,
           NEW at \in {"sent", "held"}, Register(c, b, s, at)
    PROVE  call' \in [Calls -> {FreeCall} \cup [at : {"held", "sent", "landed"}, bot : Bots,
                                                secret : Secrets, alone : BOOLEAN]]
<1> DEFINE New == [at |-> at, bot |-> b, secret |-> s, alone |-> Open(b) = {}]
           Row == [at : {"held", "sent", "landed"}, bot : Bots, secret : Secrets,
                   alone : BOOLEAN]
<1>1. New \in Row
  OBVIOUS
<1>2. ASSUME NEW d \in Calls, d \in Open(b)
      PROVE  [call[d] EXCEPT !.alone = FALSE] \in Row
  <2>1. call[d] \in Row
    BY <1>2, NoneAssumption DEF Open, TypeOK, FreeCall
  <2> QED  BY <2>1
<1> QED
  BY <1>1, <1>2 DEF TypeOK, Register

(* A row that is not absent has a secret. *)
LEMMA RowSecret ==
    ASSUME TypeOK, NEW b \in Bots, bot[b].state # "absent"
    PROVE  bot[b].secret \in Secrets
BY DEF TypeOK, Absent

LEMMA ChosenRow ==
    ASSUME TypeOK, RowExists, NEW g \in Groups, NEW b \in Choices(g)
    PROVE  b \in Bots /\ bot[b].state # "absent"
BY DEF TypeOK, RowExists, Choices, Candidates, Active

LEMMA InitType == Init => TypeOK
BY BoundAssumption DEF Init, TypeOK

LEMMA AcquireType ==
    ASSUME TypeOK, RowExists, NEW g \in Groups, NEW b \in Bots, NEW c \in Calls,
           NEW at \in {"sent", "held"}, Acquire(g, b, c, at)
    PROVE  TypeOK'
<1>1. assigned' \in [Groups -> Bots \cup {None}]
  BY DEF TypeOK, Acquire
<1>2. scarce' \subseteq Users
  BY OwnerAssumption DEF TypeOK, Acquire
<1>3. call' \in [Calls -> {FreeCall} \cup [at : {"held", "sent", "landed"}, bot : Bots,
                                           secret : Secrets, alone : BOOLEAN]]
  <2>1. bot[b].secret \in Secrets
    BY ChosenRow, RowSecret DEF Acquire
  <2>2. CASE NeedsWebhook(b)
    BY <2>1, <2>2, RegisterType DEF Acquire
  <2>3. CASE ~NeedsWebhook(b)
    BY <2>3 DEF TypeOK, Acquire
  <2> QED  BY <2>2, <2>3
<1> QED
  BY <1>1, <1>2, <1>3 DEF TypeOK, Acquire

(* A step of a call: it goes on, or ends and is free again. *)
LEMMA CallType ==
    ASSUME TypeOK, NEW c \in Calls
    PROVE  /\ [call EXCEPT ![c] = FreeCall] \in
                [Calls -> {FreeCall} \cup [at : {"held", "sent", "landed"}, bot : Bots,
                                          secret : Secrets, alone : BOOLEAN]]
           /\ call[c].at # "free" =>
                /\ call[c] \in [at : {"held", "sent", "landed"}, bot : Bots,
                               secret : Secrets, alone : BOOLEAN]
                /\ \A a \in {"sent", "landed"} :
                     [call EXCEPT ![c].at = a] \in
                        [Calls -> {FreeCall} \cup [at : {"held", "sent", "landed"}, bot : Bots,
                                                  secret : Secrets, alone : BOOLEAN]]
<1>1. call[c].at # "free" =>
          call[c] \in [at : {"held", "sent", "landed"}, bot : Bots,
                       secret : Secrets, alone : BOOLEAN]
  BY DEF TypeOK, FreeCall
<1> QED  BY <1>1 DEF TypeOK

LEMMA TypeStep == TypeOK /\ RowExists /\ [Next]_vars => TypeOK'
<1> SUFFICES ASSUME TypeOK, RowExists, [Next]_vars PROVE TypeOK'
  OBVIOUS
<1>1. ASSUME NEW b \in Bots, NEW s \in Secrets, NEW c \in Calls, Seed(b, s, c)
      PROVE  TypeOK'
  <2>1. Seeded(bot[b], s) \in [state : {"active", "retired"}, secret : Secrets,
                               registered : BOOLEAN]
    BY SeededType DEF TypeOK
  <2>2. call' \in [Calls -> {FreeCall} \cup [at : {"held", "sent", "landed"}, bot : Bots,
                                             secret : Secrets, alone : BOOLEAN]]
    BY <1>1, RegisterType DEF Seed
  <2> QED  BY <1>1, <2>1, <2>2 DEF TypeOK, Seed
<1>2. ASSUME NEW S \in SUBSET Bots, NEW s \in Secrets, SeedFromEnv(S, s)
      PROVE  TypeOK'
  <2>1. \A b \in Bots : Seeded(bot[b], s) \in
            [state : {"active", "retired"}, secret : Secrets, registered : BOOLEAN]
    BY SeededType DEF TypeOK
  <2> QED  BY <1>2, <2>1 DEF TypeOK, SeedFromEnv
<1>3. ASSUME NEW b \in Bots, Retire(b) PROVE TypeOK'
  BY <1>3 DEF TypeOK, Retire, Absent
<1>4. ASSUME NEW g \in Groups, NEW b \in Bots, NEW c \in Calls,
             NEW at \in {"sent", "held"}, Acquire(g, b, c, at)
      PROVE  TypeOK'
  BY <1>4, AcquireType
<1>5. ASSUME NEW g \in Groups, Release(g) PROVE TypeOK'
  BY <1>5 DEF TypeOK, Release
<1>6. ASSUME NEW c \in Calls, Sends(c) PROVE TypeOK'
  BY <1>6, CallType DEF TypeOK, Sends
<1>7. ASSUME NEW c \in Calls, Drops(c) PROVE TypeOK'
  BY <1>7, CallType DEF TypeOK, Drops, Ended
<1>8. ASSUME NEW c \in Calls, Lands(c) PROVE TypeOK'
  <2>1. call[c].secret \in Secrets /\ call[c].bot \in Bots
    BY <1>8, CallType DEF Lands
  <2> QED  BY <1>8, <2>1, CallType DEF TypeOK, Lands
<1>9. ASSUME NEW c \in Calls, Succeeds(c) PROVE TypeOK'
  <2>1. call[c].bot \in Bots
    BY <1>9, CallType DEF Succeeds
  <2>2. bot[call[c].bot].state # "absent"
    BY <1>9 DEF Succeeds, RowExists
  <2>3. bot' \in [Bots -> {Absent} \cup [state : {"active", "retired"}, secret : Secrets,
                                         registered : BOOLEAN]]
    <3> DEFINE row == bot[call[c].bot]
    <3>1. row \in [state : {"active", "retired"}, secret : Secrets, registered : BOOLEAN]
      BY <2>1, <2>2 DEF TypeOK, Absent
    <3>2. [row EXCEPT !.registered = TRUE] \in
              [state : {"active", "retired"}, secret : Secrets, registered : BOOLEAN]
      BY <3>1
    <3> QED  BY <1>9, <2>1, <3>2 DEF TypeOK, Succeeds, Stamped
  <2>4. disturbed' \subseteq Bots
    BY <1>9, <2>1 DEF TypeOK, Succeeds, Ended
  <2> QED  BY <1>9, <2>3, <2>4, CallType DEF TypeOK, Succeeds
<1>10. ASSUME NEW c \in Calls, Fails(c) PROVE TypeOK'
  <2>1. call[c].bot \in Bots
    BY <1>10, CallType DEF Fails
  <2>2. faults' \in 0..MaxFaults
    BY <1>10, BoundAssumption DEF TypeOK, Fails, Fault
  <2> QED  BY <1>10, <2>1, <2>2, CallType DEF TypeOK, Fails
<1>11. ASSUME Restart PROVE TypeOK'
  <2>1. faults' \in 0..MaxFaults
    BY <1>11, BoundAssumption DEF TypeOK, Restart, Fault
  <2>2. disturbed' \subseteq Bots
    BY <1>11 DEF TypeOK, Restart, FreeCall
  <2> QED  BY <1>11, <2>1, <2>2 DEF TypeOK, Restart
<1>12. CASE UNCHANGED vars
  BY <1>12 DEF TypeOK, vars
<1> QED
  BY <1>1, <1>2, <1>3, <1>4, <1>5, <1>6, <1>7, <1>8, <1>9, <1>10, <1>11, <1>12 DEF Next

-----------------------------------------------------------------------------
(* Registration *)

(* A call is free exactly when it belongs to no bot. *)
LEMMA FreeIff ==
    ASSUME TypeOK, NEW c \in Calls
    PROVE  /\ call[c].at = "free" <=> call[c].bot \notin Bots
           /\ call[c].at \in {"free", "held", "sent", "landed"}
           /\ call[c].alone \in BOOLEAN
<1>1. CASE call[c] = FreeCall
  BY <1>1, NoneAssumption DEF FreeCall
<1>2. CASE call[c] \in [at : {"held", "sent", "landed"}, bot : Bots, secret : Secrets,
                        alone : BOOLEAN]
  BY <1>2
<1> QED  BY <1>1, <1>2 DEF TypeOK

(* What registering does to the calls. *)
LEMMA RegisterEffect ==
    ASSUME TypeOK, NEW c \in Calls, NEW b \in Bots, NEW s \in Secrets,
           NEW at \in {"sent", "held"}, Register(c, b, s, at)
    PROVE  /\ call[c].at = "free"
           /\ call'[c].at = at /\ call'[c].bot = b /\ call'[c].secret = s
           /\ call'[c].alone => Open(b) = {}
           /\ \A d \in Calls \ {c} :
                /\ call'[d].at = call[d].at
                /\ call'[d].bot = call[d].bot
                /\ call'[d].secret = call[d].secret
                /\ call'[d].alone => call[d].alone /\ call[d].bot # b
<1>1. ASSUME NEW d \in Calls, d \in Open(b)
      PROVE  LET n == [call[d] EXCEPT !.alone = FALSE]
             IN  n.at = call[d].at /\ n.bot = call[d].bot /\ n.secret = call[d].secret
                 /\ ~n.alone
  <2>1. call[d] \in [at : {"held", "sent", "landed"}, bot : Bots, secret : Secrets,
                     alone : BOOLEAN]
    BY <1>1, NoneAssumption DEF Open, TypeOK, FreeCall
  <2> QED  BY <2>1
<1> QED  BY <1>1 DEF Register, Open

LEMMA NewCall ==
    ASSUME TypeOK, NEW c \in Calls, NEW b \in Bots, NEW s \in Secrets,
           NEW at \in {"sent", "held"}, Register(c, b, s, at)
    PROVE  \A d \in Calls : call'[d].at # "free" =>
               \/ call'[d].bot = b
               \/ call[d].at # "free" /\ call'[d].bot = call[d].bot
<1>1. call'[c].bot = b
  BY RegisterEffect
<1> QED  BY <1>1, RegisterEffect

LEMMA Freed ==
    ASSUME TypeOK, NEW c \in Calls, call' = [call EXCEPT ![c] = FreeCall]
    PROVE  /\ call'[c].at = "free" /\ call'[c].bot = None
           /\ \A d \in Calls \ {c} : call'[d] = call[d]
BY DEF TypeOK, FreeCall

LEMMA MovesOn ==
    ASSUME TypeOK, NEW c \in Calls, NEW a, call[c].at # "free",
           call' = [call EXCEPT ![c].at = a]
    PROVE  /\ call'[c].at = a /\ call'[c].bot = call[c].bot
           /\ call'[c].secret = call[c].secret /\ call'[c].alone = call[c].alone
           /\ \A d \in Calls \ {c} : call'[d] = call[d]
<1>1. call[c] \in [at : {"held", "sent", "landed"}, bot : Bots, secret : Secrets,
                   alone : BOOLEAN]
  BY CallType
<1> QED  BY <1>1 DEF TypeOK

(* The stamp changes nothing else. *)
LEMMA StampEffect ==
    ASSUME TypeOK, NEW b \in Bots, bot[b].state # "absent", bot' = Stamped(b)
    PROVE  /\ bot'[b].registered /\ bot'[b].state = bot[b].state
           /\ bot'[b].secret = bot[b].secret
           /\ \A d \in Bots \ {b} : bot'[d] = bot[d]
<1>1. bot[b] \in [state : {"active", "retired"}, secret : Secrets, registered : BOOLEAN]
  BY DEF TypeOK, Absent
<1> QED  BY <1>1 DEF TypeOK, Stamped

LEMMA RetireEffect ==
    ASSUME TypeOK, NEW b \in Bots, Retire(b)
    PROVE  /\ bot'[b].state = "retired" /\ bot'[b].secret = bot[b].secret
           /\ bot'[b].registered = bot[b].registered
           /\ \A d \in Bots \ {b} : bot'[d] = bot[d]
<1>1. bot[b] \in [state : {"active", "retired"}, secret : Secrets, registered : BOOLEAN]
  BY DEF TypeOK, Absent, Retire
<1> QED  BY <1>1 DEF TypeOK, Retire

LEMMA SeededState == \A row, s : Seeded(row, s).state # "absent"
BY DEF Seeded

(* No call is open while the table is empty. *)
LEMMA EmptyTable ==
    ASSUME TypeOK, RowExists, \A b \in Bots : bot[b].state = "absent"
    PROVE  /\ \A c \in Calls : call[c].at = "free"
           /\ \A b \in Bots : ~bot[b].registered
<1>1. \A c \in Calls : call[c].at = "free"
  BY FreeIff DEF RowExists
<1>2. \A b \in Bots : ~bot[b].registered
  BY DEF TypeOK, Absent
<1> QED  BY <1>1, <1>2

LEMMA RowStep == TypeOK /\ RowExists /\ [Next]_vars => RowExists'
<1> SUFFICES ASSUME TypeOK, RowExists, [Next]_vars PROVE RowExists'
  OBVIOUS
<1>1. ASSUME NEW b \in Bots, NEW s \in Secrets, NEW c \in Calls, Seed(b, s, c)
      PROVE  RowExists'
  <2>1. \A d \in Bots : bot[d].state # "absent" \/ d = b => bot'[d].state # "absent"
    BY <1>1, SeededState DEF Seed, TypeOK
  <2>2. \A d \in Calls : call'[d].at # "free" =>
            call'[d].bot = b \/ (call[d].at # "free" /\ call'[d].bot = call[d].bot)
    <3>1. Register(c, b, s, "sent")
      BY <1>1 DEF Seed
    <3> QED  BY <3>1, NewCall
  <2>3. \A d \in Calls : call[d].at # "free" => call[d].bot \in Bots
    BY FreeIff
  <2> QED  BY <1>1, <2>1, <2>2, <2>3 DEF RowExists, Seed, TypeOK
<1>2. ASSUME NEW S \in SUBSET Bots, NEW s \in Secrets, SeedFromEnv(S, s)
      PROVE  RowExists'
  <2>1. \A c \in Calls : call[c].at = "free"
    BY <1>2, EmptyTable DEF SeedFromEnv
  <2>2. \A g \in Groups : assigned[g] = None
    BY <1>2 DEF SeedFromEnv, RowExists, TypeOK
  <2> QED  BY <1>2, <2>1, <2>2 DEF RowExists, SeedFromEnv
<1>3. ASSUME NEW b \in Bots, Retire(b) PROVE RowExists'
  <2>1. \A d \in Bots : bot[d].state # "absent" => bot'[d].state # "absent"
    BY <1>3, RetireEffect
  <2>2. \A d \in Calls : call[d].at # "free" => call[d].bot \in Bots
    BY FreeIff
  <2> QED  BY <1>3, <2>1, <2>2 DEF RowExists, Retire, TypeOK
<1>4. ASSUME NEW g \in Groups, NEW b \in Bots, NEW c \in Calls,
             NEW at \in {"sent", "held"}, Acquire(g, b, c, at)
      PROVE  RowExists'
  <2>1. bot[b].state # "absent"
    BY <1>4, ChosenRow DEF Acquire
  <2>2. \A d \in Calls : call'[d].at # "free" =>
            call'[d].bot = b \/ (call[d].at # "free" /\ call'[d].bot = call[d].bot)
    <3>1. Register(c, b, bot[b].secret, at) \/ UNCHANGED call
      BY <1>4 DEF Acquire
    <3>2. CASE Register(c, b, bot[b].secret, at)
      BY <2>1, <3>2, RowSecret, NewCall
    <3>3. CASE UNCHANGED call
      BY <3>3
    <3> QED  BY <3>1, <3>2, <3>3
  <2> QED  BY <1>4, <2>1, <2>2 DEF RowExists, Acquire, TypeOK
<1>5. ASSUME NEW g \in Groups, Release(g) PROVE RowExists'
  BY <1>5 DEF RowExists, Release, TypeOK
<1>6. ASSUME NEW c \in Calls, Sends(c) PROVE RowExists'
  BY <1>6, MovesOn DEF RowExists, Sends
<1>7. ASSUME NEW c \in Calls, Drops(c) PROVE RowExists'
  BY <1>7, Freed DEF RowExists, Drops
<1>8. ASSUME NEW c \in Calls, Lands(c) PROVE RowExists'
  BY <1>8, MovesOn DEF RowExists, Lands
<1>9. ASSUME NEW c \in Calls, Succeeds(c) PROVE RowExists'
  <2>1. call[c].bot \in Bots /\ bot[call[c].bot].state # "absent"
    BY <1>9, FreeIff DEF Succeeds, RowExists
  <2>2. \A b \in Bots : bot'[b].state = bot[b].state
    BY <1>9, <2>1, StampEffect DEF Succeeds
  <2>3. \A d \in Calls : call'[d].at # "free" => call'[d] = call[d] /\ call[d].bot \in Bots
    BY <1>9, Freed, FreeIff DEF Succeeds
  <2> QED  BY <1>9, <2>2, <2>3 DEF RowExists, Succeeds, TypeOK
<1>10. ASSUME NEW c \in Calls, Fails(c) PROVE RowExists'
  BY <1>10, Freed DEF RowExists, Fails
<1>11. ASSUME Restart PROVE RowExists'
  BY <1>11 DEF RowExists, Restart, FreeCall
<1>12. CASE UNCHANGED vars
  BY <1>12 DEF RowExists, vars
<1> QED
  BY <1>1, <1>2, <1>3, <1>4, <1>5, <1>6, <1>7, <1>8, <1>9, <1>10, <1>11, <1>12 DEF Next

(* Registering keeps AloneCalls, when the secret is the new one of the row. *)
LEMMA AloneRegister ==
    ASSUME TypeOK, AloneCalls, NEW c \in Calls, NEW b \in Bots, NEW s \in Secrets,
           NEW at \in {"sent", "held"}, Register(c, b, s, at),
           bot'[b].secret = s, UNCHANGED wire,
           \A d \in Bots \ {b} : bot'[d].secret = bot[d].secret
    PROVE  AloneCalls'
<1> SUFFICES ASSUME NEW d \in Calls, call'[d].at # "free", call'[d].alone
             PROVE  /\ \A e \in Calls : call'[e].bot = call'[d].bot => e = d
                    /\ call'[d].secret = bot'[call'[d].bot].secret
                    /\ call'[d].at = "landed" => wire'[call'[d].bot] = call'[d].secret
  BY DEF AloneCalls
<1>1. CASE d = c
  <2>1. call'[d].at = at /\ call'[d].bot = b /\ call'[d].secret = s /\ Open(b) = {}
    BY <1>1, RegisterEffect
  <2>2. \A e \in Calls \ {c} : call'[e].bot # b
    <3>1. \A e \in Calls : call[e].bot # b
      BY <2>1 DEF Open
    <3> QED  BY <3>1, RegisterEffect
  <2> QED  BY <1>1, <2>1, <2>2
<1>2. CASE d # c
  <2>1. /\ call'[d].at = call[d].at /\ call'[d].bot = call[d].bot
        /\ call'[d].secret = call[d].secret /\ call[d].alone /\ call[d].bot # b
    BY <1>2, RegisterEffect
  <2>2. call[d].bot \in Bots
    BY <2>1, FreeIff
  <2>3. \A e \in Calls : call'[e].bot = call[d].bot => e = d
    <3>1. \A e \in Calls : call[e].bot = call[d].bot => e = d
      BY <2>1 DEF AloneCalls
    <3>2. call'[c].bot = b
      BY RegisterEffect
    <3>3. \A e \in Calls \ {c} : call'[e].bot = call[e].bot
      BY RegisterEffect
    <3> QED  BY <2>1, <3>1, <3>2, <3>3
  <2> QED  BY <2>1, <2>2, <2>3 DEF AloneCalls
<1> QED  BY <1>1, <1>2

(* So does ending a call, when no secret changes. *)
LEMMA AloneFreed ==
    ASSUME TypeOK, AloneCalls, NEW c \in Calls, call' = [call EXCEPT ![c] = FreeCall],
           \A b \in Bots : bot'[b].secret = bot[b].secret, UNCHANGED wire
    PROVE  AloneCalls'
<1> SUFFICES ASSUME NEW d \in Calls, call'[d].at # "free", call'[d].alone
             PROVE  /\ \A e \in Calls : call'[e].bot = call'[d].bot => e = d
                    /\ call'[d].secret = bot'[call'[d].bot].secret
                    /\ call'[d].at = "landed" => wire'[call'[d].bot] = call'[d].secret
  BY DEF AloneCalls
<1>1. d # c /\ call'[d] = call[d]
  BY Freed
<1>2. call[d].bot \in Bots
  BY <1>1, FreeIff
<1>3. \A e \in Calls : call'[e].bot = call[d].bot => call[e].bot = call[d].bot
  <2>1. call'[c].bot = None
    BY Freed
  <2>2. \A e \in Calls \ {c} : call'[e] = call[e]
    BY Freed
  <2> QED  BY <1>2, <2>1, <2>2, NoneAssumption
<1> QED  BY <1>1, <1>2, <1>3 DEF AloneCalls

LEMMA AloneStep == TypeOK /\ RowExists /\ AloneCalls /\ [Next]_vars => AloneCalls'
<1> SUFFICES ASSUME TypeOK, RowExists, AloneCalls, [Next]_vars PROVE AloneCalls'
  OBVIOUS
<1>1. ASSUME NEW b \in Bots, NEW s \in Secrets, NEW c \in Calls, Seed(b, s, c)
      PROVE  AloneCalls'
  <2>1. bot'[b].secret = s /\ \A d \in Bots \ {b} : bot'[d].secret = bot[d].secret
    BY <1>1, SeededType DEF Seed, TypeOK
  <2>2. Register(c, b, s, "sent") /\ UNCHANGED wire
    BY <1>1 DEF Seed
  <2> QED  BY <2>1, <2>2, AloneRegister
<1>2. ASSUME NEW S \in SUBSET Bots, NEW s \in Secrets, SeedFromEnv(S, s)
      PROVE  AloneCalls'
  <2>1. \A c \in Calls : call[c].at = "free"
    BY <1>2, EmptyTable DEF SeedFromEnv
  <2> QED  BY <1>2, <2>1 DEF AloneCalls, SeedFromEnv
<1>3. ASSUME NEW b \in Bots, Retire(b) PROVE AloneCalls'
  <2>1. \A d \in Bots : bot'[d].secret = bot[d].secret
    BY <1>3, RetireEffect
  <2>2. \A c \in Calls : call[c].at # "free" => call[c].bot \in Bots
    BY FreeIff
  <2> QED  BY <1>3, <2>1, <2>2 DEF AloneCalls, Retire
<1>4. ASSUME NEW g \in Groups, NEW b \in Bots, NEW c \in Calls,
             NEW at \in {"sent", "held"}, Acquire(g, b, c, at)
      PROVE  AloneCalls'
  <2>1. CASE Register(c, b, bot[b].secret, at)
    <3>1. bot[b].secret \in Secrets
      BY <1>4, ChosenRow, RowSecret DEF Acquire
    <3>2. UNCHANGED <<bot, wire>>
      BY <1>4 DEF Acquire
    <3> QED  BY <2>1, <3>1, <3>2, AloneRegister
  <2>2. CASE UNCHANGED call
    BY <1>4, <2>2 DEF AloneCalls, Acquire
  <2> QED  BY <1>4, <2>1, <2>2 DEF Acquire
<1>5. ASSUME NEW g \in Groups, Release(g) PROVE AloneCalls'
  BY <1>5 DEF AloneCalls, Release
<1>6. ASSUME NEW c \in Calls, Sends(c) PROVE AloneCalls'
  BY <1>6, MovesOn DEF AloneCalls, Sends
<1>7. ASSUME NEW c \in Calls, Drops(c) PROVE AloneCalls'
  BY <1>7, AloneFreed DEF Drops
<1>8. ASSUME NEW c \in Calls, Lands(c) PROVE AloneCalls'
  <2> SUFFICES ASSUME NEW d \in Calls, call'[d].at # "free", call'[d].alone
               PROVE  /\ \A e \in Calls : call'[e].bot = call'[d].bot => e = d
                      /\ call'[d].secret = bot'[call'[d].bot].secret
                      /\ call'[d].at = "landed" => wire'[call'[d].bot] = call'[d].secret
    BY DEF AloneCalls
  <2>1. /\ call[d].alone /\ call[d].at # "free" /\ call[d].bot \in Bots
        /\ call'[d].bot = call[d].bot /\ call'[d].secret = call[d].secret
        /\ d # c => call'[d].at = call[d].at
        /\ \A e \in Calls : call'[e].bot = call[e].bot
    BY <1>8, MovesOn, FreeIff DEF Lands
  <2>2. /\ \A e \in Calls : call[e].bot = call[d].bot => e = d
        /\ call[d].secret = bot[call[d].bot].secret
        /\ call[d].at = "landed" => wire[call[d].bot] = call[d].secret
    BY <2>1 DEF AloneCalls
  <2>3. CASE d = c
    BY <1>8, <2>1, <2>2, <2>3 DEF Lands, TypeOK
  <2>4. CASE d # c
    BY <1>8, <2>1, <2>2, <2>4 DEF Lands, TypeOK
  <2> QED  BY <2>3, <2>4
<1>9. ASSUME NEW c \in Calls, Succeeds(c) PROVE AloneCalls'
  <2>1. call[c].bot \in Bots /\ bot[call[c].bot].state # "absent"
    BY <1>9, FreeIff DEF Succeeds, RowExists
  <2>2. \A b \in Bots : bot'[b].secret = bot[b].secret
    BY <1>9, <2>1, StampEffect DEF Succeeds
  <2> QED  BY <1>9, <2>2, AloneFreed DEF Succeeds
<1>10. ASSUME NEW c \in Calls, Fails(c) PROVE AloneCalls'
  BY <1>10, AloneFreed DEF Fails
<1>11. ASSUME Restart PROVE AloneCalls'
  BY <1>11 DEF AloneCalls, Restart, FreeCall
<1>12. CASE UNCHANGED vars
  BY <1>12 DEF AloneCalls, vars
<1> QED
  BY <1>1, <1>2, <1>3, <1>4, <1>5, <1>6, <1>7, <1>8, <1>9, <1>10, <1>11, <1>12 DEF Next

LEMMA HeldStep == TypeOK /\ RowExists /\ AloneCalls /\ HeldCalls /\ [Next]_vars => HeldCalls'
<1> SUFFICES ASSUME TypeOK, RowExists, AloneCalls, HeldCalls, [Next]_vars
             PROVE  HeldCalls'
  OBVIOUS
<1> USE FreeIff
<1>1. ASSUME NEW b \in Bots, NEW s \in Secrets, NEW c \in Calls, Seed(b, s, c)
      PROVE  HeldCalls'
  <2>1. Register(c, b, s, "sent") /\ UNCHANGED disturbed
    BY <1>1 DEF Seed
  <2>2. \A d \in Bots : bot'[d].registered = bot[d].registered
    BY <1>1, SeededType DEF Seed, TypeOK
  <2>3. \A d \in Calls : call'[d].at = "held" =>
            call[d].at = "held" /\ call'[d].bot = call[d].bot
    BY <2>1, RegisterEffect
  <2> QED  BY <2>1, <2>2, <2>3 DEF HeldCalls
<1>2. ASSUME NEW S \in SUBSET Bots, NEW s \in Secrets, SeedFromEnv(S, s)
      PROVE  HeldCalls'
  <2>1. \A c \in Calls : call[c].at = "free"
    BY <1>2, EmptyTable DEF SeedFromEnv
  <2> QED  BY <1>2, <2>1 DEF HeldCalls, SeedFromEnv
<1>3. ASSUME NEW b \in Bots, Retire(b) PROVE HeldCalls'
  <2>1. \A d \in Bots : bot'[d].registered = bot[d].registered
    BY <1>3, RetireEffect
  <2> QED  BY <1>3, <2>1 DEF HeldCalls, Retire
<1>4. ASSUME NEW g \in Groups, NEW b \in Bots, NEW c \in Calls,
             NEW at \in {"sent", "held"}, Acquire(g, b, c, at)
      PROVE  HeldCalls'
  <2>1. CASE NeedsWebhook(b)
    <3>1. Register(c, b, bot[b].secret, at) /\ UNCHANGED <<bot, disturbed>>
      BY <1>4, <2>1 DEF Acquire
    <3>2. bot[b].secret \in Secrets
      BY <1>4, ChosenRow, RowSecret DEF Acquire
    <3>3. \A d \in Calls \ {c} : call'[d].at = call[d].at /\ call'[d].bot = call[d].bot
      BY <3>1, <3>2, RegisterEffect
    <3>4. call'[c].bot = b
      BY <3>1, <3>2, RegisterEffect
    <3> QED  BY <2>1, <3>1, <3>3, <3>4 DEF HeldCalls, NeedsWebhook
  <2>2. CASE ~NeedsWebhook(b)
    BY <1>4, <2>2 DEF HeldCalls, Acquire
  <2> QED  BY <2>1, <2>2
<1>5. ASSUME NEW g \in Groups, Release(g) PROVE HeldCalls'
  BY <1>5 DEF HeldCalls, Release
<1>6. ASSUME NEW c \in Calls, Sends(c) PROVE HeldCalls'
  BY <1>6, MovesOn DEF HeldCalls, Sends
<1>7. ASSUME NEW c \in Calls, Drops(c) PROVE HeldCalls'
  <2>1. \A d \in Calls : call'[d].at = "held" => call'[d] = call[d]
    <3>1. call'[c].at = "free" /\ \A d \in Calls \ {c} : call'[d] = call[d]
      BY <1>7, Freed DEF Drops
    <3> QED  BY <3>1
  <2>2. UNCHANGED bot /\ disturbed \subseteq disturbed'
    BY <1>7 DEF Drops, Ended
  <2> QED  BY <2>1, <2>2 DEF HeldCalls
<1>8. ASSUME NEW c \in Calls, Lands(c) PROVE HeldCalls'
  BY <1>8, MovesOn DEF HeldCalls, Lands
<1>9. ASSUME NEW c \in Calls, Succeeds(c) PROVE HeldCalls'
  <2> SUFFICES ASSUME NEW d \in Calls, call'[d].at = "held"
               PROVE  ~bot'[call'[d].bot].registered \/ call'[d].bot \in disturbed'
    BY DEF HeldCalls
  <2>1. d # c /\ call'[d] = call[d] /\ call[d].bot \in Bots
    BY <1>9, Freed DEF Succeeds
  <2>2. call[c].bot \in Bots /\ bot[call[c].bot].state # "absent" /\ call[c].at # "free"
    BY <1>9 DEF Succeeds, RowExists
  <2>3. CASE call[d].bot = call[c].bot
    <3>1. ~call[c].alone
      BY <2>1, <2>2, <2>3 DEF AloneCalls
    <3> QED  BY <1>9, <2>1, <2>3, <3>1 DEF Succeeds, Ended
  <2>4. CASE call[d].bot # call[c].bot
    <3>1. bot'[call[d].bot] = bot[call[d].bot]
      BY <1>9, <2>1, <2>2, <2>4, StampEffect DEF Succeeds
    <3> QED  BY <1>9, <2>1, <2>4, <3>1 DEF HeldCalls, Succeeds, Ended
  <2> QED  BY <2>3, <2>4
<1>10. ASSUME NEW c \in Calls, Fails(c) PROVE HeldCalls'
  <2>1. \A d \in Calls : call'[d].at = "held" => call'[d] = call[d]
    <3>1. call'[c].at = "free" /\ \A d \in Calls \ {c} : call'[d] = call[d]
      BY <1>10, Freed DEF Fails
    <3> QED  BY <3>1
  <2>2. UNCHANGED bot /\ disturbed \subseteq disturbed'
    BY <1>10 DEF Fails
  <2> QED  BY <2>1, <2>2 DEF HeldCalls
<1>11. ASSUME Restart PROVE HeldCalls'
  BY <1>11 DEF HeldCalls, Restart, FreeCall
<1>12. CASE UNCHANGED vars
  BY <1>12 DEF HeldCalls, vars
<1> QED
  BY <1>1, <1>2, <1>3, <1>4, <1>5, <1>6, <1>7, <1>8, <1>9, <1>10, <1>11, <1>12 DEF Next

(* A bot whose row, wire and calls a step leaves alone is heard as before.  *)
LEMMA HeardStep == TypeOK /\ Registration /\ [Next]_vars => Heard'
<1> SUFFICES ASSUME TypeOK, RowExists, AloneCalls, HeldCalls, HeardUnlessDisturbed,
                    [Next]_vars,
                    NEW b \in Bots, bot'[b].registered, b \notin disturbed',
                    \A d \in Calls : call'[d].bot # b
             PROVE  wire'[b] = bot'[b].secret
  BY DEF Registration, Heard, HeardUnlessDisturbed, Open
<1>0. ASSUME bot'[b].registered = bot[b].registered, bot'[b].secret = bot[b].secret,
             wire'[b] = wire[b], b \notin disturbed,
             \A d \in Calls : call[d].bot # b
      PROVE  wire'[b] = bot'[b].secret
  BY <1>0 DEF HeardUnlessDisturbed, Open
<1>1. ASSUME NEW a \in Bots, NEW s \in Secrets, NEW c \in Calls, Seed(a, s, c)
      PROVE  wire'[b] = bot'[b].secret
  <2>1. Register(c, a, s, "sent") /\ UNCHANGED <<wire, disturbed>>
    BY <1>1 DEF Seed
  <2>2. call'[c].bot = a
    BY <2>1, RegisterEffect
  <2>3. \A d \in Calls \ {c} : call'[d].bot = call[d].bot
    BY <2>1, RegisterEffect
  <2>4. call[c].bot # b
    BY <2>1, FreeIff, RegisterEffect
  <2>5. bot'[b] = bot[b]
    BY <1>1, <2>2 DEF Seed, TypeOK
  <2> QED  BY <1>0, <2>1, <2>3, <2>4, <2>5
<1>2. ASSUME NEW S \in SUBSET Bots, NEW s \in Secrets, SeedFromEnv(S, s)
      PROVE  wire'[b] = bot'[b].secret
  <2>1. ~bot[b].registered
    BY <1>2, EmptyTable DEF SeedFromEnv
  <2>2. bot'[b].registered = bot[b].registered
    <3>1. Seeded(bot[b], s).registered = bot[b].registered
      BY DEF Seeded
    <3> QED  BY <1>2, <3>1 DEF SeedFromEnv, TypeOK
  <2> QED  BY <2>1, <2>2
<1>3. ASSUME NEW a \in Bots, Retire(a) PROVE wire'[b] = bot'[b].secret
  <2>1. bot'[b].registered = bot[b].registered /\ bot'[b].secret = bot[b].secret
    BY <1>3, RetireEffect
  <2> QED  BY <1>0, <1>3, <2>1 DEF Retire
<1>4. ASSUME NEW g \in Groups, NEW a \in Bots, NEW c \in Calls,
             NEW at \in {"sent", "held"}, Acquire(g, a, c, at)
      PROVE  wire'[b] = bot'[b].secret
  <2>1. \A d \in Calls : call[d].bot # b
    <3>1. CASE Register(c, a, bot[a].secret, at)
      <4>1. bot[a].secret \in Secrets
        BY <1>4, ChosenRow, RowSecret DEF Acquire
      <4>2. \A d \in Calls \ {c} : call'[d].bot = call[d].bot
        BY <3>1, <4>1, RegisterEffect
      <4>3. call[c].bot # b
        BY <3>1, <4>1, RegisterEffect, FreeIff
      <4> QED  BY <4>2, <4>3
    <3>2. CASE UNCHANGED call
      BY <3>2
    <3> QED  BY <1>4, <3>1, <3>2 DEF Acquire
  <2> QED  BY <1>0, <1>4, <2>1 DEF Acquire
<1>5. ASSUME NEW g \in Groups, Release(g) PROVE wire'[b] = bot'[b].secret
  BY <1>0, <1>5 DEF Release
<1>6. ASSUME NEW c \in Calls, Sends(c) PROVE wire'[b] = bot'[b].secret
  <2>1. \A d \in Calls : call'[d].bot = call[d].bot
    BY <1>6, MovesOn DEF Sends
  <2> QED  BY <1>0, <1>6, <2>1 DEF Sends
<1>7. ASSUME NEW c \in Calls, Drops(c) PROVE wire'[b] = bot'[b].secret
  <2>1. \A d \in Calls \ {c} : call'[d] = call[d]
    BY <1>7, Freed DEF Drops
  <2>2. CASE call[c].bot = b
    BY <1>7, <2>2 DEF Drops, Ended, HeldCalls
  <2>3. CASE call[c].bot # b
    BY <1>0, <1>7, <2>1, <2>3 DEF Drops, Ended
  <2> QED  BY <2>2, <2>3
<1>8. ASSUME NEW c \in Calls, Lands(c) PROVE wire'[b] = bot'[b].secret
  <2>1. \A d \in Calls : call'[d].bot = call[d].bot
    BY <1>8, MovesOn DEF Lands
  <2>2. call[c].bot # b
    BY <2>1
  <2>3. wire'[b] = wire[b]
    BY <1>8, <2>2 DEF Lands, TypeOK
  <2> QED  BY <1>0, <1>8, <2>1, <2>3 DEF Lands
<1>9. ASSUME NEW c \in Calls, Succeeds(c) PROVE wire'[b] = bot'[b].secret
  <2>1. \A d \in Calls \ {c} : call'[d] = call[d]
    BY <1>9, Freed DEF Succeeds
  <2>2. call[c].bot \in Bots /\ bot[call[c].bot].state # "absent" /\ call[c].at # "free"
    BY <1>9, FreeIff DEF Succeeds, RowExists
  <2>3. CASE call[c].bot = b
    <3>1. call[c].alone
      BY <1>9, <2>3 DEF Succeeds, Ended
    <3>2. wire[b] = bot[b].secret
      BY <1>9, <2>2, <2>3, <3>1 DEF AloneCalls, Succeeds
    <3> QED  BY <1>9, <2>2, <2>3, <3>2, StampEffect DEF Succeeds
  <2>4. CASE call[c].bot # b
    <3>1. bot'[b] = bot[b]
      BY <1>9, <2>2, <2>4, StampEffect DEF Succeeds
    <3> QED  BY <1>0, <1>9, <2>1, <2>4, <3>1 DEF Succeeds, Ended
  <2> QED  BY <2>3, <2>4
<1>10. ASSUME NEW c \in Calls, Fails(c) PROVE wire'[b] = bot'[b].secret
  <2>1. \A d \in Calls \ {c} : call'[d] = call[d]
    BY <1>10, Freed DEF Fails
  <2> QED  BY <1>0, <1>10, <2>1 DEF Fails
<1>11. ASSUME Restart PROVE wire'[b] = bot'[b].secret
  <2>1. UNCHANGED <<bot, wire>> /\ b \notin disturbed
    BY <1>11 DEF Restart
  <2>2. \A d \in Calls : call[d].bot = b => call[d].at \notin {"sent", "landed"}
    BY <1>11 DEF Restart
  <2>3. \A d \in Calls : call[d].bot # b
    BY <2>1, <2>2, FreeIff DEF HeldCalls
  <2> QED  BY <1>0, <2>1, <2>3
<1>12. CASE UNCHANGED vars
  BY <1>0, <1>12 DEF vars
<1> QED
  BY <1>1, <1>2, <1>3, <1>4, <1>5, <1>6, <1>7, <1>8, <1>9, <1>10, <1>11, <1>12 DEF Next

-----------------------------------------------------------------------------
(* Assignment *)

(* If the bot chosen for a new company serves its founder already, then so  *)
(* does every active one: no more bots are active than companies paired.    *)
LEMMA NoneLeftOver ==
    ASSUME TypeOK, NEW g \in Groups, assigned[g] = None,
           NEW b \in Candidates(OwnerOf[g]), Serves(b, OwnerOf[g])
    PROVE  Cardinality(Active) <= Cardinality(Paired(OwnerOf[g]))
<1> DEFINE u == OwnerOf[g]
           f == [d \in Active |-> CHOOSE h \in Paired(u) : assigned[h] = d]
<1>1. ASSUME NEW d \in Active
      PROVE  \E h \in Paired(u) : assigned[h] = d
  <2>1. Preferred(b, d, u)
    BY DEF Candidates
  <2>2. Serves(d, u)
    BY <2>1 DEF Preferred, Serves
  <2>3. d # None
    BY NoneAssumption DEF Active
  <2> QED  BY <2>2, <2>3 DEF Serves, Paired
<1>2. \A d \in Active : f[d] \in Paired(u) /\ assigned[f[d]] = d
  BY <1>1
<1>3. f \in Injection(Active, Paired(u))
  BY <1>2 DEF Injection, IsInjective
<1>4. IsFiniteSet(Paired(u))
  BY FiniteAssumption, FS_Subset DEF Paired, CompaniesOf
<1> QED  BY <1>3, <1>4, FS_Injection

LEMMA CollapseStep == TypeOK /\ NoCollapse /\ [Next]_vars => NoCollapse'
<1> SUFFICES ASSUME TypeOK, NoCollapse, [Next]_vars,
                    NEW g \in Groups, NEW h \in Groups, g # h, OwnerOf[g] = OwnerOf[h],
                    assigned'[g] # None, assigned'[g] = assigned'[h]
             PROVE  OwnerOf[g] \in scarce'
  BY DEF NoCollapse
<1>1. CASE UNCHANGED <<assigned, scarce>>
  BY <1>1 DEF NoCollapse
<1>2. ASSUME NEW i \in Groups, NEW b \in Bots, NEW c \in Calls,
             NEW at \in {"sent", "held"}, Acquire(i, b, c, at)
      PROVE  OwnerOf[g] \in scarce'
  <2>1. assigned' = [assigned EXCEPT ![i] = b] /\ scarce \subseteq scarce'
    BY <1>2 DEF Acquire
  <2>2. CASE assigned[i] # None
    BY <1>2, <2>1, <2>2 DEF Acquire, Choices, NoCollapse, TypeOK
  <2>3. CASE assigned[i] = None /\ i \notin {g, h}
    BY <2>1, <2>3 DEF NoCollapse, TypeOK
  <2>4. CASE assigned[i] = None /\ i \in {g, h}
    <3>1. b \in Candidates(OwnerOf[i])
      BY <1>2, <2>4 DEF Acquire, Choices
    <3>2. Serves(b, OwnerOf[i])
      BY <2>1, <2>4 DEF Serves, CompaniesOf, TypeOK
    <3>3. Cardinality(Active) <= Cardinality(Paired(OwnerOf[i]))
      BY <2>4, <3>1, <3>2, NoneLeftOver
    <3> QED  BY <1>2, <2>4, <3>3 DEF Acquire
  <2> QED  BY <2>2, <2>3, <2>4
<1>3. ASSUME NEW i \in Groups, Release(i) PROVE OwnerOf[g] \in scarce'
  BY <1>3 DEF Release, NoCollapse, TypeOK
<1> QED
  BY <1>1, <1>2, <1>3
     DEF Next, vars, Seed, SeedFromEnv, Retire, Sends, Drops, Lands, Succeeds, Fails, Restart

-----------------------------------------------------------------------------
(* Theorems *)

IInv == TypeOK /\ Registration /\ NoCollapse

LEMMA InitInv == Init => IInv
<1> SUFFICES ASSUME Init PROVE IInv
  OBVIOUS
<1>1. TypeOK
  BY InitType
<1>2. \A c \in Calls : call[c].at = "free"
  BY DEF Init, FreeCall
<1>3. \A b \in Bots : ~bot[b].registered
  BY DEF Init, Absent
<1>4. \A g \in Groups : assigned[g] = None
  BY DEF Init
<1> QED
  BY <1>1, <1>2, <1>3, <1>4
     DEF IInv, Registration, RowExists, AloneCalls, HeldCalls, Heard,
         HeardUnlessDisturbed, NoCollapse

(* IInv holds whatever is seeded, retired, paired, released and registered, *)
(* and whatever calls fail.                                                 *)
THEOREM Inductive == Spec => []IInv
<1>1. IInv /\ [Next]_vars => IInv'
  BY TypeStep, RowStep, AloneStep, HeldStep, HeardStep, CollapseStep DEF IInv, Registration
<1> QED  BY InitInv, <1>1, PTL DEF Spec

(* Every variable has its type: the rows, calls and assignments the         *)
(* handlers leave behind are well formed.                                   *)
THEOREM TypeCorrect == Spec => []TypeOK
<1>1. IInv => TypeOK
  BY DEF IInv
<1> QED  BY Inductive, <1>1, PTL

(* A registered bot whose last setWebhook call succeeded without another    *)
(* beside it has at Telegram the secret the webhook route checks.           *)
THEOREM RegisteredIsHeard == Spec => []HeardUnlessDisturbed
<1>1. IInv => HeardUnlessDisturbed
  BY DEF IInv, Registration, Heard
<1> QED  BY Inductive, <1>1, PTL

(* Two companies of a founder share a bot only after a company was paired   *)
(* when the founder had as many companies paired as bots were active.       *)
THEOREM CompaniesKeptApart == Spec => []NoCollapse
<1>1. IInv => NoCollapse
  BY DEF IInv
<1> QED  BY Inductive, <1>1, PTL

(* No step but a disconnect takes a company off its bot. *)
THEOREM StickyAssignment == Spec => AssignmentIsSticky
<1>1. ASSUME TypeOK, [Next]_vars
      PROVE  [\A g \in Groups :
                  assigned[g] # None => assigned'[g] \in {assigned[g], None}]_vars
  <2> SUFFICES ASSUME Next, NEW g \in Groups, assigned[g] # None
               PROVE  assigned'[g] \in {assigned[g], None}
    BY <1>1
  <2>1. CASE UNCHANGED assigned
    BY <2>1
  <2>2. ASSUME NEW i \in Groups, NEW b \in Bots, NEW c \in Calls,
               NEW at \in {"sent", "held"}, Acquire(i, b, c, at)
        PROVE  assigned'[g] \in {assigned[g], None}
    BY <1>1, <2>2 DEF Acquire, Choices, TypeOK
  <2>3. ASSUME NEW i \in Groups, Release(i) PROVE assigned'[g] \in {assigned[g], None}
    BY <1>1, <2>3 DEF Release, TypeOK
  <2> QED
    BY <2>1, <2>2, <2>3
       DEF Next, Seed, SeedFromEnv, Retire, Sends, Drops, Lands, Succeeds, Fails, Restart
<1> QED  BY TypeCorrect, <1>1, PTL DEF Spec, AssignmentIsSticky

=============================================================================
