-------------------------------- MODULE BotPool --------------------------------
(***************************************************************************)
(* The pool of Telegram bots (src/src/db/baget-bot-pool.ts) and the        *)
(* registration of their webhooks, as the handlers of the admin server and *)
(* the seeder at boot use them.  A bot's webhook secret is kept twice: in  *)
(* the pool row, which the webhook route checks updates against, and at    *)
(* Telegram, which setWebhook has told it.                                 *)
(*                                                                         *)
(* A setWebhook call runs from the handler's reading of the row to the     *)
(* answer; anything may happen meanwhile.  A call that fails or is cut off *)
(* has landed by then or never lands.  Bot tokens, names and URLs are left *)
(* out, and so are deployments without a public base URL, which never use  *)
(* the pool, and pairings older than the pool, which keep the global bot.  *)
(***************************************************************************)
EXTENDS Naturals, FiniteSets

CONSTANTS
    Bots,           \* bot usernames
    Groups,         \* agent groups
    Users,          \* founders
    OwnerOf,        \* the user_id of each agent group
    Calls,          \* identities of setWebhook calls
    Secrets,        \* webhook secrets that occur
    MaxFaults,      \* bound: failed calls and restarts
    None            \* no bot, no secret

ASSUME OwnerAssumption == OwnerOf \in [Groups -> Users]
ASSUME FiniteAssumption == IsFiniteSet(Bots) /\ IsFiniteSet(Groups)
ASSUME NoneAssumption == None \notin Bots /\ None \notin Secrets
ASSUME BoundAssumption == MaxFaults \in Nat

VARIABLES
    bot,        \* baget_bot_pool
    wire,       \* the secret Telegram sends with a bot's updates
    assigned,   \* baget_bot_pool_assignments
    call,       \* the setWebhook calls of the handlers
    disturbed,  \* history: bots whose last registration did not run alone
                \* to its end
    scarce,     \* history: founders given a bot when they had as many paired
                \* companies as bots were active
    faults

vars == <<bot, wire, assigned, call, disturbed, scarce, faults>>

Absent == [state |-> "absent", secret |-> None, registered |-> FALSE]
FreeCall == [at |-> "free", bot |-> None, secret |-> None, alone |-> FALSE]

TypeOK ==
    /\ bot \in [Bots -> {Absent} \cup [state : {"active", "retired"}, secret : Secrets,
                                       registered : BOOLEAN]]
    /\ wire \in [Bots -> Secrets \cup {None}]
    /\ assigned \in [Groups -> Bots \cup {None}]
    /\ call \in [Calls -> {FreeCall} \cup [at : {"held", "sent", "landed"}, bot : Bots,
                                          secret : Secrets, alone : BOOLEAN]]
    /\ disturbed \subseteq Bots
    /\ scarce \subseteq Users
    /\ faults \in 0..MaxFaults

Init ==
    /\ bot = [b \in Bots |-> Absent]
    /\ wire = [b \in Bots |-> None]
    /\ assigned = [g \in Groups |-> None]
    /\ call = [c \in Calls |-> FreeCall]
    /\ disturbed = {}
    /\ scarce = {}
    /\ faults = 0

Open(b) == {c \in Calls : call[c].bot = b}
Active == {b \in Bots : bot[b].state = "active"}
CompaniesOf(u) == {g \in Groups : OwnerOf[g] = u}
Paired(u) == {g \in CompaniesOf(u) : assigned[g] # None}

-----------------------------------------------------------------------------
(* Seeding *)

(* Slip: the row is stamped before Telegram has the secret. *)
SeededStamped(row, secret) ==
    [row EXCEPT !.state = IF @ = "absent" THEN "active" ELSE @,
                !.secret = secret, !.registered = TRUE]

(* seedBotPoolEntry: insert the row, or rotate its credentials only. *)
Seeded(row, secret) ==
    [state |-> IF row.state = "absent" THEN "active" ELSE row.state,
     secret |-> secret, registered |-> row.registered]

(* A handler takes the secret of a row to setWebhook: at once, or holding   *)
(* it over an await.                                                        *)
Register(c, b, secret, at) ==
    /\ call[c].at = "free"
    /\ call' = [d \in Calls |->
                  IF d = c THEN [at |-> at, bot |-> b, secret |-> secret,
                                 alone |-> Open(b) = {}]
                  ELSE IF d \in Open(b) THEN [call[d] EXCEPT !.alone = FALSE]
                  ELSE call[d]]

(* One entry of POST /baget/bot-pool/seed, after its getMe. *)
Seed(b, secret, c) ==
    /\ bot' = [bot EXCEPT ![b] = Seeded(@, secret)]
    /\ Register(c, b, secret, "sent")
    /\ UNCHANGED <<wire, assigned, disturbed, scarce, faults>>

(* The seeder at boot fills an empty table and registers nothing. *)
SeedFromEnv(S, secret) ==
    /\ \A b \in Bots : bot[b].state = "absent"
    /\ S # {}
    /\ bot' = [b \in Bots |-> IF b \in S THEN Seeded(bot[b], secret) ELSE bot[b]]
    /\ UNCHANGED <<wire, assigned, call, disturbed, scarce, faults>>

(* The operator flips retired_at. *)
Retire(b) ==
    /\ bot[b].state = "active"
    /\ bot' = [bot EXCEPT ![b].state = "retired"]
    /\ UNCHANGED <<wire, assigned, call, disturbed, scarce, faults>>

-----------------------------------------------------------------------------
(* Assignment *)

Load(b) == Cardinality({g \in Groups : assigned[g] = b})
Serves(b, u) == \E g \in CompaniesOf(u) : assigned[g] = b

(* Slip: the load alone. *)
PreferredLoadOnly(b, d, u) == Load(b) <= Load(d)

(* The ORDER BY of assignNextAvailableBot, but for its tie-break by age.    *)
Preferred(b, d, u) ==
    \/ ~Serves(b, u) /\ Serves(d, u)
    \/ Serves(b, u) = Serves(d, u) /\ Load(b) <= Load(d)

Candidates(u) == {b \in Active : \A d \in Active : Preferred(b, d, u)}

(* Slip: the existing assignment is not looked up. *)
ChoicesAnew(g) == Candidates(OwnerOf[g])

(* The bots resolvePoolAssignment may answer with. *)
Choices(g) == IF assigned[g] # None THEN {assigned[g]} ELSE Candidates(OwnerOf[g])

NeedsWebhook(b) == ~bot[b].registered

(* handleCreate registers the webhook of the bot it resolved at once,       *)
(* handleBindTelegram after it has stored the channel token, an await: both *)
(* with the row as resolved, and not at all if that was registered.         *)
Acquire(g, b, c, at) ==
    /\ b \in Choices(g)
    /\ assigned' = [assigned EXCEPT ![g] = b]
    /\ scarce' = IF assigned[g] = None
                    /\ Cardinality(Active) <= Cardinality(Paired(OwnerOf[g]))
                 THEN scarce \cup {OwnerOf[g]} ELSE scarce
    /\ IF NeedsWebhook(b) THEN Register(c, b, bot[b].secret, at) ELSE UNCHANGED call
    /\ UNCHANGED <<bot, wire, disturbed, faults>>

(* performDisconnectCleanup releases the bot. *)
Release(g) ==
    /\ assigned[g] # None
    /\ assigned' = [assigned EXCEPT ![g] = None]
    /\ UNCHANGED <<bot, wire, call, disturbed, scarce, faults>>

-----------------------------------------------------------------------------
(* The webhook calls *)

Ended(c) == IF call[c].alone THEN disturbed ELSE disturbed \cup {call[c].bot}

(* The bind goes on to setWebhook. *)
Sends(c) ==
    /\ call[c].at = "held"
    /\ call' = [call EXCEPT ![c].at = "sent"]
    /\ UNCHANGED <<bot, wire, assigned, disturbed, scarce, faults>>

(* The token could not be stored or the chat not be bound: no call. *)
Drops(c) ==
    /\ call[c].at = "held"
    /\ disturbed' = Ended(c)
    /\ call' = [call EXCEPT ![c] = FreeCall]
    /\ UNCHANGED <<bot, wire, assigned, scarce, faults>>

(* Telegram takes the new secret. *)
Lands(c) ==
    /\ call[c].at = "sent"
    /\ wire' = [wire EXCEPT ![call[c].bot] = call[c].secret]
    /\ call' = [call EXCEPT ![c].at = "landed"]
    /\ UNCHANGED <<bot, assigned, disturbed, scarce, faults>>

(* markWebhookRegistered *)
Stamped(b) == [bot EXCEPT ![b].registered = TRUE]

(* The answer is ok: the row is stamped. *)
Succeeds(c) ==
    /\ call[c].at = "landed"
    /\ bot' = Stamped(call[c].bot)
    /\ disturbed' = IF call[c].alone THEN disturbed \ {call[c].bot} ELSE Ended(c)
    /\ call' = [call EXCEPT ![c] = FreeCall]
    /\ UNCHANGED <<wire, assigned, scarce, faults>>

Fault == faults < MaxFaults /\ faults' = faults + 1

(* Telegram refuses or is out of reach, or its answer is lost: a warning.   *)
Fails(c) ==
    /\ call[c].at \in {"sent", "landed"}
    /\ Fault
    /\ disturbed' = disturbed \cup {call[c].bot}
    /\ call' = [call EXCEPT ![c] = FreeCall]
    /\ UNCHANGED <<bot, wire, assigned, scarce>>

(* The host restarts: nobody waits for the calls any more. *)
Restart ==
    /\ Fault
    /\ disturbed' = disturbed \cup {call[c].bot : c \in {d \in Calls : call[d].at \in {"sent", "landed"}}}
    /\ call' = [c \in Calls |-> FreeCall]
    /\ UNCHANGED <<bot, wire, assigned, scarce>>

Next ==
    \/ \E b \in Bots, s \in Secrets, c \in Calls : Seed(b, s, c)
    \/ \E S \in SUBSET Bots, s \in Secrets : SeedFromEnv(S, s)
    \/ \E b \in Bots : Retire(b)
    \/ \E g \in Groups, b \in Bots, c \in Calls, at \in {"sent", "held"} :
          Acquire(g, b, c, at)
    \/ \E g \in Groups : Release(g)
    \/ \E c \in Calls : Sends(c) \/ Drops(c) \/ Lands(c) \/ Succeeds(c) \/ Fails(c)
    \/ Restart

Spec == Init /\ [][Next]_vars

-----------------------------------------------------------------------------
(* Properties *)

(* A founder's companies sit on different bots: two share one only if some  *)
(* time a company was paired when no bot was left over (migration           *)
(* 020: "complete avoidance is impossible once the founder owns more        *)
(* companies than the pool has bots"), whatever was released, retired and   *)
(* assigned to others in between.                                           *)
NoCollapse ==
    \A g, h \in Groups :
        (g # h /\ OwnerOf[g] = OwnerOf[h] /\ assigned[g] # None /\ assigned[g] = assigned[h])
            => OwnerOf[g] \in scarce

(* A bot that serves a company can be heard once its calls are over: its    *)
(* secret is the one Telegram sends, unless its last registration failed,   *)
(* was cut off by a restart or overlapped another.  A registration of its   *)
(* own repairs the bot.                                                     *)
HeardUnlessDisturbed ==
    \A b \in Bots :
        (bot[b].registered /\ Open(b) = {} /\ b \notin disturbed)
            => wire[b] = bot[b].secret

(* An assignment lasts until the company disconnects: no re-pairing, no     *)
(* retirement and no seed moves a company to another bot.                   *)
AssignmentIsSticky ==
    [][\A g \in Groups : assigned[g] # None => assigned'[g] \in {assigned[g], None}]_vars

=============================================================================
