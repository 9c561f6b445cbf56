--------------------------- MODULE AgentToolsProofs ---------------------------
(***************************************************************************)
(* Proofs about AgentTools for any tools, payloads, calls, previews,       *)
(* messages, finished tasks and ends of the runner: the numbers of the     *)
(* messages, the gate of the founder's actions, and the announcements.     *)
(***************************************************************************)
EXTENDS AgentTools, FiniteSetTheorems, WellFoundedInduction, TLAPS

-----------------------------------------------------------------------------
(* Least and largest numbers *)

(* WFMin, in the form the provers take it up.                               *)
LEMMA Minimal ==
    ASSUME NEW S, NEW T, T \subseteq S, T # {}, NEW R, IsWellFoundedOn(R, S)
    PROVE  \E x \in T : \A y \in T : ~ (<<y, x>> \in R)
BY WFMin

(* A set of numbers that is not empty has a least one; this is induction    *)
(* over the numbers, by a least counterexample.                             *)
LEMMA Least ==
    ASSUME NEW T, T \subseteq Nat, T # {}
    PROVE  \E m \in T : \A n \in T : m <= n
<1> DEFINE R == OpToRel(<, Nat)
<1>1. IsWellFoundedOn(R, Nat)
  BY NatLessThanWellFounded
<1>2. \A n \in Nat : \A m \in Nat : <<n, m>> \in R <=> n < m
  BY DEF OpToRel
<1> HIDE DEF R
<1>3. PICK m \in T : \A n \in T : ~ (<<n, m>> \in R)
  BY <1>1, Minimal
<1>4. ASSUME NEW n \in T PROVE m <= n
  <2>1. n \in Nat /\ m \in Nat /\ <<n, m>> \notin R
    BY <1>3
  <2>2. <<n, m>> \in R <=> n < m
    BY <1>2, <2>1, Zenon
  <2>3. ~(n < m)
    BY <2>1, <2>2, Zenon
  <2> QED  BY <2>1, <2>3
<1> QED  BY <1>4

(* A bounded set of numbers has a largest one.                              *)
LEMMA Largest ==
    ASSUME NEW S, S \subseteq Nat, S # {}, NEW b \in Nat, \A x \in S : x <= b
    PROVE  Max(S) \in S /\ \A x \in S : x <= Max(S)
<1> DEFINE Bounds == {u \in Nat : \A x \in S : x <= u}
<1>1. PICK u \in Bounds : \A v \in Bounds : u <= v
  BY Least
<1>2. u \in S
  <2> SUFFICES ASSUME u \notin S PROVE FALSE
    OBVIOUS
  <2>1. \A x \in S : x <= u - 1
    OBVIOUS
  <2>2. u - 1 \in Nat
    <3>1. PICK x \in S : x <= u - 1
      BY <2>1
    <3> QED  BY <3>1
  <2>3. u - 1 \in Bounds
    BY <2>1, <2>2
  <2> QED  BY <1>1, <2>3
<1>3. \E x \in S : \A y \in S : x >= y
  BY <1>2
<1> QED  BY <1>3 DEF Max

(* Finitely many numbers are bounded.                                       *)
LEMMA Bounded ==
    ASSUME NEW n \in Nat, NEW f, \A i \in 1..n : f[i] \in Nat
    PROVE  \E b \in Nat : \A i \in 1..n : f[i] <= b
<1> DEFINE Below(k) == \E b \in Nat : \A i \in 1..k : f[i] <= b
           Free == {k \in 0..n : ~Below(k)}
<1>1. Below(0)
  OBVIOUS
<1>2. ASSUME NEW k \in 1..n, Below(k - 1) PROVE Below(k)
  <2>1. PICK b \in Nat : \A i \in 1..(k - 1) : f[i] <= b
    BY <1>2
  <2>2. f[k] \in Nat
    OBVIOUS
  <2>3. b + f[k] \in Nat /\ b <= b + f[k] /\ f[k] <= b + f[k]
    BY <2>2
  <2>4. ASSUME NEW i \in 1..k PROVE f[i] <= b + f[k]
    <3>1. i = k \/ i \in 1..(k - 1)
      OBVIOUS
    <3>2. f[i] \in Nat
      OBVIOUS
    <3> QED  BY <2>1, <2>2, <3>1, <3>2
  <2> QED  BY <2>3, <2>4
<1> HIDE DEF Below
<1>3. Free = {}
  <2> SUFFICES ASSUME Free # {} PROVE FALSE
    OBVIOUS
  <2>1. Free \subseteq Nat
    OBVIOUS
  <2>2. PICK m \in Free : \A k \in Free : m <= k
    BY <2>1, Least
  <2>3. m \in 1..n
    BY <1>1
  <2>4. m - 1 \in 0..n /\ m - 1 \notin Free
    BY <2>2, <2>3
  <2> QED  BY <1>2, <2>3, <2>4
<1>4. Below(n)
  BY <1>3
<1> QED  BY <1>4 DEF Below

(* So the messages of a session have a largest number.                      *)
Row == [seq : Nat \ {0}, by : Writers \cup {"host"}, task : Subject]
Drafted == [seq : Nat \ {0}, task : Subject, call : Calls \cup {None}]

LEMMA RowTypes ==
    ASSUME RowsTyped
    PROVE  /\ Len(out) \in Nat /\ DOMAIN out = 1..Len(out)
           /\ \A i \in 1..Len(out) : out[i].seq \in Nat
<1>1. out \in Seq(Row)
  BY DEF RowsTyped, Row
<1>2. \A r \in Row : r.seq \in Nat
  BY DEF Row
<1>3. /\ Len(out) \in Nat /\ DOMAIN out = 1..Len(out)
      /\ \A i \in 1..Len(out) : out[i] \in Row
  BY <1>1
<1> QED  BY <1>2, <1>3

LEMMA NumbersAreBounded ==
    ASSUME RowsTyped
    PROVE  \E b \in Nat : \A i \in DOMAIN out : out[i].seq <= b
<1> DEFINE f == [i \in 1..Len(out) |-> out[i].seq]
<1>1. /\ Len(out) \in Nat /\ DOMAIN out = 1..Len(out)
      /\ \A i \in 1..Len(out) : out[i].seq \in Nat
  BY RowTypes
<1>2. \A i \in 1..Len(out) : f[i] = out[i].seq /\ f[i] \in Nat
  BY <1>1
<1> HIDE DEF f
<1>3. \E b \in Nat : \A i \in 1..Len(out) : f[i] <= b
  BY <1>1, <1>2, Bounded
<1> QED  BY <1>1, <1>2, <1>3

(* The next number of a writer is odd; the host's is larger than all.       *)
LEMMA NextNumbers ==
    ASSUME RowsTyped
    PROVE  /\ LargestOut \in Nat /\ \A i \in DOMAIN out : out[i].seq <= LargestOut
           /\ NextSeq \in Nat \ {0} /\ NextSeq % 2 = 1
<1> DEFINE S == {out[i].seq : i \in DOMAIN out} \cup {0}
           Both == {LargestOut, 2 * inbound}
<1>1. \A i \in DOMAIN out : out[i].seq \in Nat
  BY RowTypes
<1>2. PICK b \in Nat : \A i \in DOMAIN out : out[i].seq <= b
  BY NumbersAreBounded
<1>3. S \subseteq Nat /\ S # {} /\ \A x \in S : x <= b
  BY <1>1, <1>2
<1>4. LargestOut \in Nat /\ \A i \in DOMAIN out : out[i].seq <= LargestOut
  <2> HIDE DEF S
  <2>1. Max(S) \in S /\ \A x \in S : x <= Max(S)
    BY <1>3, Largest
  <2>2. LargestOut = Max(S)
    BY DEF LargestOut, S
  <2>3. \A i \in DOMAIN out : out[i].seq \in S
    BY DEF S
  <2> QED  BY <1>3, <2>1, <2>2, <2>3
<1>5. LargestOfBoth \in Nat
  <2>1. 2 * inbound \in Nat /\ LargestOut + 2 * inbound \in Nat
    BY <1>4, BoundsAssumption DEF RowsTyped
  <2>2. Both \subseteq Nat /\ Both # {} /\ \A x \in Both : x <= LargestOut + 2 * inbound
    BY <1>4, <2>1
  <2>3. Max(Both) \in Both
    <3> HIDE DEF Both
    <3> QED  BY <2>1, <2>2, Largest
  <2>4. LargestOfBoth = Max(Both)
    BY DEF LargestOfBoth
  <2> QED  BY <2>2, <2>3, <2>4
<1>6. NextSeq \in Nat \ {0} /\ NextSeq % 2 = 1
  BY <1>5 DEF NextSeq
<1> QED  BY <1>4, <1>6
-----------------------------------------------------------------------------
(* The numbers of the messages *)

(* Numbers are unique, and odd but for the host's.                          *)
NumbersSound ==
    /\ \A i, j \in DOMAIN out : out[i].seq = out[j].seq => i = j
    /\ \A i \in DOMAIN out : out[i].by # "host" => out[i].seq % 2 = 1
    /\ \A w \in Writers : draft[w] # None => draft[w].seq % 2 = 1

(* What a step does to the rows and to the numbers that are chosen.         *)
HostWrites == out' = Append(out, [seq |-> LargestOut + 2, by |-> "host", task |-> 0])
WriterWrites(w) ==
    /\ draft[w] # None /\ ~Taken(draft[w].seq)
    /\ out' = Append(out, [seq |-> draft[w].seq, by |-> w, task |-> draft[w].task])
Chosen(w) ==
    \E t \in {0} \cup page, c \in Calls \cup {None} :
        draft' = [draft EXCEPT ![w] = [seq |-> NextSeq, task |-> t, call |-> c]]

LEMMA RowMoves ==
    ASSUME [Next]_vars
    PROVE  /\ out' = out \/ HostWrites \/ \E w \in Writers : WriterWrites(w)
           /\ \/ draft' = draft
              \/ \E w \in Writers : draft' = [draft EXCEPT ![w] = None] \/ Chosen(w)
              \/ draft' = [w \in Writers |-> None]
           /\ inbound' = inbound \/ (inbound < MaxInbound /\ inbound' = inbound + 1)
<1>1. ASSUME NEW w \in Writers, Insert(w)
      PROVE  /\ out' = out \/ WriterWrites(w)
             /\ draft' = [draft EXCEPT ![w] = None] /\ inbound' = inbound
  BY <1>1 DEF Insert, WriterWrites
<1>2. CASE HostRefuses \/ InboundArrives
  BY <1>2 DEF HostRefuses, HostWrites, InboundArrives
<1>3. CASE Reply
  <2>1. Chosen("runner")
    BY <1>3 DEF Reply, Draft, Chosen
  <2> QED  BY <1>3, <2>1 DEF Reply, Writers
<1>4. CASE WriteTask
  <2>1. Chosen("runner")
    BY <1>4 DEF WriteTask, Draft, Chosen
  <2> QED  BY <1>4, <2>1 DEF WriteTask, Writers
<1>5. ASSUME NEW c \in Calls, FileEnds(c) \/ CallMessage(c) \/ PreviewEnds(c)
      PROVE  /\ out' = out /\ inbound' = inbound
             /\ draft' = draft \/ Chosen("mcp")
  <2>1. Draft("mcp", 0, c) => Chosen("mcp")
    BY DEF Draft, Chosen
  <2> QED  BY <1>5, <2>1 DEF FileEnds, CallMessage, PreviewEnds
<1>6. CASE RunnerEnds
  BY <1>6 DEF RunnerEnds
<1>7. ASSUME \/ \E c \in Calls : CallFile(c) \/ ConfirmEnds(c) \/ ExecuteEnds(c)
             \/ \E c \in Calls, p \in Payloads : CallPreview(c, p) \/ CallConfirmed(c, p)
             \/ \E p \in Payloads : Expire(p)
             \/ CallFree \/ TaskFinishes \/ LoopStarts \/ Poll \/ PollEnds \/ SaveCursor
             \/ UNCHANGED vars
      PROVE  UNCHANGED rows
  BY <1>7 DEF CallFile, ConfirmEnds, ExecuteEnds, CallPreview, CallConfirmed, Expire, CallFree,
              TaskFinishes, LoopStarts, Poll, PollEnds, SaveCursor, vars
<1> QED
  BY <1>1, <1>2, <1>3, <1>4, <1>5, <1>6, <1>7 DEF Next, Writers, rows

LEMMA RowsStep ==
    ASSUME RowsTyped, page \subseteq Tasks, NumbersSound, [Next]_vars
    PROVE  RowsTyped' /\ NumbersSound'
<1>1. /\ Len(out) \in Nat /\ DOMAIN out = 1..Len(out)
      /\ \A i \in 1..Len(out) : out[i].seq \in Nat
      /\ out \in Seq(Row) /\ draft \in [Writers -> {None} \cup Drafted]
  BY RowTypes DEF RowsTyped, Row, Drafted
<1>2. /\ LargestOut \in Nat /\ \A i \in DOMAIN out : out[i].seq <= LargestOut
      /\ NextSeq \in Nat \ {0} /\ NextSeq % 2 = 1
  BY NextNumbers
<1>3. inbound' \in 0..MaxInbound
  BY RowMoves, BoundsAssumption DEF RowsTyped
<1>4. /\ draft' \in [Writers -> {None} \cup Drafted]
      /\ \A w \in Writers : draft'[w] # None => draft'[w].seq % 2 = 1
  <2>1. ASSUME NEW w \in Writers, Chosen(w)
        PROVE  /\ draft' \in [Writers -> {None} \cup Drafted]
               /\ \A v \in Writers : draft'[v] # None => draft'[v].seq % 2 = 1
    <3>1. PICK t \in {0} \cup page, c \in Calls \cup {None} :
            draft' = [draft EXCEPT ![w] = [seq |-> NextSeq, task |-> t, call |-> c]]
      BY <2>1 DEF Chosen
    <3>2. [seq |-> NextSeq, task |-> t, call |-> c] \in Drafted
      BY <1>2, <3>1 DEF Drafted, Subject
    <3>3. [seq |-> NextSeq, task |-> t, call |-> c].seq % 2 = 1
      BY <1>2
    <3> HIDE DEF Drafted
    <3> QED  BY <1>1, <3>1, <3>2, <3>3 DEF NumbersSound
  <2>2. ASSUME NEW w \in Writers, draft' = [draft EXCEPT ![w] = None]
        PROVE  /\ draft' \in [Writers -> {None} \cup Drafted]
               /\ \A v \in Writers : draft'[v] # None => draft'[v].seq % 2 = 1
    BY <1>1, <2>2 DEF NumbersSound
  <2> QED  BY <1>1, <2>1, <2>2, RowMoves DEF NumbersSound
<1>5. ASSUME NEW row \in Row, out' = Append(out, row),
             \A i \in DOMAIN out : out[i].seq # row.seq,
             row.by # "host" => row.seq % 2 = 1
      PROVE  /\ out' \in Seq(Row)
             /\ \A i, j \in DOMAIN out' : out'[i].seq = out'[j].seq => i = j
             /\ \A i \in DOMAIN out' : out'[i].by # "host" => out'[i].seq % 2 = 1
  <2>1. /\ out' \in Seq(Row) /\ DOMAIN out' = 1..(Len(out) + 1)
        /\ out'[Len(out) + 1] = row
        /\ \A i \in 1..Len(out) : out'[i] = out[i]
    BY <1>1, <1>5
  <2>2. \A i \in 1..(Len(out) + 1) : i \in 1..Len(out) \/ i = Len(out) + 1
    BY <1>1
  <2> QED  BY <1>1, <1>5, <2>1, <2>2 DEF NumbersSound
<1>6. /\ out' \in Seq(Row)
      /\ \A i, j \in DOMAIN out' : out'[i].seq = out'[j].seq => i = j
      /\ \A i \in DOMAIN out' : out'[i].by # "host" => out'[i].seq % 2 = 1
  <2>1. CASE HostWrites
    <3> DEFINE row == [seq |-> LargestOut + 2, by |-> "host", task |-> 0]
    <3>1. row \in Row /\ row.by = "host" /\ row.seq = LargestOut + 2
      BY <1>2 DEF Row, Subject
    <3>2. \A i \in DOMAIN out : out[i].seq # row.seq
      BY <1>1, <1>2
    <3>3. out' = Append(out, row)
      BY <2>1 DEF HostWrites
    <3> HIDE DEF row
    <3> QED  BY <1>5, <3>1, <3>2, <3>3
  <2>2. ASSUME NEW w \in Writers, WriterWrites(w)
        PROVE  /\ out' \in Seq(Row)
               /\ \A i, j \in DOMAIN out' : out'[i].seq = out'[j].seq => i = j
               /\ \A i \in DOMAIN out' : out'[i].by # "host" => out'[i].seq % 2 = 1
    <3> DEFINE row == [seq |-> draft[w].seq, by |-> w, task |-> draft[w].task]
    <3>1. draft[w] \in Drafted /\ draft[w].seq % 2 = 1
      BY <1>1, <2>2 DEF WriterWrites, NumbersSound
    <3>2. row \in Row /\ row.seq = draft[w].seq
      BY <3>1 DEF Row, Drafted
    <3>3. \A i \in DOMAIN out : out[i].seq # row.seq
      BY <2>2 DEF WriterWrites, Taken
    <3>4. out' = Append(out, row)
      BY <2>2 DEF WriterWrites
    <3> HIDE DEF row
    <3> QED  BY <1>5, <3>1, <3>2, <3>3, <3>4
  <2>3. CASE out' = out
    BY <1>1, <2>3 DEF NumbersSound
  <2> QED  BY <2>1, <2>2, <2>3, RowMoves
<1> QED  BY <1>3, <1>4, <1>6 DEF RowsTyped, NumbersSound, Row, Drafted

-----------------------------------------------------------------------------
(* The feed's types, and the numbers in every reachable state *)

LEMMA NowIsNumber == ASSUME FeedTyped PROVE Now \in Nat
BY BoundsAssumption DEF FeedTyped, Now

LEMMA FeedTypes ==
    ASSUME RowsTyped, FeedTyped, [Next]_vars
    PROVE  FeedTyped'
<1>1. ASSUME NEW w \in Writers, Insert(w) PROVE FeedTyped'
  <2>1. draft[w] \in Drafted
    BY <1>1 DEF RowsTyped, Drafted, Insert
  <2>2. draft[w].task # 0 => Stamp[draft[w].task] \in Nat
    BY <2>1, BoundsAssumption DEF Drafted, Subject, Tasks
  <2>3. reached' \in Nat /\ page' \subseteq Tasks
    BY <1>1, <2>2 DEF Insert, FeedTyped, ReachedOnFailure
  <2> QED  BY <1>1, <2>3 DEF Insert, FeedTyped
<1>2. CASE LoopStarts
  BY <1>2, NowIsNumber, NoneAssumption DEF LoopStarts, FeedTyped
<1>3. CASE PollEnds
  <2>1. Feed \subseteq Tasks
    BY BoundsAssumption DEF Feed, FeedTyped, Tasks
  <2> QED  BY <1>3, <2>1 DEF PollEnds, FeedTyped
<1>4. CASE TaskFinishes \/ Poll \/ RunnerEnds
  <2>1. CASE TaskFinishes
    BY <2>1, BoundsAssumption DEF TaskFinishes, FeedTyped
  <2>2. CASE Poll
    BY <2>2 DEF Poll, FeedTyped
  <2>3. CASE RunnerEnds
    BY <2>3 DEF RunnerEnds, FeedTyped
  <2> QED  BY <1>4, <2>1, <2>2, <2>3
<1>5. CASE SaveCursor
  BY <1>5 DEF SaveCursor, Kept, FeedTyped
<1>6. ASSUME \/ \E c \in Calls : \/ CallFile(c) \/ FileEnds(c) \/ CallMessage(c) \/ PreviewEnds(c)
                                \/ ConfirmEnds(c) \/ ExecuteEnds(c)
             \/ \E c \in Calls, p \in Payloads : CallPreview(c, p) \/ CallConfirmed(c, p)
             \/ \E p \in Payloads : Expire(p)
             \/ InboundArrives \/ HostRefuses \/ Reply \/ CallFree \/ WriteTask \/ UNCHANGED vars
      PROVE  UNCHANGED feed
  BY <1>6 DEF CallFile, FileEnds, CallMessage, PreviewEnds, ConfirmEnds, ExecuteEnds, CallPreview,
              CallConfirmed, Expire, InboundArrives, HostRefuses, Reply, CallFree, WriteTask, vars
<1>7. CASE UNCHANGED feed
  BY <1>7 DEF feed, FeedTyped
<1> QED  BY <1>1, <1>2, <1>3, <1>4, <1>5, <1>6, <1>7 DEF Next

(* The number of every message the runner or its tools wrote is odd and     *)
(* names that message only, however the two processes and the host          *)
(* interleave the choice of a number and the insert (NumbersResolve).       *)
THEOREM NumbersAreNames == Spec => []NumbersResolve
<1> DEFINE Inv == RowsTyped /\ FeedTyped /\ NumbersSound
<1>1. Init => Inv
  BY BoundsAssumption DEF Init, RowsTyped, FeedTyped, NumbersSound
<1>2. Inv /\ [Next]_vars => Inv'
  <2>1. FeedTyped => page \subseteq Tasks
    BY DEF FeedTyped
  <2> QED  BY <2>1, RowsStep, FeedTypes
<1>3. Inv => NumbersResolve
  BY DEF NumbersSound, NumbersResolve
<1> QED  BY <1>1, <1>2, <1>3, PTL DEF Spec

-----------------------------------------------------------------------------
(* The gate of the founder's actions *)

CallRow == [phase : {"idle", "fetch", "preview", "confirm", "execute", "write"},
            payload : Payloads \cup {None}, request : Requests \cup {None}]
Users(r) == {c \in Calls : call[c].request = r}

(* A call that has a request is confirming or executing it, for the payload *)
(* it was previewed with; a preview under way has a payload.                *)
CallsHold ==
    \A c \in Calls :
        /\ call[c].phase \in {"confirm", "execute"} <=> call[c].request # None
        /\ call[c].request # None =>
             call[c].payload # None /\ payloadOf[call[c].request] = call[c].payload
        /\ call[c].phase = "preview" => call[c].payload # None
(* pendingApprovals keeps requests under their own payload.                 *)
CacheHolds == \A p \in Payloads : cache[p] # None => payloadOf[cache[p]] = p
(* Executions, with the calls that may still execute, are paid for by the   *)
(* preview and by the excuses; a remembered request nobody works on has its *)
(* preview still to spend.                                                  *)
Paid ==
    /\ \A r \in Requests : applied[r] + Cardinality(Users(r)) <= 1 + excuse[r]
    /\ \A r \in Requests : payloadOf[r] = None => applied[r] = 0
Unspent ==
    \A p \in Payloads : cache[p] # None /\ Users(cache[p]) = {} =>
        applied[cache[p]] <= excuse[cache[p]]
GateSound == CallsHold /\ CacheHolds /\ Paid /\ Unspent

LEMMA UsersCount ==
    \A r \in Requests : IsFiniteSet(Users(r)) /\ Cardinality(Users(r)) \in Nat
BY BoundsAssumption, FS_Subset, FS_CardinalityType DEF Users

(* Calls let go of their requests or keep them: nothing new is owed.        *)
LEMMA Released ==
    ASSUME GateTyped, GateSound,
           call' \in [Calls -> CallRow], CallsHold', cache' \in [Payloads -> Requests \cup {None}],
           payloadOf' = payloadOf, applied' = applied, excuse' = excuse,
           \A c \in Calls : call'[c].request \in {None, call[c].request},
           \A p \in Payloads : cache'[p] \in {None, cache[p]}
    PROVE  GateTyped' /\ GateSound'
<1>0. NoneAssumption /\ None \notin Requests
  BY NoneAssumption DEF Requests, NoneAssumption
<1>1. GateTyped'
  BY DEF GateTyped, CallRow
<1>2. CacheHolds'
  BY DEF GateSound, CacheHolds
<1> DEFINE Left(r) == {c \in Calls : call'[c].request = r}
<1>3. ASSUME NEW r \in Requests
      PROVE  /\ Left(r) \subseteq Users(r) /\ IsFiniteSet(Left(r))
             /\ Cardinality(Left(r)) \in Nat /\ Cardinality(Left(r)) <= Cardinality(Users(r))
             /\ Users(r) # {} => Cardinality(Users(r)) >= 1
  <2>1. Left(r) \subseteq Users(r)
    BY <1>0 DEF Users
  <2> HIDE DEF Left
  <2>2. IsFiniteSet(Users(r)) /\ Cardinality(Users(r)) \in Nat
    BY UsersCount
  <2>3. IsFiniteSet(Left(r)) /\ Cardinality(Left(r)) \in Nat /\ Cardinality(Left(r)) <= Cardinality(Users(r))
    BY <2>1, <2>2, FS_Subset, FS_CardinalityType
  <2>4. Users(r) # {} => Cardinality(Users(r)) # 0
    BY <2>2, FS_EmptySet
  <2> QED  BY <2>1, <2>2, <2>3, <2>4
<1>4. \A r \in Requests : Users(r)' = Left(r)
  BY DEF Users
<1>5. \A r \in Requests : applied[r] \in Nat /\ excuse[r] \in Nat
  BY DEF GateTyped
<1> HIDE DEF Left
<1>6. Paid'
  <2>1. ASSUME NEW r \in Requests
        PROVE  /\ applied'[r] + Cardinality(Left(r)) <= 1 + excuse'[r]
               /\ payloadOf'[r] = None => applied'[r] = 0
    <3>1. applied[r] + Cardinality(Users(r)) <= 1 + excuse[r]
      BY DEF GateSound, Paid
    <3>2. payloadOf[r] = None => applied[r] = 0
      BY DEF GateSound, Paid
    <3> QED  BY <1>3, <1>5, <3>1, <3>2, UsersCount
  <2> QED  BY <1>4, <2>1 DEF Paid
<1>7. Unspent'
  <2> SUFFICES ASSUME NEW p \in Payloads, cache'[p] # None, Left(cache'[p]) = {}
               PROVE  applied'[cache'[p]] <= excuse'[cache'[p]]
    BY DEF Unspent, Users, Left
  <2>1. cache'[p] = cache[p] /\ cache[p] \in Requests
    BY DEF GateTyped
  <2>2. CASE Users(cache[p]) = {}
    BY <2>1, <2>2 DEF GateSound, Unspent
  <2>3. CASE Users(cache[p]) # {}
    <3>1. Cardinality(Users(cache[p])) >= 1 /\ Cardinality(Users(cache[p])) \in Nat
      BY <1>3, <2>1, <2>3, UsersCount
    <3>2. applied[cache[p]] + Cardinality(Users(cache[p])) <= 1 + excuse[cache[p]]
      BY <2>1 DEF GateSound, Paid
    <3> QED  BY <1>5, <2>1, <3>1, <3>2
  <2> QED  BY <2>2, <2>3
<1> QED  BY <1>1, <1>2, <1>6, <1>7 DEF GateSound

(* A call that goes on without a request, or with the one it has, and       *)
(* forgets at most what is remembered.                                      *)
LEMMA OneReleased ==
    ASSUME GateTyped, GateSound, NEW c \in Calls, NEW row \in CallRow,
           call' = [call EXCEPT ![c] = row],
           row.request \in {None, call[c].request},
           row.phase \in {"confirm", "execute"} <=> row.request # None,
           row.request # None => row.payload = call[c].payload,
           row.phase = "preview" => row.payload # None,
           cache' \in [Payloads -> Requests \cup {None}],
           \A p \in Payloads : cache'[p] \in {None, cache[p]},
           payloadOf' = payloadOf, applied' = applied, excuse' = excuse
    PROVE  GateTyped' /\ GateSound'
<1>1. call \in [Calls -> CallRow]
  BY DEF GateTyped, CallRow
<1>2. call' \in [Calls -> CallRow] /\ call'[c] = row /\ \A d \in Calls \ {c} : call'[d] = call[d]
  <2> HIDE DEF CallRow
  <2> QED  BY <1>1
<1>3. CallsHold
  BY DEF GateSound
<1>4. CallsHold'
  <2> SUFFICES ASSUME NEW d \in Calls
               PROVE  /\ call'[d].phase \in {"confirm", "execute"} <=> call'[d].request # None
                      /\ call'[d].request # None =>
                           call'[d].payload # None /\ payloadOf'[call'[d].request] = call'[d].payload
                      /\ call'[d].phase = "preview" => call'[d].payload # None
    BY DEF CallsHold
  <2>1. CASE d = c
    BY <1>2, <1>3, <2>1 DEF CallsHold
  <2>2. CASE d # c
    BY <1>2, <1>3, <2>2 DEF CallsHold
  <2> QED  BY <2>1, <2>2
<1>5. \A d \in Calls : call'[d].request \in {None, call[d].request}
  BY <1>2
<1> HIDE DEF GateSound, GateTyped, CallRow, CallsHold
<1> QED  BY <1>2, <1>4, <1>5, Released

LEMMA InsertGate ==
    ASSUME GateTyped, GateSound, NEW w \in Writers, Insert(w)
    PROVE  GateTyped' /\ GateSound'
<1>1. call \in [Calls -> CallRow] /\ Resting \in CallRow /\ Resting.request = None
  BY DEF GateTyped, CallRow, Resting
<1>2. call' = [c \in Calls |-> IF c = draft[w].call THEN Resting ELSE call[c]]
  BY DEF Insert
<1>3. call' \in [Calls -> CallRow] /\ \A c \in Calls : call'[c] = call[c] \/ call'[c] = Resting
  <2> HIDE DEF CallRow
  <2> QED  BY <1>1, <1>2
<1>4. CallsHold'
  BY <1>3 DEF CallsHold, GateSound, Resting, Insert
<1>5. /\ payloadOf' = payloadOf /\ applied' = applied /\ excuse' = excuse
      /\ cache' = cache /\ cache \in [Payloads -> Requests \cup {None}]
  BY DEF Insert, GateTyped
<1>6. \A c \in Calls : call'[c].request \in {None, call[c].request}
  BY <1>1, <1>3
<1> HIDE DEF GateSound, GateTyped, CallRow, CallsHold
<1> QED  BY <1>3, <1>4, <1>5, <1>6, Released

(* Calls without a request: tools that only write a message, and previews   *)
(* that are asked for or fail.                                              *)
LEMMA PlainCalls ==
    ASSUME GateTyped, GateSound, NEW c \in Calls,
           \/ CallFile(c) \/ FileEnds(c) \/ CallMessage(c)
           \/ \E p \in Payloads : CallPreview(c, p)
           \/ PreviewEnds(c) /\ payloadOf' = payloadOf /\ cache' = cache
    PROVE  GateTyped' /\ GateSound'
<1>1. /\ payloadOf' = payloadOf /\ applied' = applied /\ excuse' = excuse
      /\ cache' = cache /\ cache \in [Payloads -> Requests \cup {None}]
  BY DEF CallFile, FileEnds, CallMessage, CallPreview, PreviewEnds, GateTyped
<1>2. \E phase \in {"idle", "fetch", "write"} :
        call' = [call EXCEPT ![c] = [phase |-> phase, payload |-> None, request |-> None]]
      \/ \E p \in Payloads :
        call' = [call EXCEPT ![c] = [phase |-> "preview", payload |-> p, request |-> None]]
  BY DEF CallFile, FileEnds, CallMessage, CallPreview, PreviewEnds, Goes, Ends, Resting
<1>3. ASSUME NEW phase \in {"idle", "fetch", "write"},
             call' = [call EXCEPT ![c] = [phase |-> phase, payload |-> None, request |-> None]]
      PROVE  GateTyped' /\ GateSound'
  <2> DEFINE row == [phase |-> phase, payload |-> None, request |-> None]
  <2>1. row \in CallRow /\ row.request = None /\ row.phase \notin {"confirm", "execute", "preview"}
    BY DEF CallRow
  <2>2. call' = [call EXCEPT ![c] = row]
    BY <1>3
  <2> HIDE DEF row, GateSound, GateTyped, CallRow
  <2> QED  BY <1>1, <2>1, <2>2, OneReleased
<1>4. ASSUME NEW p \in Payloads,
             call' = [call EXCEPT ![c] = [phase |-> "preview", payload |-> p, request |-> None]]
      PROVE  GateTyped' /\ GateSound'
  <2> DEFINE row == [phase |-> "preview", payload |-> p, request |-> None]
  <2>1. /\ row \in CallRow /\ row.request = None /\ row.phase = "preview" /\ row.payload # None
    BY NoneAssumption DEF CallRow
  <2>2. call' = [call EXCEPT ![c] = row]
    BY <1>4
  <2>3. row.phase \notin {"confirm", "execute"}
    BY <2>1
  <2> HIDE DEF row, GateSound, GateTyped, CallRow
  <2> QED  BY <1>1, <2>1, <2>2, <2>3, OneReleased
<1> QED  BY <1>2, <1>3, <1>4

LEMMA ConfirmGate ==
    ASSUME GateTyped, GateSound, NEW c \in Calls, ConfirmEnds(c)
    PROVE  GateTyped' /\ GateSound'
<1> DEFINE p == call[c].payload
           r == call[c].request
<1>1. payloadOf' = payloadOf /\ applied' = applied /\ excuse' = excuse
  BY DEF ConfirmEnds
<1>2. cache' \in [Payloads -> Requests \cup {None}] /\ \A q \in Payloads : cache'[q] \in {None, cache[q]}
  BY DEF ConfirmEnds, Forgotten, Key, GateTyped
<1>3. call[c] \in CallRow /\ r # None
  BY DEF GateTyped, GateSound, CallsHold, CallRow, ConfirmEnds
<1>4. CASE Goes(c, "execute", p, r)
  <2> DEFINE row == [phase |-> "execute", payload |-> p, request |-> r]
  <2>1. row \in CallRow /\ row.request = r /\ row.phase = "execute" /\ row.payload = p
    BY <1>3 DEF CallRow
  <2>2. call' = [call EXCEPT ![c] = row]
    BY <1>4 DEF Goes
  <2>3. row.phase \in {"confirm", "execute"} /\ row.phase # "preview" /\ row.request # None
    BY <1>3, <2>1
  <2>4. row.request \in {None, call[c].request} /\ row.payload = call[c].payload
    BY <2>1
  <2> HIDE DEF row, GateSound, GateTyped, CallRow
  <2> QED  BY <1>1, <1>2, <2>1, <2>2, <2>3, <2>4, OneReleased
<1>5. CASE Ends(c)
  <2>1. /\ Resting \in CallRow /\ Resting.request = None
        /\ Resting.phase \notin {"confirm", "execute", "preview"}
    BY DEF Resting, CallRow
  <2>2. call' = [call EXCEPT ![c] = Resting]
    BY <1>5 DEF Ends
  <2> HIDE DEF Resting, GateSound, GateTyped, CallRow
  <2> QED  BY <1>1, <1>2, <2>1, <2>2, OneReleased
<1> QED  BY <1>4, <1>5 DEF ConfirmEnds

(* A preview that succeeds: a request nobody has yet.                       *)
LEMMA PreviewGate ==
    ASSUME GateTyped, GateSound, NEW c \in Calls, NEW r \in Requests, payloadOf[r] = None,
           call[c].phase = "preview",
           payloadOf' = [payloadOf EXCEPT ![r] = call[c].payload],
           cache' = [cache EXCEPT ![Key(call[c].payload)] = r],
           Goes(c, "write", None, None) \/ Ends(c), applied' = applied, excuse' = excuse
    PROVE  GateTyped' /\ GateSound'
<1> DEFINE p == call[c].payload
           Plain == [phase : {"idle", "write"}, payload : {None}, request : {None}]
<1>1. /\ p \in Payloads /\ call[c].request = None
      /\ call \in [Calls -> CallRow]
  BY DEF GateTyped, GateSound, CallsHold, CallRow
<1>2. PICK row \in Plain : call' = [call EXCEPT ![c] = row]
  BY DEF Goes, Ends, Resting
<1>3. row \in CallRow /\ row.request = None /\ row.phase \notin {"confirm", "execute", "preview"}
  BY <1>2 DEF CallRow
<1>4. call' \in [Calls -> CallRow] /\ call'[c] = row /\ \A d \in Calls \ {c} : call'[d] = call[d]
  <2> HIDE DEF CallRow, Plain
  <2> QED  BY <1>1, <1>2, <1>3
<1>5. /\ payloadOf' \in [Requests -> Payloads \cup {None}] /\ payloadOf'[r] = p
      /\ \A q \in Requests \ {r} : payloadOf'[q] = payloadOf[q]
      /\ cache' \in [Payloads -> Requests \cup {None}] /\ cache'[p] = r
      /\ \A q \in Payloads \ {p} : cache'[q] = cache[q]
      /\ None \notin Requests /\ p # None
  BY <1>1, NoneAssumption DEF GateTyped, Key, Requests
<1>6. GateTyped'
  BY <1>4, <1>5 DEF GateTyped, CallRow
<1>7. \A d \in Calls : call[d].request # r
  BY <1>5 DEF GateSound, CallsHold
<1>8. \A d \in Calls : call'[d].request = call[d].request
  BY <1>1, <1>3, <1>4
<1>9. CallsHold'
  <2> SUFFICES ASSUME NEW d \in Calls
               PROVE  /\ call'[d].phase \in {"confirm", "execute"} <=> call'[d].request # None
                      /\ call'[d].request # None =>
                           call'[d].payload # None /\ payloadOf'[call'[d].request] = call'[d].payload
                      /\ call'[d].phase = "preview" => call'[d].payload # None
    BY DEF CallsHold
  <2>1. CASE d = c
    BY <1>3, <1>4, <2>1
  <2>2. CASE d # c
    <3>1. call'[d] = call[d] /\ call[d].request \in Requests \cup {None} /\ call[d].request # r
      BY <1>1, <1>4, <1>7, <2>2 DEF CallRow
    <3>2. call[d].request # None => payloadOf'[call[d].request] = payloadOf[call[d].request]
      BY <1>5, <3>1
    <3> QED  BY <3>1, <3>2 DEF GateSound, CallsHold
  <2> QED  BY <2>1, <2>2
<1>10. CacheHolds'
  <2> SUFFICES ASSUME NEW q \in Payloads, cache'[q] # None PROVE payloadOf'[cache'[q]] = q
    BY DEF CacheHolds
  <2>1. CASE q = p
    BY <1>5, <2>1
  <2>2. CASE q # p
    <3>1. cache[q] = cache'[q] /\ cache[q] \in Requests /\ payloadOf[cache[q]] = q
      BY <1>5, <2>2 DEF GateTyped, GateSound, CacheHolds
    <3>2. cache[q] # r
      BY <3>1, NoneAssumption
    <3> QED  BY <1>5, <3>1, <3>2
  <2> QED  BY <2>1, <2>2
<1>11. \A q : {d \in Calls : call'[d].request = q} = Users(q)
  BY <1>8 DEF Users
<1>12. \A q \in Requests : applied[q] \in Nat /\ excuse[q] \in Nat
  BY DEF GateTyped
<1>13. applied[r] = 0
  BY DEF GateSound, Paid
<1>14. Paid'
  <2>1. \A q \in Requests : payloadOf'[q] = None => applied'[q] = 0
    BY <1>5 DEF GateSound, Paid
  <2> QED  BY <1>11, <2>1 DEF GateSound, Paid, Users
<1>15. Unspent'
  <2> SUFFICES ASSUME NEW q \in Payloads, cache'[q] # None, Users(cache'[q]) = {}
               PROVE  applied[cache'[q]] <= excuse[cache'[q]]
    BY <1>11 DEF Unspent, Users
  <2>1. CASE q = p
    BY <1>5, <1>12, <1>13, <2>1
  <2>2. CASE q # p
    BY <1>5, <2>2 DEF GateSound, Unspent
  <2> QED  BY <2>1, <2>2
<1> QED  BY <1>6, <1>9, <1>10, <1>14, <1>15 DEF GateSound

(* A confirmed call takes up the remembered request.                        *)
LEMMA ConfirmedGate ==
    ASSUME GateTyped, GateSound, NEW c \in Calls, NEW p \in Payloads, CallConfirmed(c, p)
    PROVE  GateTyped' /\ GateSound'
<1> DEFINE r == cache[p]
           row == [phase |-> "confirm", payload |-> p, request |-> r]
           Left(q) == {d \in Calls : call'[d].request = q}
<1>1. /\ r \in Requests /\ payloadOf[r] = p /\ p # None /\ r # None
      /\ call[c].phase = "idle" /\ call[c].request = None
      /\ payloadOf' = payloadOf /\ applied' = applied /\ cache' = cache
      /\ call' = [call EXCEPT ![c] = row]
      /\ IF InUse(r) THEN excuse' = [excuse EXCEPT ![r] = @ + 1] ELSE excuse' = excuse
  BY NoneAssumption DEF GateTyped, GateSound, CallsHold, CacheHolds, CallConfirmed, Key, Goes, Excused
<1>2. row \in CallRow /\ row.request = r /\ row.phase = "confirm" /\ row.payload = p
  BY <1>1 DEF CallRow
<1>3. call \in [Calls -> CallRow] /\ \A q \in Requests : applied[q] \in Nat /\ excuse[q] \in Nat
  BY DEF GateTyped, CallRow
<1> HIDE DEF r, row
<1>4. call' \in [Calls -> CallRow] /\ call'[c] = row /\ \A d \in Calls \ {c} : call'[d] = call[d]
  <2> HIDE DEF CallRow
  <2> QED  BY <1>1, <1>2, <1>3
<1>5. GateTyped'
  <2>1. excuse' \in [Requests -> Nat]
    BY <1>1 DEF GateTyped
  <2> QED  BY <1>1, <1>4, <2>1 DEF GateTyped, CallRow
<1>6. CallsHold'
  BY <1>1, <1>2, <1>4 DEF GateSound, CallsHold
<1>7. CacheHolds'
  BY <1>1 DEF GateSound, CacheHolds
<1>8. Left(r) = Users(r) \cup {c} /\ c \notin Users(r)
  BY <1>1, <1>2, <1>4 DEF Users
<1>9. \A q \in Requests \ {r} : Left(q) = Users(q)
  BY <1>1, <1>2, <1>4, NoneAssumption DEF Users, Requests
<1>10. Cardinality(Left(r)) = Cardinality(Users(r)) + 1
  BY <1>1, <1>8, UsersCount, FS_AddElement
<1>11. ~InUse(r) => Users(r) = {} /\ Cardinality(Users(r)) = 0
  BY FS_EmptySet DEF InUse, Users
<1>12. excuse'[r] \in Nat /\ \A q \in Requests \ {r} : excuse'[q] = excuse[q]
  BY <1>1, <1>3 DEF GateTyped
<1>13. applied[r] + Cardinality(Users(r)) <= 1 + excuse[r] /\ Cardinality(Users(r)) \in Nat
  BY <1>1, UsersCount DEF GateSound, Paid
<1>14. applied[r] + Cardinality(Left(r)) <= 1 + excuse'[r]
  <2>1. CASE InUse(r)
    <3>1. excuse'[r] = excuse[r] + 1
      BY <1>1, <2>1 DEF GateTyped
    <3> QED  BY <1>1, <1>3, <1>10, <1>13, <3>1
  <2>2. CASE ~InUse(r)
    <3>1. excuse' = excuse /\ applied[r] <= excuse[r]
      BY <1>1, <1>11, <2>2 DEF GateSound, Unspent, r
    <3> QED  BY <1>1, <1>3, <1>10, <1>11, <2>2, <3>1
  <2> QED  BY <2>1, <2>2
<1>15. Paid'
  <2> SUFFICES ASSUME NEW q \in Requests
               PROVE  /\ applied[q] + Cardinality(Left(q)) <= 1 + excuse'[q]
                      /\ payloadOf[q] = None => applied[q] = 0
    BY <1>1 DEF Paid, Users
  <2>1. CASE q = r
    BY <1>1, <1>14, <2>1
  <2>2. CASE q # r
    BY <1>9, <1>12, <2>2 DEF GateSound, Paid
  <2> QED  BY <2>1, <2>2
<1>16. Unspent'
  <2> SUFFICES ASSUME NEW q \in Payloads, cache[q] # None, Left(cache[q]) = {}
               PROVE  applied[cache[q]] <= excuse'[cache[q]]
    BY <1>1 DEF Unspent, Users
  <2>1. cache[q] \in Requests
    BY DEF GateTyped
  <2>2. cache[q] # r
    BY <1>8
  <2> QED  BY <1>9, <1>12, <2>1, <2>2 DEF GateSound, Unspent
<1> QED  BY <1>5, <1>6, <1>7, <1>15, <1>16 DEF GateSound

(* An execution is one for the call that ends with it.                      *)
LEMMA ExecuteGate ==
    ASSUME GateTyped, GateSound, NEW c \in Calls, ExecuteEnds(c)
    PROVE  GateTyped' /\ GateSound'
<1> DEFINE p == call[c].payload
           r == call[c].request
           Left(q) == {d \in Calls : call'[d].request = q}
<1>1. call \in [Calls -> CallRow] /\ \A q \in Requests : applied[q] \in Nat /\ excuse[q] \in Nat
  BY DEF GateTyped, CallRow
<1>2. r \in Requests /\ p \in Payloads /\ payloadOf[r] = p /\ r # None
  BY <1>1 DEF ExecuteEnds, GateSound, CallsHold, CallRow
<1>3. /\ payloadOf' = payloadOf
      /\ applied' = applied \/ applied' = [applied EXCEPT ![r] = @ + 1]
      /\ \/ cache' = Forgotten(p) /\ excuse' = excuse
         \/ excuse' = [excuse EXCEPT ![r] = @ + 1] /\ cache' = cache
      /\ call' = [call EXCEPT ![c] = Resting]
  BY DEF ExecuteEnds, Excused, Ends
<1>4. Resting \in CallRow /\ Resting.request = None /\ Resting.phase = "idle"
  BY DEF Resting, CallRow
<1> HIDE DEF r, p
<1>5. call' \in [Calls -> CallRow] /\ call'[c] = Resting /\ \A d \in Calls \ {c} : call'[d] = call[d]
  <2> HIDE DEF CallRow, Resting
  <2> QED  BY <1>1, <1>3, <1>4
<1>6. /\ applied' \in [Requests -> Nat] /\ excuse' \in [Requests -> Nat]
      /\ \A q \in Requests \ {r} : applied'[q] = applied[q] /\ excuse'[q] = excuse[q]
      /\ applied'[r] <= applied[r] + 1 /\ excuse'[r] >= excuse[r]
  BY <1>1, <1>2, <1>3 DEF GateTyped
<1>7. /\ cache' \in [Payloads -> Requests \cup {None}]
      /\ \A q \in Payloads : cache'[q] \in {None, cache[q]}
  BY <1>3 DEF Forgotten, Key, GateTyped
<1>8. GateTyped'
  BY <1>3, <1>5, <1>6, <1>7 DEF GateTyped, CallRow
<1>9. CallsHold'
  BY <1>3, <1>4, <1>5 DEF GateSound, CallsHold
<1>10. CacheHolds'
  BY <1>3, <1>7 DEF GateSound, CacheHolds
<1>11. Users(r) = Left(r) \cup {c} /\ c \notin Left(r)
  BY <1>2, <1>4, <1>5 DEF Users, r
<1>12. \A q \in Requests \ {r} : Left(q) = Users(q)
  BY <1>4, <1>5, NoneAssumption DEF Users, Requests, r
<1>13. /\ Cardinality(Users(r)) = Cardinality(Left(r)) + 1
       /\ Cardinality(Left(r)) \in Nat
  <2>1. IsFiniteSet(Left(r))
    BY <1>2, <1>11, UsersCount, FS_Subset
  <2> QED  BY <1>11, <2>1, FS_AddElement, FS_CardinalityType
<1>14. applied[r] + Cardinality(Users(r)) <= 1 + excuse[r]
  BY <1>2 DEF GateSound, Paid
<1>15. applied'[r] \in Nat /\ excuse'[r] \in Nat /\ applied[r] \in Nat /\ excuse[r] \in Nat
  BY <1>1, <1>2, <1>6
<1>16. Paid'
  <2> SUFFICES ASSUME NEW q \in Requests
               PROVE  /\ applied'[q] + Cardinality(Left(q)) <= 1 + excuse'[q]
                      /\ payloadOf[q] = None => applied'[q] = 0
    BY <1>3 DEF Paid, Users
  <2>1. CASE q = r
    <3>1. payloadOf[r] # None
      BY <1>2, NoneAssumption
    <3> QED  BY <1>6, <1>13, <1>14, <1>15, <2>1, <3>1
  <2>2. CASE q # r
    BY <1>6, <1>12, <2>2 DEF GateSound, Paid
  <2> QED  BY <2>1, <2>2
<1>17. Unspent'
  <2> SUFFICES ASSUME NEW q \in Payloads, cache'[q] # None, Left(cache'[q]) = {}
               PROVE  applied'[cache'[q]] <= excuse'[cache'[q]]
    BY DEF Unspent, Users
  <2>1. cache'[q] = cache[q] /\ cache[q] \in Requests /\ payloadOf[cache[q]] = q
    BY <1>7 DEF GateTyped, GateSound, CacheHolds
  <2>2. CASE cache[q] = r
    <3>1. q = p
      BY <1>2, <2>1, <2>2
    <3>2. excuse' = [excuse EXCEPT ![r] = @ + 1]
      BY <1>2, <1>3, <2>1, <3>1, NoneAssumption DEF Forgotten, Key, GateTyped, Requests
    <3>3. excuse'[r] = excuse[r] + 1
      BY <1>2, <3>2 DEF GateTyped
    <3>4. Cardinality(Users(r)) = 1
      <4>1. Left(r) = {}
        BY <2>1, <2>2
      <4>2. Cardinality(Left(r)) = 0
        BY <4>1, FS_EmptySet
      <4> HIDE DEF Left
      <4> QED  BY <1>13, <4>2
    <3> QED  BY <1>6, <1>14, <1>15, <2>1, <2>2, <3>3, <3>4
  <2>3. CASE cache[q] # r
    BY <1>6, <1>12, <2>1, <2>3 DEF GateSound, Unspent
  <2> QED  BY <2>2, <2>3
<1> QED  BY <1>8, <1>9, <1>10, <1>16, <1>17 DEF GateSound

(* The MCP server goes down with the runner; what it was executing may      *)
(* still be done.                                                           *)
LEMMA EndGate ==
    ASSUME GateTyped, GateSound, RunnerEnds
    PROVE  GateTyped' /\ GateSound'
<1>1. PICK late \in SUBSET {c \in Calls : call[c].phase = "execute"} :
        applied' = [r \in Requests |-> applied[r] + Cardinality({c \in late : call[c].request = r})]
  BY DEF RunnerEnds
<1>2. /\ payloadOf' = payloadOf /\ excuse' = excuse
      /\ call' = [c \in Calls |-> Resting] /\ cache' = [p \in Payloads |-> None]
  BY DEF RunnerEnds
<1> DEFINE Late(r) == {c \in late : call[c].request = r}
<1>3. ASSUME NEW r \in Requests
      PROVE  /\ Cardinality(Late(r)) \in Nat /\ Cardinality(Late(r)) <= Cardinality(Users(r))
             /\ payloadOf[r] = None => Late(r) = {}
  <2>1. Late(r) \subseteq Users(r)
    BY <1>1 DEF Users
  <2>2. payloadOf[r] = None => Late(r) = {}
    BY <1>1, NoneAssumption DEF GateSound, CallsHold, Requests
  <2> HIDE DEF Late
  <2>3. IsFiniteSet(Late(r))
    BY <2>1, UsersCount, FS_Subset
  <2> QED  BY <2>1, <2>2, <2>3, UsersCount, FS_Subset, FS_CardinalityType
<1>4. \A r \in Requests : applied'[r] = applied[r] + Cardinality(Late(r))
  BY <1>1
<1> HIDE DEF Late
<1>5. \A r \in Requests : applied[r] \in Nat /\ excuse[r] \in Nat
  BY DEF GateTyped
<1>6. GateTyped'
  <2>1. applied' \in [Requests -> Nat]
    BY <1>1, <1>3, <1>4, <1>5
  <2>2. call' \in [Calls -> CallRow]
    <3>1. Resting \in CallRow
      BY DEF Resting, CallRow
    <3> HIDE DEF CallRow
    <3> QED  BY <1>2, <3>1
  <2> QED  BY <1>2, <2>1, <2>2 DEF GateTyped, CallRow
<1>7. CallsHold' /\ CacheHolds' /\ Unspent'
  BY <1>2 DEF CallsHold, CacheHolds, Unspent, Resting
<1>8. ASSUME NEW r \in Requests PROVE {c \in Calls : call'[c].request = r} = {}
  BY <1>2, NoneAssumption DEF Resting, Requests
<1>9. Paid'
  <2>1. ASSUME NEW r \in Requests
        PROVE  /\ applied'[r] + 0 <= 1 + excuse'[r]
               /\ payloadOf'[r] = None => applied'[r] = 0
    <3>1. applied[r] + Cardinality(Users(r)) <= 1 + excuse[r] /\ Cardinality(Users(r)) \in Nat
      BY UsersCount DEF GateSound, Paid
    <3>2. payloadOf[r] = None => applied[r] = 0 /\ Cardinality(Late(r)) = 0
      BY <1>3, FS_EmptySet DEF GateSound, Paid
    <3> QED  BY <1>2, <1>3, <1>4, <1>5, <3>1, <3>2
  <2>2. Cardinality({}) = 0
    BY FS_EmptySet
  <2> QED  BY <1>8, <2>1, <2>2 DEF Paid, Users
<1> QED  BY <1>6, <1>7, <1>9 DEF GateSound

LEMMA GateStep ==
    ASSUME GateTyped, GateSound, [Next]_vars
    PROVE  GateTyped' /\ GateSound'
<1>1. ASSUME NEW w \in Writers, Insert(w) PROVE GateTyped' /\ GateSound'
  BY <1>1, InsertGate
<1>2. ASSUME NEW c \in Calls, CallFile(c) \/ FileEnds(c) \/ CallMessage(c)
      PROVE  GateTyped' /\ GateSound'
  BY <1>2, PlainCalls
<1>3. ASSUME NEW c \in Calls, NEW p \in Payloads, CallPreview(c, p) PROVE GateTyped' /\ GateSound'
  BY <1>3, PlainCalls
<1>4. ASSUME NEW c \in Calls, NEW p \in Payloads, CallConfirmed(c, p) PROVE GateTyped' /\ GateSound'
  BY <1>4, ConfirmedGate
<1>5. ASSUME NEW c \in Calls, PreviewEnds(c) PROVE GateTyped' /\ GateSound'
  <2>1. CASE payloadOf' = payloadOf /\ cache' = cache
    BY <1>5, <2>1, PlainCalls
  <2>2. CASE ~(payloadOf' = payloadOf /\ cache' = cache)
    <3>1. PICK r \in Requests :
            /\ payloadOf[r] = None
            /\ payloadOf' = [payloadOf EXCEPT ![r] = call[c].payload]
            /\ cache' = [cache EXCEPT ![Key(call[c].payload)] = r]
      BY <1>5, <2>2 DEF PreviewEnds
    <3>2. call[c].phase = "preview" /\ applied' = applied /\ excuse' = excuse
      BY <1>5 DEF PreviewEnds
    <3>3. Goes(c, "write", None, None) \/ Ends(c)
      BY <1>5 DEF PreviewEnds
    <3> QED  BY <3>1, <3>2, <3>3, PreviewGate
  <2> QED  BY <2>1, <2>2
<1>6. ASSUME NEW c \in Calls, ConfirmEnds(c) PROVE GateTyped' /\ GateSound'
  BY <1>6, ConfirmGate
<1>7. ASSUME NEW c \in Calls, ExecuteEnds(c) PROVE GateTyped' /\ GateSound'
  BY <1>7, ExecuteGate
<1>8. ASSUME NEW p \in Payloads, Expire(p) PROVE GateTyped' /\ GateSound'
  <2>1. /\ call' = call /\ payloadOf' = payloadOf /\ applied' = applied /\ excuse' = excuse
        /\ cache' \in [Payloads -> Requests \cup {None}]
        /\ \A q \in Payloads : cache'[q] \in {None, cache[q]}
    BY <1>8 DEF Expire, GateTyped
  <2>2. CallsHold' /\ call' \in [Calls -> CallRow]
    BY <2>1 DEF GateSound, CallsHold, GateTyped, CallRow
  <2>3. \A c \in Calls : call'[c].request \in {None, call[c].request}
    BY <2>1
  <2> HIDE DEF GateSound, GateTyped
  <2> QED  BY <2>1, <2>2, <2>3, Released
<1>9. CASE RunnerEnds
  BY <1>9, EndGate
<1>10. CASE UNCHANGED gate
  BY <1>10 DEF gate, GateTyped, GateSound, CallsHold, CacheHolds, Paid, Unspent, Users
<1>11. ASSUME \/ InboundArrives \/ HostRefuses \/ Reply \/ CallFree \/ TaskFinishes \/ LoopStarts
              \/ Poll \/ PollEnds \/ WriteTask \/ SaveCursor \/ UNCHANGED vars
       PROVE  UNCHANGED gate
  BY <1>11 DEF InboundArrives, HostRefuses, Reply, CallFree, TaskFinishes, LoopStarts,
               Poll, PollEnds, WriteTask, SaveCursor, vars
<1> QED
  BY <1>1, <1>2, <1>3, <1>4, <1>5, <1>6, <1>7, <1>8, <1>9, <1>10, <1>11 DEF Next

LEMMA GateHolds == Spec => [](GateTyped /\ GateSound)
<1>1. Init => GateTyped /\ GateSound
  <2> SUFFICES ASSUME Init PROVE GateTyped /\ GateSound
    OBVIOUS
  <2>1. GateTyped
    BY DEF Init, GateTyped, Resting
  <2>2. CallsHold /\ CacheHolds /\ Unspent
    BY DEF Init, CallsHold, CacheHolds, Unspent, Resting
  <2>3. \A r \in Requests : Users(r) = {}
    BY NoneAssumption DEF Init, Users, Resting, Requests
  <2>4. Cardinality({}) = 0
    BY FS_EmptySet
  <2>5. \A r \in Requests : applied[r] = 0 /\ excuse[r] = 0 /\ Cardinality(Users(r)) = 0
    BY <2>3, <2>4 DEF Init
  <2>6. Paid
    BY <2>5 DEF Paid
  <2> QED  BY <2>1, <2>2, <2>6 DEF GateSound
<1>2. (GateTyped /\ GateSound) /\ [Next]_vars => (GateTyped /\ GateSound)'
  BY GateStep
<1> QED  BY <1>1, <1>2, PTL DEF Spec

(* A gated action is executed once for a preview, but for the executions    *)
(* that timed out and the calls that overlapped (AppliedOncePerPreview):    *)
(* every call that may still execute is paid for already.                   *)
THEOREM PreviewsAreSpentOnce == Spec => []AppliedOncePerPreview
<1>1. GateTyped /\ GateSound => AppliedOncePerPreview
  <2> SUFFICES ASSUME GateTyped, GateSound, NEW r \in Requests PROVE applied[r] <= 1 + excuse[r]
    BY DEF AppliedOncePerPreview
  <2>1. applied[r] \in Nat /\ excuse[r] \in Nat /\ Cardinality(Users(r)) \in Nat
    BY UsersCount DEF GateTyped
  <2>2. applied[r] + Cardinality(Users(r)) <= 1 + excuse[r]
    BY DEF GateSound, Paid
  <2> QED  BY <2>1, <2>2
<1> QED  BY <1>1, GateHolds, PTL

(* What is confirmed and executed is the payload that was previewed         *)
(* (ConfirmedAsShown).                                                      *)
THEOREM ShownIsConfirmed == Spec => []ConfirmedAsShown
<1>1. GateTyped /\ GateSound => ConfirmedAsShown
  BY DEF GateSound, CallsHold, ConfirmedAsShown
<1> QED  BY <1>1, GateHolds, PTL

-----------------------------------------------------------------------------
(* The announcements of finished tasks *)

(* No two finished tasks have the same creation time: the feed asks for     *)
(* what is later than its cursor, so of two equal ones that a page limit    *)
(* parts the second is never shown.                                         *)
StampsAscend == \A t, u \in Tasks : t < u => Stamp[t] < Stamp[u]

(* Every task up to x that finished since the loop first ran is announced.  *)
Covered(x) == \A t \in Tasks : t > seed /\ t <= made /\ Stamp[t] <= x => Announced(t)
CursorsCover ==
    /\ Covered(cursor) /\ Covered(reached)
    /\ stored # None => Covered(stored)
(* No cursor is later than the last finished task.                          *)
CursorsPast ==
    /\ seed <= made
    /\ cursor <= Now /\ reached <= Now
    /\ stored # None => stored <= Now
(* What precedes a task of the page is of the page, or announced.           *)
PageCloses ==
    /\ page \subseteq 1..made
    /\ \A t \in page, u \in Tasks : u < t /\ u > seed => u \in page \/ Announced(u)
(* The task whose row is being written is the first of the page.            *)
DraftIsNext ==
    /\ draft["mcp"] # None => draft["mcp"].task = 0
    /\ draft["runner"] # None /\ draft["runner"].task # 0 =>
         /\ draft["runner"].task \in page
         /\ \A u \in page : draft["runner"].task <= u
FeedSound == CursorsCover /\ CursorsPast /\ PageCloses /\ DraftIsNext

LEMMA StampTypes == \A t \in Tasks : Stamp[t] \in Nat /\ Stamp[t] > 0
BY BoundsAssumption DEF Tasks

LEMMA AnnouncedStays ==
    ASSUME RowsTyped, [Next]_vars
    PROVE  \A t : Announced(t) => Announced(t)'
<1>1. ASSUME NEW row, out' = Append(out, row), NEW t, Announced(t) PROVE Announced(t)'
  <2>1. out \in Seq(Row)
    BY DEF RowsTyped, Row
  <2>2. Len(out) \in Nat /\ DOMAIN out = 1..Len(out)
    BY <2>1
  <2>3. \A i \in 1..Len(out) : i \in DOMAIN out' /\ out'[i] = out[i]
    BY <1>1, <2>1, <2>2
  <2> QED  BY <1>1, <2>2, <2>3 DEF Announced
<1>2. CASE out' = out
  BY <1>2 DEF Announced
<1>3. CASE HostWrites
  BY <1>1, <1>3 DEF HostWrites
<1>4. ASSUME NEW w \in Writers, WriterWrites(w) PROVE \A t : Announced(t) => Announced(t)'
  BY <1>1, <1>4 DEF WriterWrites
<1> QED  BY <1>2, <1>3, <1>4, RowMoves

(* The page of the feed starts right behind the cursor.                     *)
LEMMA FeedCloses ==
    ASSUME FeedTyped, NEW t \in Feed, NEW u \in Tasks, u < t, Stamp[u] > cursor
    PROVE  u \in Feed
<1> DEFINE newer == {v \in 1..made : Stamp[v] > cursor}
           Before(v) == {x \in newer : x < v}
<1>1. made \in Nat /\ PageLimit \in Nat
  BY BoundsAssumption DEF FeedTyped
<1>2. t \in newer /\ Cardinality(Before(t)) < PageLimit
  BY DEF Feed
<1>3. u \in newer
  BY <1>1, <1>2 DEF Tasks
<1>4. Before(u) \subseteq Before(t)
  BY <1>1, <1>2, <1>3
<1>5. IsFiniteSet(newer)
  <2>1. IsFiniteSet(1..made) /\ newer \subseteq 1..made
    BY <1>1, FS_Interval
  <2> HIDE DEF newer
  <2> QED  BY <2>1, FS_Subset
<1>6. IsFiniteSet(Before(t)) /\ Before(t) \subseteq newer
  <2>1. Before(t) \subseteq newer
    OBVIOUS
  <2> HIDE DEF newer, Before
  <2> QED  BY <1>5, <2>1, FS_Subset
<1>7. /\ Cardinality(Before(u)) \in Nat /\ Cardinality(Before(t)) \in Nat
      /\ Cardinality(Before(u)) <= Cardinality(Before(t))
  <2> HIDE DEF newer, Before
  <2> QED  BY <1>4, <1>6, FS_Subset, FS_CardinalityType
<1>8. Cardinality(Before(u)) < PageLimit
  <2> HIDE DEF Before
  <2> QED  BY <1>1, <1>2, <1>7
<1> QED  BY <1>3, <1>8 DEF Feed

(* Steps that leave the feed alone.                                         *)
LEMMA Bystanders ==
    ASSUME FeedSound, RowsTyped, FeedTyped, [Next]_vars, UNCHANGED feed, DraftIsNext'
    PROVE  FeedSound'
<1>1. \A t : Announced(t) => Announced(t)'
  BY AnnouncedStays
<1>2. /\ made' = made /\ seed' = seed /\ stored' = stored /\ cursor' = cursor
      /\ reached' = reached /\ page' = page /\ Now' = Now
  BY DEF feed, Now
<1>3. CursorsCover'
  BY <1>1, <1>2 DEF FeedSound, CursorsCover, Covered
<1>4. CursorsPast'
  BY <1>2 DEF FeedSound, CursorsPast
<1>5. PageCloses'
  BY <1>1, <1>2 DEF FeedSound, PageCloses
<1> QED  BY <1>3, <1>4, <1>5 DEF FeedSound

LEMMA InsertFeed ==
    ASSUME StampsAscend, FeedSound, RowsTyped, FeedTyped, NEW w \in Writers, Insert(w), [Next]_vars
    PROVE  FeedSound'
<1>0. PICK t : t = draft[w].task
  OBVIOUS
<1>1. /\ made' = made /\ seed' = seed /\ stored' = stored /\ cursor' = cursor /\ Now' = Now
      /\ draft' = [draft EXCEPT ![w] = None] /\ draft[w] # None
  BY DEF Insert, Now
<1>2. \A v : Announced(v) => Announced(v)'
  BY AnnouncedStays
<1>3. /\ draft[w] \in Drafted /\ draft \in [Writers -> {None} \cup Drafted]
      /\ t \in Subject /\ made \in Nat /\ made <= Len(Stamp) /\ seed \in Nat
  BY <1>0, <1>1, BoundsAssumption DEF RowsTyped, Drafted, FeedTyped
<1>4. t # 0 => /\ w = "runner" /\ t \in page /\ t \in 1..made /\ t \in Tasks
               /\ \A u \in page : t <= u
  BY <1>0, <1>1, <1>3 DEF FeedSound, DraftIsNext, PageCloses, Subject, Writers
<1>5. /\ page' \subseteq page
      /\ t = 0 => reached' = reached /\ page' \in {page, page \ {0}}
      /\ t # 0 => \/ reached' = reached /\ page' = {}
                  \/ reached' = Stamp[t] /\ page' = page \ {t} /\ Announced(t)'
  <2>1. CASE Taken(draft[w].seq)
    BY <1>0, <2>1 DEF Insert, ReachedOnFailure
  <2>2. CASE ~Taken(draft[w].seq)
    <3>1. out' = Append(out, [seq |-> draft[w].seq, by |-> w, task |-> t])
      BY <1>0, <2>2 DEF Insert
    <3>2. out \in Seq(Row)
      BY DEF RowsTyped, Row
    <3>3. Len(out) + 1 \in DOMAIN out' /\ out'[Len(out) + 1].task = t
      BY <3>1, <3>2
    <3>4. Announced(t)'
      BY <1>1, <3>3 DEF Announced
    <3> QED  BY <1>0, <2>2, <3>4 DEF Insert
  <2> QED  BY <2>1, <2>2
<1>6. 0 \notin page
  BY DEF FeedSound, PageCloses
<1>7. CursorsPast'
  <2>1. t # 0 => Stamp[t] <= Now
    BY <1>3, <1>4, StampTypes DEF StampsAscend, Now, Tasks
  <2> QED  BY <1>1, <1>5, <2>1 DEF FeedSound, CursorsPast
<1>8. PageCloses'
  <2>1. page' \subseteq 1..made'
    BY <1>1, <1>5 DEF FeedSound, PageCloses
  <2>2. ASSUME NEW v \in page', NEW u \in Tasks, u < v, u > seed'
        PROVE  u \in page' \/ Announced(u)'
    BY <1>1, <1>2, <1>5, <1>6, <2>2 DEF FeedSound, PageCloses
  <2> QED  BY <2>1, <2>2 DEF PageCloses
<1>9. CursorsCover'
  <2>1. ASSUME t # 0, reached' = Stamp[t], Announced(t)',
               NEW u \in Tasks, u > seed, u <= made, Stamp[u] <= Stamp[t]
        PROVE  Announced(u)'
    <3>1. t \in Tasks /\ t \in page /\ ~(t < u)
      BY <1>4, <2>1, StampTypes DEF StampsAscend
    <3>2. CASE u = t
      BY <2>1, <3>2
    <3>3. CASE u < t
      <4>1. u \notin page
        BY <1>3, <1>4, <2>1, <3>3 DEF Subject, Tasks
      <4> QED  BY <1>2, <2>1, <3>1, <3>3, <4>1 DEF FeedSound, PageCloses
    <3> QED  BY <3>1, <3>2, <3>3 DEF Tasks
  <2>2. Covered(cursor)' /\ (stored' # None => Covered(stored)')
    BY <1>1, <1>2 DEF FeedSound, CursorsCover, Covered
  <2>3. Covered(reached)'
    BY <1>1, <1>2, <1>5, <2>1 DEF FeedSound, CursorsCover, Covered
  <2> QED  BY <2>2, <2>3 DEF CursorsCover
<1>10. DraftIsNext'
  <2>1. CASE w = "runner"
    BY <1>0, <1>1, <1>3, <2>1 DEF FeedSound, DraftIsNext, Writers
  <2>2. CASE w = "mcp"
    <3>1. t = 0
      BY <1>4, <2>2
    <3>2. page' = page
      BY <1>5, <1>6, <3>1
    <3> QED  BY <1>1, <1>3, <2>2, <3>2 DEF FeedSound, DraftIsNext, Writers
  <2> QED  BY <2>1, <2>2 DEF Writers
<1> QED  BY <1>7, <1>8, <1>9, <1>10 DEF FeedSound

(* The loop itself, and the tasks that finish meanwhile.                    *)
LEMMA LoopFeed ==
    ASSUME StampsAscend, FeedSound, RowsTyped, FeedTyped,
           TaskFinishes \/ LoopStarts \/ Poll \/ PollEnds \/ SaveCursor \/ RunnerEnds
    PROVE  FeedSound'
<1>1. /\ made \in Nat /\ made <= Len(Stamp) /\ seed \in Nat /\ cursor \in Nat /\ reached \in Nat
      /\ stored # None => stored \in Nat
      /\ Now \in Nat /\ Len(Stamp) \in Nat
  BY NowIsNumber, BoundsAssumption DEF FeedTyped
<1>2. CASE TaskFinishes
  <2>1. /\ made' = made + 1 /\ seed' = seed /\ stored' = stored /\ cursor' = cursor
        /\ reached' = reached /\ page' = page /\ out' = out /\ draft' = draft
    BY <1>2 DEF TaskFinishes, rows
  <2>2. made + 1 \in Tasks /\ Now' = Stamp[made + 1] /\ Now < Stamp[made + 1]
    <3>1. made + 1 \in Tasks /\ Now' = Stamp[made + 1]
      BY <1>1, <1>2, <2>1 DEF TaskFinishes, Tasks, Now
    <3>2. CASE made = 0
      BY <3>1, <3>2, StampTypes DEF Now
    <3>3. CASE made # 0
      <4>1. made \in Tasks /\ made < made + 1 /\ Now = Stamp[made]
        BY <1>1, <3>3 DEF Tasks, Now
      <4> QED  BY <3>1, <4>1 DEF StampsAscend
    <3> QED  BY <3>1, <3>2, <3>3
  <2>3. Stamp[made + 1] \in Nat
    BY <2>2, StampTypes
  <2>4. CursorsPast'
    BY <1>1, <2>1, <2>2, <2>3 DEF FeedSound, CursorsPast
  <2>5. \A t \in Tasks : t <= made' => t <= made \/ t = made + 1
    BY <1>1, <2>1 DEF Tasks
  <2>6. Covered(cursor)' /\ Covered(reached)'
    BY <1>1, <2>1, <2>2, <2>3, <2>5 DEF FeedSound, CursorsCover, CursorsPast, Covered, Announced
  <2>7. stored' # None => Covered(stored)'
    BY <1>1, <2>1, <2>2, <2>3, <2>5 DEF FeedSound, CursorsCover, CursorsPast, Covered, Announced
  <2>8. PageCloses'
    <3>1. 1..made \subseteq 1..(made + 1)
      BY <1>1
    <3>2. page' \subseteq 1..made'
      BY <2>1, <3>1 DEF FeedSound, PageCloses
    <3>3. \A t \in page', u \in Tasks : u < t /\ u > seed' => u \in page' \/ Announced(u)'
      BY <2>1 DEF FeedSound, PageCloses, Announced
    <3> QED  BY <3>2, <3>3 DEF PageCloses
  <2>9. DraftIsNext'
    BY <2>1 DEF FeedSound, DraftIsNext
  <2> QED  BY <2>4, <2>6, <2>7, <2>8, <2>9 DEF FeedSound, CursorsCover
<1>3. CASE LoopStarts
  <2>1. /\ made' = made /\ page' = page /\ out' = out /\ draft' = draft /\ Now' = Now
        /\ cursor' = stored' /\ reached' = stored'
        /\ \/ stored = None /\ stored' = Now /\ seed' = made
           \/ stored # None /\ stored' = stored /\ seed' = seed
    BY <1>3 DEF LoopStarts, rows, Now
  <2>2. CursorsPast'
    BY <1>1, <2>1 DEF FeedSound, CursorsPast
  <2>3. \A t \in Tasks : t > seed' /\ t <= made => t > seed /\ stored # None
    BY <1>1, <2>1 DEF FeedSound, CursorsPast, Tasks
  <2>4. CursorsCover'
    BY <2>1, <2>3 DEF FeedSound, CursorsCover, Covered, Announced
  <2>5. PageCloses'
    BY <1>1, <2>1, <2>3 DEF FeedSound, PageCloses, CursorsPast, Announced, Tasks
  <2>6. DraftIsNext'
    BY <2>1 DEF FeedSound, DraftIsNext
  <2> QED  BY <2>2, <2>4, <2>5, <2>6 DEF FeedSound
<1>4. CASE Poll
  <2>1. /\ made' = made /\ seed' = seed /\ stored' = stored /\ cursor' = cursor /\ Now' = Now
        /\ reached' = reached /\ page' = page /\ out' = out /\ draft' = draft
    BY <1>4 DEF Poll, rows, Now
  <2> QED
    BY <2>1 DEF FeedSound, CursorsCover, CursorsPast, PageCloses, DraftIsNext, Covered, Announced
<1>5. CASE PollEnds
  <2>1. /\ made' = made /\ seed' = seed /\ stored' = stored /\ cursor' = cursor /\ Now' = Now
        /\ reached' = cursor /\ page' \in {page, Feed} /\ out' = out /\ draft' = draft
        /\ draft["runner"] = None
    BY <1>5 DEF PollEnds, rows, Now
  <2>2. CursorsCover' /\ CursorsPast' /\ DraftIsNext'
    BY <2>1 DEF FeedSound, CursorsCover, CursorsPast, DraftIsNext, Covered, Announced
  <2>3. ASSUME NEW t \in Feed, NEW u \in Tasks, u < t, u > seed PROVE u \in Feed \/ Announced(u)
    <3>1. t <= made /\ t \in Nat
      BY <1>1 DEF Feed
    <3>2. Stamp[u] <= cursor => Announced(u)
      BY <1>1, <2>3, <3>1 DEF FeedSound, CursorsCover, Covered, Tasks
    <3> QED  BY <1>1, <2>3, <3>2, FeedCloses, StampTypes
  <2>4. Feed \subseteq 1..made
    BY DEF Feed
  <2>5. PageCloses'
    BY <2>1, <2>3, <2>4 DEF FeedSound, PageCloses, Announced
  <2> QED  BY <2>2, <2>5 DEF FeedSound
<1>6. CASE SaveCursor
  <2>1. /\ made' = made /\ seed' = seed /\ stored' \in {stored, reached} /\ cursor' = reached
        /\ reached' = reached /\ page' = page /\ out' = out /\ draft' = draft /\ Now' = Now
    BY <1>6 DEF SaveCursor, Kept, rows, Now
  <2> QED
    BY <2>1 DEF FeedSound, CursorsCover, CursorsPast, PageCloses, DraftIsNext, Covered, Announced
<1>7. CASE RunnerEnds
  <2>1. /\ made' = made /\ seed' = seed /\ stored' = stored /\ cursor' = 0 /\ Now' = Now
        /\ reached' = 0 /\ page' = {} /\ out' = out /\ draft' = [w \in Writers |-> None]
    BY <1>7 DEF RunnerEnds, Now
  <2>2. Covered(cursor)' /\ Covered(reached)' /\ (stored' # None => Covered(stored)')
    BY <2>1, StampTypes DEF FeedSound, CursorsCover, Covered, Announced
  <2>3. CursorsPast' /\ PageCloses' /\ DraftIsNext'
    BY <1>1, <2>1 DEF FeedSound, CursorsPast, PageCloses, DraftIsNext, Writers
  <2> QED  BY <2>2, <2>3 DEF FeedSound, CursorsCover
<1> QED  BY <1>2, <1>3, <1>4, <1>5, <1>6, <1>7

LEMMA FeedStep ==
    ASSUME StampsAscend, FeedSound, RowsTyped, FeedTyped, [Next]_vars
    PROVE  FeedSound'
<1>1. draft \in [Writers -> {None} \cup Drafted]
  BY DEF RowsTyped, Drafted
<1>2. ASSUME NEW w \in Writers, NEW c \in Calls \cup {None}, Draft(w, 0, c), page' = page
      PROVE  DraftIsNext'
  BY <1>1, <1>2 DEF Draft, FeedSound, DraftIsNext, Writers
<1>3. ASSUME NEW w \in Writers, Insert(w) PROVE FeedSound'
  BY <1>3, InsertFeed
<1>4. CASE TaskFinishes \/ LoopStarts \/ Poll \/ PollEnds \/ SaveCursor \/ RunnerEnds
  BY <1>4, LoopFeed
<1>5. CASE WriteTask
  <2>1. PICK t \in page : (\A u \in page : t <= u) /\ Draft("runner", t, None)
    BY <1>5 DEF WriteTask
  <2>2. UNCHANGED feed /\ page' = page
    BY <1>5 DEF WriteTask, feed
  <2>3. DraftIsNext'
    BY <1>1, <2>1, <2>2 DEF Draft, FeedSound, DraftIsNext, Writers
  <2> QED  BY <2>2, <2>3, Bystanders
<1>6. CASE Reply
  <2>1. UNCHANGED feed /\ page' = page /\ Draft("runner", 0, None)
    BY <1>6 DEF Reply, feed
  <2>2. "runner" \in Writers
    BY DEF Writers
  <2> QED  BY <1>2, <2>1, <2>2, Bystanders
<1>7. ASSUME NEW c \in Calls, FileEnds(c) \/ CallMessage(c) \/ PreviewEnds(c) PROVE FeedSound'
  <2>1. UNCHANGED feed /\ page' = page /\ (Draft("mcp", 0, c) \/ draft' = draft)
    BY <1>7 DEF FileEnds, CallMessage, PreviewEnds, feed
  <2>2. DraftIsNext'
    <3>1. "mcp" \in Writers
      BY DEF Writers
    <3>2. CASE draft' = draft
      BY <2>1, <3>2 DEF FeedSound, DraftIsNext
    <3> QED  BY <1>2, <2>1, <3>1, <3>2
  <2> QED  BY <2>1, <2>2, Bystanders
<1>8. ASSUME \/ \E c \in Calls : CallFile(c) \/ ConfirmEnds(c) \/ ExecuteEnds(c)
             \/ \E c \in Calls, p \in Payloads : CallPreview(c, p) \/ CallConfirmed(c, p)
             \/ \E p \in Payloads : Expire(p)
             \/ InboundArrives \/ HostRefuses \/ CallFree \/ UNCHANGED vars
      PROVE  FeedSound'
  <2>1. UNCHANGED feed /\ draft' = draft
    BY <1>8 DEF CallFile, ConfirmEnds, ExecuteEnds, CallPreview, CallConfirmed, Expire,
                InboundArrives, HostRefuses, CallFree, vars, rows
  <2>2. DraftIsNext'
    BY <2>1 DEF FeedSound, DraftIsNext, feed
  <2> QED  BY <2>1, <2>2, Bystanders
<1> QED  BY <1>3, <1>4, <1>5, <1>6, <1>7, <1>8 DEF Next

(* When no two finished tasks have one creation time, neither the cursor in *)
(* memory nor the stored one ever passes a finished task that was not       *)
(* announced, wherever an insert fails and whenever the runner ends         *)
(* (NoTaskSkipped).                                                         *)
THEOREM NothingIsPassedOver == StampsAscend => (Spec => []NoTaskSkipped)
<1> DEFINE Inv == RowsTyped /\ FeedTyped /\ NumbersSound /\ FeedSound
<1> SUFFICES ASSUME StampsAscend PROVE Spec => []NoTaskSkipped
  OBVIOUS
<1>1. Init => Inv
  <2> SUFFICES ASSUME Init PROVE Inv
    OBVIOUS
  <2>1. RowsTyped /\ FeedTyped /\ NumbersSound
    BY BoundsAssumption DEF Init, RowsTyped, FeedTyped, NumbersSound
  <2>2. CursorsCover /\ CursorsPast
    BY StampTypes DEF Init, CursorsCover, CursorsPast, Covered, Now, Tasks
  <2>3. PageCloses /\ DraftIsNext
    BY DEF Init, PageCloses, DraftIsNext, Writers
  <2> QED  BY <2>1, <2>2, <2>3 DEF FeedSound
<1>2. Inv /\ [Next]_vars => Inv'
  <2>1. FeedTyped => page \subseteq Tasks
    BY DEF FeedTyped
  <2> QED  BY <2>1, RowsStep, FeedTypes, FeedStep
<1>3. Inv => NoTaskSkipped
  BY DEF FeedSound, CursorsCover, Covered, NoTaskSkipped
<1> QED  BY <1>1, <1>2, <1>3, PTL DEF Spec

(* Rows, calls, the gate and the feed keep their types.                     *)
THEOREM TypeCorrect == Spec => []TypeOK
<1> DEFINE Few == crashes \in 0..MaxCrashes
           Inv == RowsTyped /\ FeedTyped /\ NumbersSound /\ GateTyped /\ GateSound /\ Few
<1>1. Init => RowsTyped /\ FeedTyped /\ NumbersSound /\ GateTyped /\ Few
  BY BoundsAssumption DEF Init, RowsTyped, FeedTyped, NumbersSound, GateTyped, Resting
<1>2. RowsTyped /\ FeedTyped /\ NumbersSound /\ [Next]_vars => (RowsTyped /\ FeedTyped /\ NumbersSound)'
  <2>1. FeedTyped => page \subseteq Tasks
    BY DEF FeedTyped
  <2> QED  BY <2>1, RowsStep, FeedTypes
<1>3. Few /\ [Next]_vars => Few'
  <2>1. CASE RunnerEnds
    BY <2>1, BoundsAssumption DEF RunnerEnds
  <2>2. CASE ~RunnerEnds
    <3>1. [Next]_vars => crashes' = crashes
      BY <2>2 DEF Next, vars, CallFile, FileEnds, CallMessage, PreviewEnds, ConfirmEnds, ExecuteEnds,
         CallPreview, CallConfirmed, Expire, InboundArrives, HostRefuses, Reply, CallFree, WriteTask,
         Insert, TaskFinishes, LoopStarts, Poll, PollEnds, SaveCursor
    <3> QED  BY <3>1
  <2> QED  BY <2>1, <2>2
<1>4. RowsTyped /\ FeedTyped /\ GateTyped /\ Few => TypeOK
  BY DEF TypeOK
<1> QED  BY <1>1, <1>2, <1>3, <1>4, GateHolds, PTL DEF Spec

-----------------------------------------------------------------------------
(* No task is announced twice by one runner *)

Times(t) == Cardinality({i \in DOMAIN out : out[i].task = t})

(* A row more.                                                              *)
LEMMA OneRowMore ==
    ASSUME RowsTyped, NEW row, out' = Append(out, row), NEW t
    PROVE  /\ Times(t) \in Nat
           /\ row.task = t => Times(t)' = Times(t) + 1
           /\ row.task # t => Times(t)' = Times(t)
<1> DEFINE n == Len(out)
           S == {i \in DOMAIN out : out[i].task = t}
           T == {i \in DOMAIN out' : out'[i].task = t}
<1>1. out \in Seq(Row)
  BY DEF RowsTyped, Row
<1>2. n \in Nat /\ DOMAIN out = 1..n /\ DOMAIN out' = 1..(n + 1)
  BY <1>1
<1>3. (\A i \in 1..n : out'[i] = out[i]) /\ out'[n + 1] = row
  BY <1>1, <1>2
<1>4. IF row.task = t THEN T = S \cup {n + 1} ELSE T = S
  BY <1>2, <1>3
<1>5. S \subseteq 1..n /\ n + 1 \notin S
  BY <1>2
<1>6. IsFiniteSet(1..n)
  BY <1>2, FS_Interval
<1> HIDE DEF S, T
<1>7. IsFiniteSet(S)
  BY <1>5, <1>6, FS_Subset
<1>8. Cardinality(S) \in Nat /\ Cardinality(S \cup {n + 1}) = Cardinality(S) + 1
  BY <1>5, <1>7, FS_AddElement, FS_CardinalityType
<1> QED  BY <1>4, <1>8 DEF Times, S, T

LEMMA TimesTyped == ASSUME RowsTyped, NEW t PROVE Times(t) \in Nat
<1>1. out \in Seq(Row)
  BY DEF RowsTyped, Row
<1>2. Len(out) \in Nat /\ DOMAIN out = 1..Len(out)
  BY <1>1
<1>3. IsFiniteSet(1..Len(out))
  BY <1>2, FS_Interval
<1> DEFINE S == {i \in DOMAIN out : out[i].task = t}
<1>4. S \subseteq 1..Len(out)
  BY <1>2
<1> HIDE DEF S
<1>5. Cardinality(S) \in Nat
  BY <1>3, <1>4, FS_Subset, FS_CardinalityType
<1> QED  BY <1>5 DEF Times, S

(* There is a page only while it is written, and it begins behind what was  *)
(* written last.                                                            *)
LoopSound ==
    /\ loop # "writing" => page = {}
    /\ loop \in {"asleep", "polling"} => cursor = reached
    /\ \A u \in page : reached <= Stamp[u]

(* A task this runner announced is behind the loop for good.                *)
Settled(t) == loop # "off" /\ Stamp[t] <= reached /\ t \notin page
OnceHere == \A t \in Tasks : Times(t) <= crashes \/ (Times(t) = crashes + 1 /\ Settled(t))

LoopInv == LoopSound /\ DraftIsNext /\ OnceHere

(* Rows other than announcements, and steps that write none.                *)
LEMMA OtherRows ==
    ASSUME RowsTyped, crashes' = crashes, \A t \in Tasks : Settled(t) => Settled(t)',
           \/ out' = out
           \/ \E row : out' = Append(out, row) /\ row.task \notin Tasks,
           OnceHere
    PROVE  OnceHere'
<1>1. ASSUME NEW t \in Tasks PROVE Times(t)' = Times(t)
  <2>1. CASE out' = out
    BY <2>1 DEF Times
  <2>2. ASSUME NEW row, out' = Append(out, row), row.task \notin Tasks
        PROVE  Times(t)' = Times(t)
    BY <2>2, OneRowMore
  <2> QED  BY <2>1, <2>2
<1> QED  BY <1>1 DEF OnceHere

LEMMA InsertOnce ==
    ASSUME RowsTyped, FeedTyped, crashes \in Nat, LoopInv, NEW w \in Writers, Insert(w)
    PROVE  LoopInv'
<1>0. PICK t : t = draft[w].task
  OBVIOUS
<1>1. /\ made' = made /\ cursor' = cursor /\ loop' = loop /\ crashes' = crashes
      /\ draft' = [draft EXCEPT ![w] = None] /\ draft[w] # None
  BY DEF Insert
<1>2. /\ draft \in [Writers -> {None} \cup Drafted] /\ t \in Subject /\ page \subseteq Tasks
      /\ 0 \notin Tasks /\ "runner" \in Writers /\ "mcp" \in Writers /\ "mcp" # "runner"
  BY <1>0, <1>1 DEF RowsTyped, Drafted, FeedTyped, Tasks, Writers
<1>3. t # 0 => w = "runner" /\ t \in page /\ \A u \in page : t <= u
  BY <1>0, <1>1 DEF LoopInv, DraftIsNext, Writers
<1>4. CASE t = 0
  <2>1. reached' = reached /\ page' = page
    BY <1>0, <1>2, <1>4 DEF Insert
  <2>2. out' = out \/ out' = Append(out, [seq |-> draft[w].seq, by |-> w, task |-> t])
    BY <1>0 DEF Insert
  <2>3. [seq |-> draft[w].seq, by |-> w, task |-> t].task \notin Tasks
    BY <1>2, <1>4
  <2>4. \A u \in Tasks : Settled(u) => Settled(u)'
    BY <1>1, <2>1 DEF Settled
  <2>5. OnceHere'
    BY <1>1, <2>2, <2>3, <2>4, OtherRows DEF LoopInv
  <2>6. LoopSound'
    BY <1>1, <2>1 DEF LoopInv, LoopSound
  <2>7. DraftIsNext'
    BY <1>1, <1>2, <2>1 DEF LoopInv, DraftIsNext, Writers
  <2> QED  BY <2>5, <2>6, <2>7 DEF LoopInv
<1>5. CASE t # 0 /\ Taken(draft[w].seq)
  <2>1. reached' = reached /\ page' = {} /\ out' = out
    BY <1>0, <1>5 DEF Insert, ReachedOnFailure
  <2>2. \A u \in Tasks : Settled(u) => Settled(u)'
    BY <1>1, <2>1 DEF Settled
  <2>3. OnceHere'
    BY <1>1, <2>1, <2>2, OtherRows DEF LoopInv
  <2>4. LoopSound'
    BY <1>1, <2>1 DEF LoopInv, LoopSound
  <2>5. DraftIsNext'
    BY <1>1, <1>2, <1>3, <1>5 DEF LoopInv, DraftIsNext, Writers
  <2> QED  BY <2>3, <2>4, <2>5 DEF LoopInv
<1>6. CASE t # 0 /\ ~Taken(draft[w].seq)
  <2>1. /\ reached' = Stamp[t] /\ page' = page \ {t}
        /\ out' = Append(out, [seq |-> draft[w].seq, by |-> w, task |-> t])
    BY <1>0, <1>6 DEF Insert
  <2>2. t \in page /\ t \in Tasks /\ loop = "writing" /\ reached <= Stamp[t]
    BY <1>2, <1>3, <1>6 DEF LoopInv, LoopSound
  <2>3. /\ \A u \in Tasks : Stamp[u] \in Nat
        /\ reached \in Nat
    BY StampTypes DEF FeedTyped
  <2>4. LoopSound'
    <3>1. ASSUME NEW u \in page PROVE Stamp[t] <= Stamp[u]
      BY <1>2, <1>3, <1>6, StampsAreInOrder DEF Tasks
    <3> QED  BY <1>1, <2>1, <2>2, <3>1 DEF LoopSound
  <2>5. DraftIsNext'
    BY <1>1, <1>2, <1>3, <1>6 DEF LoopInv, DraftIsNext, Writers
  <2>6. ASSUME NEW u \in Tasks
        PROVE  Times(u)' <= crashes' \/ (Times(u)' = crashes' + 1 /\ Settled(u)')
    <3>1. CASE u = t
      <4>1. Times(t) <= crashes /\ Times(t) \in Nat
        BY <2>2, TimesTyped DEF LoopInv, OnceHere, Settled
      <4>2. Times(t)' = Times(t) + 1
        BY <2>1, OneRowMore
      <4>3. Settled(t)'
        BY <1>1, <2>1, <2>2, <2>3 DEF Settled
      <4> QED  BY <1>1, <3>1, <4>1, <4>2, <4>3
    <3>2. CASE u # t
      <4>1. Times(u)' = Times(u)
        BY <2>1, <3>2, OneRowMore
      <4>2. Settled(u) => Settled(u)'
        BY <1>1, <2>1, <2>2, <2>3 DEF Settled
      <4> QED  BY <1>1, <4>1, <4>2 DEF LoopInv, OnceHere
    <3> QED  BY <3>1, <3>2
  <2> QED  BY <2>4, <2>5, <2>6 DEF LoopInv, OnceHere
<1> QED  BY <1>4, <1>5, <1>6

LEMMA LoopOnce ==
    ASSUME RowsTyped, FeedTyped, crashes \in Nat, LoopInv,
           LoopStarts \/ Poll \/ PollEnds \/ SaveCursor \/ WriteTask \/ RunnerEnds
    PROVE  LoopInv'
<1>1. out' = out /\ page \subseteq Tasks /\ reached \in Nat /\ cursor \in Nat
  BY DEF LoopStarts, Poll, PollEnds, SaveCursor, WriteTask, RunnerEnds, FeedTyped, rows
<1>2. \A t \in Tasks : Stamp[t] \in Nat /\ Times(t) \in Nat /\ Times(t)' = Times(t)
  BY <1>1, StampTypes, TimesTyped DEF Times
<1>3. CASE LoopStarts
  <2>1. /\ loop = "off" /\ loop' = "asleep" /\ page' = page /\ page = {} /\ draft' = draft
        /\ cursor' = reached' /\ crashes' = crashes
    BY <1>3 DEF LoopStarts, LoopInv, LoopSound, rows
  <2>2. OnceHere'
    BY <1>2, <2>1 DEF LoopInv, OnceHere, Settled
  <2> QED  BY <2>1, <2>2 DEF LoopInv, LoopSound, DraftIsNext
<1>4. CASE Poll
  <2>1. /\ loop = "asleep" /\ loop' = "polling" /\ page' = page /\ draft' = draft
        /\ cursor' = cursor /\ reached' = reached /\ crashes' = crashes
    BY <1>4 DEF Poll, rows
  <2>2. OnceHere'
    BY <1>2, <2>1 DEF LoopInv, OnceHere, Settled
  <2> QED  BY <2>1, <2>2 DEF LoopInv, LoopSound, DraftIsNext
<1>5. CASE PollEnds
  <2>1. /\ loop = "polling" /\ draft["runner"] = None /\ draft' = draft /\ crashes' = crashes
        /\ cursor' = cursor /\ reached' = cursor /\ cursor = reached /\ page = {}
        /\ \/ loop' = "writing" /\ page' = Feed
           \/ loop' = "asleep" /\ page' = page
    BY <1>5 DEF PollEnds, LoopInv, LoopSound, rows
  <2>2. \A u \in Feed : Stamp[u] > cursor /\ u \in Tasks
    <3>1. made \in Nat /\ made <= Len(Stamp) /\ Len(Stamp) \in Nat
      BY BoundsAssumption DEF FeedTyped
    <3> QED  BY <3>1 DEF Feed, Tasks
  <2>3. LoopSound'
    BY <1>1, <1>2, <2>1, <2>2 DEF LoopInv, LoopSound
  <2>4. \A t \in Tasks : Settled(t) => Settled(t)'
    BY <1>1, <1>2, <2>1, <2>2 DEF Settled
  <2>5. OnceHere'
    BY <1>2, <2>1, <2>4 DEF LoopInv, OnceHere
  <2>6. DraftIsNext'
    BY <2>1 DEF LoopInv, DraftIsNext
  <2> QED  BY <2>3, <2>5, <2>6 DEF LoopInv
<1>6. CASE SaveCursor
  <2>1. /\ loop = "writing" /\ loop' = "asleep" /\ page = {} /\ page' = page /\ draft' = draft
        /\ cursor' = reached /\ reached' = reached /\ crashes' = crashes
    BY <1>6 DEF SaveCursor, Kept, rows
  <2>2. OnceHere'
    BY <1>2, <2>1 DEF LoopInv, OnceHere, Settled
  <2> QED  BY <2>1, <2>2 DEF LoopInv, LoopSound, DraftIsNext
<1>7. CASE WriteTask
  <2>1. PICK t \in page : (\A u \in page : t <= u) /\ Draft("runner", t, None)
    BY <1>7 DEF WriteTask
  <2>2. /\ loop' = loop /\ page' = page /\ cursor' = cursor /\ reached' = reached
        /\ crashes' = crashes
    BY <1>7 DEF WriteTask, feed
  <2>3. draft \in [Writers -> {None} \cup Drafted]
    BY DEF RowsTyped, Drafted
  <2>4. DraftIsNext'
    BY <2>1, <2>2, <2>3 DEF Draft, LoopInv, DraftIsNext, Writers
  <2>5. OnceHere'
    BY <1>2, <2>2 DEF LoopInv, OnceHere, Settled
  <2> QED  BY <2>2, <2>4, <2>5 DEF LoopInv, LoopSound
<1>8. CASE RunnerEnds
  <2>1. /\ loop' = "off" /\ page' = {} /\ crashes' = crashes + 1
        /\ draft' = [w \in Writers |-> None]
    BY <1>8 DEF RunnerEnds
  <2>2. OnceHere'
    BY <1>2, <2>1 DEF LoopInv, OnceHere
  <2> QED  BY <2>1, <2>2 DEF LoopInv, LoopSound, DraftIsNext, Writers
<1> QED  BY <1>3, <1>4, <1>5, <1>6, <1>7, <1>8

(* Steps that leave the loop alone and announce nothing.                    *)
LEMMA AsideOnce ==
    ASSUME RowsTyped, FeedTyped, LoopInv, crashes' = crashes,
           UNCHANGED <<loop, page, cursor, reached>>, DraftIsNext',
           \/ out' = out
           \/ \E row : out' = Append(out, row) /\ row.task \notin Tasks
    PROVE  LoopInv'
<1>1. \A t \in Tasks : Settled(t) => Settled(t)'
  BY DEF Settled
<1>2. OnceHere'
  BY <1>1, OtherRows DEF LoopInv
<1> QED  BY <1>2 DEF LoopInv, LoopSound

LEMMA OnceStep ==
    ASSUME RowsTyped, FeedTyped, crashes \in Nat, LoopInv, [Next]_vars
    PROVE  LoopInv'
<1>1. draft \in [Writers -> {None} \cup Drafted] /\ "runner" \in Writers /\ "mcp" \in Writers
  BY DEF RowsTyped, Drafted, Writers
<1>2. ASSUME NEW w \in Writers, NEW c \in Calls \cup {None}, Draft(w, 0, c), page' = page
      PROVE  DraftIsNext'
  BY <1>1, <1>2 DEF Draft, LoopInv, DraftIsNext, Writers
<1>3. ASSUME NEW w \in Writers, Insert(w) PROVE LoopInv'
  BY <1>3, InsertOnce
<1>4. CASE LoopStarts \/ Poll \/ PollEnds \/ SaveCursor \/ WriteTask \/ RunnerEnds
  BY <1>4, LoopOnce
<1>5. CASE Reply
  <2>1. UNCHANGED feed /\ Draft("runner", 0, None) /\ out' = out /\ crashes' = crashes
    BY <1>5 DEF Reply
  <2> QED  BY <1>1, <1>2, <2>1, AsideOnce DEF feed
<1>6. ASSUME NEW c \in Calls, FileEnds(c) \/ CallMessage(c) \/ PreviewEnds(c) PROVE LoopInv'
  <2>1. /\ UNCHANGED feed /\ (Draft("mcp", 0, c) \/ draft' = draft) /\ out' = out
        /\ crashes' = crashes
    BY <1>6 DEF FileEnds, CallMessage, PreviewEnds
  <2>2. DraftIsNext'
    <3>1. CASE draft' = draft
      BY <2>1, <3>1 DEF LoopInv, DraftIsNext, feed
    <3> QED  BY <1>1, <1>2, <2>1, <3>1 DEF feed
  <2> QED  BY <2>1, <2>2, AsideOnce DEF feed
<1>7. CASE TaskFinishes \/ InboundArrives \/ HostRefuses
  <2>1. UNCHANGED <<loop, page, cursor, reached, draft, crashes>>
    BY <1>7 DEF TaskFinishes, InboundArrives, HostRefuses, rows, feed
  <2>2. DraftIsNext'
    BY <2>1 DEF LoopInv, DraftIsNext
  <2>3. [seq |-> LargestOut + 2, by |-> "host", task |-> 0].task \notin Tasks
    BY DEF Tasks
  <2>4. out' = out \/ \E row : out' = Append(out, row) /\ row.task \notin Tasks
    BY <1>7, <2>3 DEF TaskFinishes, InboundArrives, HostRefuses, rows
  <2> QED  BY <2>1, <2>2, <2>4, AsideOnce
<1>8. ASSUME \/ \E c \in Calls : CallFile(c) \/ ConfirmEnds(c) \/ ExecuteEnds(c)
             \/ \E c \in Calls, p \in Payloads : CallPreview(c, p) \/ CallConfirmed(c, p)
             \/ \E p \in Payloads : Expire(p)
             \/ CallFree \/ UNCHANGED vars
      PROVE  LoopInv'
  <2>1. UNCHANGED feed /\ draft' = draft /\ out' = out /\ crashes' = crashes
    BY <1>8 DEF CallFile, ConfirmEnds, ExecuteEnds, CallPreview, CallConfirmed, Expire,
                CallFree, vars, rows
  <2>2. DraftIsNext'
    BY <2>1 DEF LoopInv, DraftIsNext, feed
  <2> QED  BY <2>1, <2>2, AsideOnce DEF feed
<1> QED  BY <1>3, <1>4, <1>5, <1>6, <1>7, <1>8 DEF Next

(* One runner announces a finished task once, wherever its inserts fail and *)
(* whether or not its cursor can be stored: a second announcement takes an  *)
(* end of the runner (channel-completion-loop.ts, writeMessageOut).          *)
THEOREM OneAnnouncementPerRunner == Spec => []AnnouncedOncePerRun
<1>1. Init => LoopInv
  <2> SUFFICES ASSUME Init PROVE LoopInv
    OBVIOUS
  <2>1. LoopSound /\ DraftIsNext
    BY DEF Init, LoopSound, DraftIsNext, Writers
  <2>2. ASSUME NEW t PROVE Times(t) = 0
    <3>1. {i \in DOMAIN out : out[i].task = t} = {}
      BY DEF Init
    <3> QED  BY <3>1, FS_EmptySet DEF Times
  <2>3. OnceHere
    BY <2>2 DEF Init, OnceHere
  <2> QED  BY <2>1, <2>3 DEF LoopInv
<1>2. TypeOK /\ LoopInv /\ [Next]_vars => LoopInv'
  <2>1. TypeOK => RowsTyped /\ FeedTyped /\ crashes \in Nat
    BY BoundsAssumption DEF TypeOK
  <2> QED  BY <2>1, OnceStep
<1>3. TypeOK /\ LoopInv => AnnouncedOncePerRun
  <2> SUFFICES ASSUME TypeOK, LoopInv, NEW t \in Tasks PROVE Times(t) <= 1 + crashes
    BY DEF AnnouncedOncePerRun, Times
  <2>1. Times(t) \in Nat /\ crashes \in Nat
    BY TimesTyped, BoundsAssumption DEF TypeOK
  <2> QED  BY <2>1 DEF LoopInv, OnceHere
<1> QED  BY <1>1, <1>2, <1>3, TypeCorrect, PTL DEF Spec
=============================================================================
