-------------------------- MODULE ActivityLogProofs --------------------------
(***************************************************************************)
(* The activity log, for every set of servers and channels, every size of  *)
(* the buffer and of a message: no loss goes untold, a failed lookup never *)
(* becomes the fallback, and the logs are the lossy queues of LossyLog.    *)
(***************************************************************************)
EXTENDS ActivityLog, SequenceTheorems, FiniteSetTheorems, TLAPS

----------------------------------------------------------------------------
\* Sequences.

\* A stretch of a sequence: elements s[m] to s[n], or none.
LEMMA Stretch ==
    ASSUME NEW S, NEW s \in Seq(S), NEW m \in 1..Len(s) + 1, NEW n \in 0..Len(s)
    PROVE  /\ SubSeq(s, m, n) \in Seq(S)
           /\ Len(SubSeq(s, m, n)) = IF m <= n THEN n - m + 1 ELSE 0
           /\ \A i \in 1..n - m + 1 : SubSeq(s, m, n)[i] = s[m + i - 1]
  <1>1. \A i \in m..n : s[i] \in S
    BY ElementOfSeq, LenProperties
  <1>2. m \in Int /\ n \in Int
    BY LenProperties
  <1> QED BY <1>1, <1>2, SubSeqProperties

\* A sequence has no more elements than places.
LEMMA RangeIsSmall ==
    ASSUME NEW S, NEW s \in Seq(S)
    PROVE  IsFiniteSet(Range(s)) /\ Cardinality(Range(s)) \in Nat /\ Cardinality(Range(s)) <= Len(s)
  <1>1. Len(s) \in Nat /\ IsFiniteSet(1..Len(s)) /\ Cardinality(1..Len(s)) = Len(s)
    <2>1. Len(s) \in Nat
      BY LenProperties
    <2>2. IsFiniteSet(1..Len(s))
          /\ Cardinality(1..Len(s)) = IF 1 > Len(s) THEN 0 ELSE Len(s) - 1 + 1
      BY <2>1, FS_Interval
    <2> QED BY <2>1, <2>2
  <1>2. s \in Surjection(1..Len(s), Range(s))
    BY LenProperties, RangeEquality DEF Surjection, Range
  <1>3. IsFiniteSet(Range(s)) /\ Cardinality(Range(s)) <= Cardinality(1..Len(s))
    BY <1>1, <1>2, FS_Surjection
  <1> QED BY <1>1, <1>3, FS_CardinalityType

\* What is left of a queue that is cut.
LEMMA CutIsTwoParts ==
    ASSUME NEW q, NEW i, NEW j
    PROVE  Queue!Cut(q, i, j) = SubSeq(q, 1, i - 1) \o SubSeq(q, j + 1, Len(q))
  BY DEF Queue!Cut

\* Where a queue is cut behind a first part, that part stays.
LEMMA CutBehind ==
    ASSUME NEW S, NEW s \in Seq(S), NEW t \in Seq(S), NEW k \in 0..Len(t)
    PROVE  Queue!Cut(s \o t, Len(s) + 1, Len(s) + k) = s \o SubSeq(t, k + 1, Len(t))
  <1>1. Len(s) \in Nat /\ Len(t) \in Nat
    BY LenProperties
  <1>2. /\ s \o t \in Seq(S) /\ Len(s \o t) = Len(s) + Len(t)
        /\ \A i \in 1..Len(s) + Len(t) : (s \o t)[i] = IF i <= Len(s) THEN s[i] ELSE t[i - Len(s)]
    BY ConcatProperties
  <1> DEFINE a == SubSeq(s \o t, 1, Len(s) + 1 - 1)
             b == SubSeq(s \o t, Len(s) + k + 1, Len(s \o t))
             m == Len(s) + 1
             n == Len(s) + k
             c == SubSeq(t, k + 1, Len(t))
  <1>3. a = s
    <2>1. a \in Seq(S) /\ Len(a) = Len(s) /\ \A i \in 1..Len(s) : a[i] = (s \o t)[i]
      <3>1. 1 \in 1..Len(s \o t) + 1 /\ Len(s) + 1 - 1 \in 0..Len(s \o t)
        BY <1>1, <1>2
      <3> QED BY <1>1, <1>2, <3>1, Stretch
    <2>2. \A i \in 1..Len(a) : a[i] = s[i]
      BY <1>1, <1>2, <2>1
    <2> HIDE DEF a
    <2> QED BY <2>1, <2>2, SeqEqual
  <1>4. b = c
    <2>1. b \in Seq(S) /\ Len(b) = Len(t) - k /\ \A i \in 1..Len(t) - k : b[i] = (s \o t)[Len(s) + k + i]
      <3>1. /\ Len(s) + k + 1 \in 1..Len(s \o t) + 1 /\ Len(s \o t) \in 0..Len(s \o t)
            /\ k + 1 <= Len(t) <=> Len(s) + k + 1 <= Len(s \o t)
        BY <1>1, <1>2
      <3> QED BY <1>1, <1>2, <3>1, Stretch
    <2>2. c \in Seq(S) /\ Len(c) = Len(t) - k /\ \A i \in 1..Len(t) - k : c[i] = t[k + i]
      <3>1. k + 1 \in 1..Len(t) + 1 /\ Len(t) \in 0..Len(t)
        BY <1>1
      <3> QED BY <1>1, <3>1, Stretch
    <2>3. ASSUME NEW i \in 1..Len(t) - k PROVE b[i] = c[i]
      <3>1. (s \o t)[Len(s) + k + i] = t[k + i]
        <4>1. /\ Len(s) + k + i \in 1..Len(s) + Len(t)
              /\ ~(Len(s) + k + i <= Len(s)) /\ Len(s) + k + i - Len(s) = k + i
          BY <1>1
        <4> QED BY <1>2, <4>1
      <3> QED BY <2>1, <2>2, <3>1
    <2> HIDE DEF b, c
    <2> QED BY <2>1, <2>2, <2>3, SeqEqual
  <1>5. Queue!Cut(s \o t, Len(s) + 1, Len(s) + k) = a \o b
    <2> HIDE DEF m, n
    <2>1. Queue!Cut(s \o t, m, n) = SubSeq(s \o t, 1, m - 1) \o SubSeq(s \o t, n + 1, Len(s \o t))
      BY CutIsTwoParts
    <2>2. m = Len(s) + 1 /\ n = Len(s) + k /\ Len(s) + 1 - 1 = m - 1 /\ Len(s) + k + 1 = n + 1
      BY DEF m, n
    <2> QED BY <2>1, <2>2
  <1> HIDE DEF a, b
  <1> QED BY <1>3, <1>4, <1>5

LEMMA TakeFront ==
    ASSUME NEW S, NEW s \in Seq(S), NEW t \in Seq(S), NEW k \in 0..Len(s)
    PROVE  SubSeq(s \o t, 1, k) = SubSeq(s, 1, k)
  <1>1. Len(s) \in Nat /\ Len(t) \in Nat
    BY LenProperties
  <1>2. /\ s \o t \in Seq(S) /\ Len(s \o t) = Len(s) + Len(t)
        /\ \A i \in 1..Len(s) + Len(t) : (s \o t)[i] = IF i <= Len(s) THEN s[i] ELSE t[i - Len(s)]
    BY ConcatProperties
  <1> DEFINE a == SubSeq(s \o t, 1, k)
             b == SubSeq(s, 1, k)
  <1>3. a \in Seq(S) /\ Len(a) = k /\ \A i \in 1..k : a[i] = (s \o t)[i]
    <2>1. 1 \in 1..Len(s \o t) + 1 /\ k \in 0..Len(s \o t)
      BY <1>1, <1>2
    <2> QED BY <1>1, <1>2, <2>1, Stretch
  <1>4. b \in Seq(S) /\ Len(b) = k /\ \A i \in 1..k : b[i] = s[i]
    <2>1. 1 \in 1..Len(s) + 1
      BY <1>1
    <2> QED BY <1>1, <2>1, Stretch
  <1>5. \A i \in 1..Len(a) : a[i] = b[i]
    BY <1>1, <1>2, <1>3, <1>4
  <1> HIDE DEF a, b
  <1>6. a = b
    BY <1>3, <1>4, <1>5, SeqEqual
  <1> QED BY <1>6 DEF a, b

LEMMA DropFront ==
    ASSUME NEW S, NEW s \in Seq(S), NEW t \in Seq(S), NEW k \in 0..Len(s)
    PROVE  SubSeq(s \o t, k + 1, Len(s \o t)) = SubSeq(s, k + 1, Len(s)) \o t
  <1>1. Len(s) \in Nat /\ Len(t) \in Nat
    BY LenProperties
  <1>2. /\ s \o t \in Seq(S) /\ Len(s \o t) = Len(s) + Len(t)
        /\ \A i \in 1..Len(s) + Len(t) : (s \o t)[i] = IF i <= Len(s) THEN s[i] ELSE t[i - Len(s)]
    BY ConcatProperties
  <1> DEFINE a == SubSeq(s \o t, k + 1, Len(s \o t))
             b == SubSeq(s, k + 1, Len(s))
  <1>3. /\ a \in Seq(S) /\ Len(a) = Len(s) + Len(t) - k
        /\ \A i \in 1..Len(s) + Len(t) - k : a[i] = (s \o t)[k + i]
    <2>1. k + 1 \in 1..Len(s \o t) + 1 /\ Len(s \o t) \in 0..Len(s \o t)
      BY <1>1, <1>2
    <2> QED BY <1>1, <1>2, <2>1, Stretch
  <1>4. b \in Seq(S) /\ Len(b) = Len(s) - k /\ \A i \in 1..Len(s) - k : b[i] = s[k + i]
    <2>1. k + 1 \in 1..Len(s) + 1 /\ Len(s) \in 0..Len(s)
      BY <1>1
    <2> QED BY <1>1, <2>1, Stretch
  <1> HIDE DEF a, b
  <1>5. /\ b \o t \in Seq(S) /\ Len(b \o t) = Len(s) + Len(t) - k
        /\ \A i \in 1..Len(s) + Len(t) - k :
              (b \o t)[i] = IF i <= Len(s) - k THEN b[i] ELSE t[i - (Len(s) - k)]
    <2>1. /\ b \o t \in Seq(S) /\ Len(b \o t) = Len(b) + Len(t)
          /\ \A i \in 1..Len(b) + Len(t) : (b \o t)[i] = IF i <= Len(b) THEN b[i] ELSE t[i - Len(b)]
      BY <1>4, ConcatProperties
    <2>2. Len(b) + Len(t) = Len(s) + Len(t) - k
      BY <1>1, <1>4
    <2> QED BY <1>4, <2>1, <2>2
  <1>6. ASSUME NEW i \in 1..Len(s) + Len(t) - k PROVE a[i] = (b \o t)[i]
    <2>1. k + i \in 1..Len(s) + Len(t) /\ k \in Nat
      BY <1>1
    <2>2. a[i] = IF k + i <= Len(s) THEN s[k + i] ELSE t[k + i - Len(s)]
      BY <1>2, <1>3, <2>1
    <2>3. (k + i <= Len(s) <=> i <= Len(s) - k) /\ k + i - Len(s) = i - (Len(s) - k)
      BY <1>1, <2>1
    <2>4. CASE k + i <= Len(s)
      <3>1. i \in 1..Len(s) - k
        BY <1>1, <2>1, <2>4
      <3> QED BY <1>4, <1>5, <2>2, <2>3, <2>4, <3>1
    <2>5. CASE ~(k + i <= Len(s))
      BY <1>5, <2>2, <2>3, <2>5
    <2> QED BY <2>4, <2>5
  <1>7. a = b \o t
    BY <1>3, <1>5, <1>6, SeqEqual
  <1> QED BY <1>7 DEF a, b

\* A queue that loses its first k entries.
LEMMA CutFront ==
    ASSUME NEW S, NEW s \in Seq(S), NEW k \in 0..Len(s)
    PROVE  Queue!Cut(s, 1, k) = SubSeq(s, k + 1, Len(s))
  <1>1. Len(s) \in Nat /\ SubSeq(s, k + 1, Len(s)) \in Seq(S)
    <2>1. Len(s) \in Nat
      BY LenProperties
    <2>2. k + 1 \in 1..Len(s) + 1 /\ Len(s) \in 0..Len(s)
      BY <2>1
    <2> QED BY <2>1, <2>2, Stretch
  <1>2. SubSeq(s, 1, 1 - 1) = << >>
    BY SubSeqEmpty
  <1> QED BY <1>1, <1>2, ConcatEmptySeq DEF Queue!Cut

LEMMA AppendBehind ==
    ASSUME NEW S, NEW s \in Seq(S), NEW t \in Seq(S), NEW e \in S
    PROVE  Append(s \o t, e) = s \o Append(t, e)
  <1>1. s \o t \in Seq(S) /\ <<e>> \in Seq(S)
    BY ConcatProperties
  <1>2. Append(s \o t, e) = (s \o t) \o <<e>>
    BY <1>1, AppendIsConcat
  <1>3. Append(t, e) = t \o <<e>>
    BY AppendIsConcat
  <1>4. (s \o t) \o <<e>> = s \o (t \o <<e>>)
    BY <1>1, ConcatAssociative
  <1> QED BY <1>2, <1>3, <1>4

LEMMA EntryAppended ==
    \A q, r \in Seq(1..Entries) : \A x \in 1..Entries : Append(q \o r, x) = q \o Append(r, x)
  BY AppendBehind

----------------------------------------------------------------------------
\* The plan: what Discord has said is known, and nothing else.

\* An answer under way is a plan the server has had.
Heard ==
    /\ FallbackIsHeard
    /\ \A g \in Guilds : ask[g] = "yes" => TRUE \in ever[g]
    /\ \A g \in Guilds : ask[g] = "no" => FALSE \in ever[g]

LEMMA CacheTypes ==
    ASSUME NEW c \in Caches, NEW v \in BOOLEAN \cup {None}
    PROVE  /\ c.fresh \in BOOLEAN \cup {None} /\ c.known \in BOOLEAN \cup {None}
           /\ Known(v) \in Caches /\ Known(v).known = v
           /\ Provisional(c, v) \in Caches /\ Provisional(c, v).known = c.known
           /\ Invalidate(c) \in Caches /\ Invalidate(c).known = c.known
           /\ Empty \in Caches /\ Empty.known = None
  BY DEF Caches, Known, Provisional, Invalidate, Empty

\* What the plan may do in one step of the log.
PlanMoves ==
    \/ \E g \in Guilds :
         \/ AskCached(g) \/ Ask(g) \/ Answer(g) \/ AnswerArrives(g) \/ AskFails(g) \/ Expire(g)
         \/ \E yes \in BOOLEAN : Interaction(g, yes) \/ EntitlementChanges(g, yes)
         \/ ask' = [ask EXCEPT ![g] = "idle"] /\ UNCHANGED <<plan, ever, discord>>
    \/ Forgotten
    \/ UNCHANGED planVars

LEMMA StepMovesPlan ==
    ASSUME [Next]_vars
    PROVE  PlanMoves
  <1>1. CASE PlanStep
    BY <1>1 DEF PlanStep, PlanMoves
  <1>2. ASSUME NEW g \in Guilds, AskPlan(g)
        PROVE  PlanMoves
    BY <1>2 DEF AskPlan, PlanMoves
  <1>3. ASSUME NEW g \in Guilds, NEW card \in BOOLEAN, QueueLog(g, card)
        PROVE  PlanMoves
    BY <1>3 DEF QueueLog, PlanMoves
  <1>4. ASSUME NEW g \in Guilds, ReadChannel(g) \/ SendOk(g) \/ SendGone(g) \/ SendRefused(g)
        PROVE  PlanMoves
    BY <1>4 DEF ReadChannel, SendOk, SendGone, SendRefused, PlanMoves
  <1>5. ASSUME NEW g \in Guilds, NEW read \in BOOLEAN, BeginPost(g, read)
        PROVE  PlanMoves
    BY <1>5 DEF BeginPost, PlanMoves
  <1>6. ASSUME NEW g \in Guilds, NEW c \in Channels \cup {None}, SetChannel(g, c)
        PROVE  PlanMoves
    BY <1>6 DEF SetChannel, PlanMoves
  <1>7. ASSUME NEW read \in BOOLEAN, Drain(read)
        PROVE  PlanMoves
    BY <1>7 DEF Drain, PlanMoves
  <1>8. ASSUME NEW c \in Channels, DeleteChannel(c)
        PROVE  PlanMoves
    BY <1>8 DEF DeleteChannel, PlanMoves
  <1>9. CASE Restart
    BY <1>9 DEF Restart, PlanMoves
  <1>10. CASE UNCHANGED vars
    BY <1>10 DEF vars, PlanMoves
  <1> QED BY <1>1, <1>2, <1>3, <1>4, <1>5, <1>6, <1>7, <1>8, <1>9, <1>10 DEF Next

LEMMA PlanStaysHeard ==
    ASSUME PlanTypeOK, Heard, PlanMoves
    PROVE  PlanTypeOK' /\ Heard'
  <1> USE DEF PlanTypeOK, Heard, FallbackIsHeard
  <1>1. ASSUME NEW g \in Guilds, AskCached(g) \/ Ask(g) \/ Answer(g)
        PROVE  PlanTypeOK' /\ Heard'
    BY <1>1 DEF AskCached, Ask, Answer, Decide
  <1>2. ASSUME NEW g \in Guilds, AnswerArrives(g)
        PROVE  PlanTypeOK' /\ Heard'
    <2>1. PICK v \in BOOLEAN : /\ v = (ask[g] = "yes") /\ v \in ever[g]
                               /\ discord' = [discord EXCEPT ![g] = Known(v)]
      <3>1. CASE ask[g] = "yes"
        <4>1. (ask[g] = "yes") = TRUE /\ TRUE \in ever[g]
          BY <3>1
        <4> QED BY <1>2, <4>1 DEF AnswerArrives
      <3>2. CASE ask[g] = "no"
        <4>1. (ask[g] = "yes") = FALSE /\ FALSE \in ever[g]
          BY <3>2
        <4> QED BY <1>2, <4>1 DEF AnswerArrives
      <3> QED BY <1>2, <3>1, <3>2 DEF AnswerArrives
    <2>2. Known(v) \in Caches /\ Known(v).known = v
      BY DEF Known, Caches
    <2>3. discord' \in [Guilds -> Caches] /\ FallbackIsHeard'
      BY <1>2, <2>1, <2>2 DEF AnswerArrives
    <2> QED BY <1>2, <2>3 DEF AnswerArrives, Decide
  <1>3. ASSUME NEW g \in Guilds, AskFails(g)
        PROVE  PlanTypeOK' /\ Heard'
    <2> DEFINE guess == Guess(discord[g], TRUE)
               c == Provisional(discord[g], guess)
    <2>1. discord[g] \in Caches /\ guess \in BOOLEAN \cup {None}
      BY DEF Guess, Caches
    <2>2. c \in Caches /\ c.known = discord[g].known
      BY <2>1, CacheTypes
    <2>3. /\ discord' = [discord EXCEPT ![g] = c]
          /\ ask' = [ask EXCEPT ![g] = IF guess THEN "granted" ELSE "refused"]
          /\ UNCHANGED <<plan, ever>>
      BY <1>3 DEF AskFails, Decide
    <2> HIDE DEF c, guess
    <2> QED BY <2>2, <2>3
  <1>4. ASSUME NEW g \in Guilds, Expire(g)
        PROVE  PlanTypeOK' /\ Heard'
    <2> DEFINE c == [discord[g] EXCEPT !.fresh = None]
    <2>1. c \in Caches /\ c.known = discord[g].known
      BY DEF Caches
    <2>2. discord' = [discord EXCEPT ![g] = c] /\ UNCHANGED <<plan, ever, ask>>
      BY <1>4 DEF Expire
    <2> HIDE DEF c
    <2> QED BY <2>1, <2>2
  <1>5. ASSUME NEW g \in Guilds, NEW yes \in BOOLEAN, Interaction(g, yes)
        PROVE  PlanTypeOK' /\ Heard'
    <2> DEFINE found == plan[g] /\ yes
               c == FromPayload(discord[g], found)
    <2>1. discord' = [discord EXCEPT ![g] = c] /\ UNCHANGED <<plan, ever, ask>>
      BY <1>5 DEF Interaction
    <2>2. CASE found
      <3>1. c = Known(TRUE)
        BY <2>2 DEF FromPayload
      <3>2. c \in Caches /\ c.known \in ever[g] \cup {None}
        <4>1. plan[g] = TRUE /\ plan[g] \in ever[g]
          BY <2>2
        <4>2. TRUE \in ever[g]
          BY <4>1
        <4>3. Known(TRUE) \in Caches /\ Known(TRUE).known = TRUE
          BY DEF Known, Caches
        <4> HIDE DEF c, found
        <4> QED BY <3>1, <4>2, <4>3
      <3> HIDE DEF c, found
      <3>3. discord' \in [Guilds -> Caches] /\ FallbackIsHeard'
        BY <2>1, <3>2
      <3> QED BY <2>1, <3>3
    <2>3. CASE ~found
      <3>1. c = Provisional(discord[g], FALSE)
        BY <2>3 DEF FromPayload
      <3>2. c \in Caches /\ c.known \in ever[g] \cup {None}
        <4>1. /\ Provisional(discord[g], FALSE) \in Caches
              /\ Provisional(discord[g], FALSE).known = discord[g].known
          BY CacheTypes
        <4> HIDE DEF c, found
        <4> QED BY <3>1, <4>1
      <3> HIDE DEF c, found
      <3>3. discord' \in [Guilds -> Caches] /\ FallbackIsHeard'
        BY <2>1, <3>2
      <3> QED BY <2>1, <3>3
    <2> QED BY <2>2, <2>3
  <1>6. ASSUME NEW g \in Guilds, NEW heard \in BOOLEAN, EntitlementChanges(g, heard)
        PROVE  PlanTypeOK' /\ Heard'
    <2>1. discord[g] \in Caches
      BY DEF Caches
    <2>2. Invalidate(discord[g]) \in Caches /\ Invalidate(discord[g]).known = discord[g].known
      BY <2>1, CacheTypes
    <2>3. discord' \in [Guilds -> Caches] /\ \A h \in Guilds : discord'[h].known = discord[h].known
      BY <1>6, <2>2 DEF EntitlementChanges
    <2> QED BY <1>6, <2>3 DEF EntitlementChanges
  <1>7. ASSUME NEW g \in Guilds, ask' = [ask EXCEPT ![g] = "idle"] /\ UNCHANGED <<plan, ever, discord>>
        PROVE  PlanTypeOK' /\ Heard'
    BY <1>7
  <1>8. CASE Forgotten
    BY <1>8, CacheTypes DEF Forgotten, Empty, Caches
  <1>9. CASE UNCHANGED planVars
    BY <1>9 DEF planVars
  <1> QED BY <1>1, <1>2, <1>3, <1>4, <1>5, <1>6, <1>7, <1>8, <1>9 DEF PlanMoves

----------------------------------------------------------------------------
\* The buffer and the batches: no loss goes untold.

\* What the notes still to be shown by a batch will tell of.
Owed(g) == IF batch[g].posting /\ ~batch[g].note THEN 0 ELSE batch[g].carried

\* A batch holds no more than was drained, which is what its refusal reports,
\* and each loss is in a count that is kept, owed by a batch, or told.
Counted(g) ==
    /\ Len(batch[g].rest) <= batch[g].size
    /\ Cardinality(lost[g]) <= dropped[g] + Owed(g) + told[g]

LossInv ==
    /\ TypeOK
    /\ Heard
    /\ \A g \in Guilds : Counted(g)

Batches == [posting : BOOLEAN, to : Channels \cup {None}, note : BOOLEAN,
            rest : Seq(1..Entries), size : Nat, carried : Nat]

LEMMA IdleType == Idle \in Batches /\ Idle.rest = << >> /\ Len(Idle.rest) = 0 /\ Idle.size = 0
  <1>1. << >> \in Seq(1..Entries) /\ Len(<< >>) = 0
    BY EmptySeq
  <1> QED BY <1>1 DEF Idle, Batches

\* What one server's part of the log is.
GuildTyped(g) ==
    /\ channel[g] \in Channels \cup {None}
    /\ logged[g] \in 0..Entries
    /\ lines[g] \in Seq(1..Entries) /\ Len(lines[g]) \in Nat /\ Len(lines[g]) <= MaxPerGuild
    /\ dropped[g] \in Nat
    /\ batch[g] \in Batches /\ batch[g].rest \in Seq(1..Entries) /\ Len(batch[g].rest) \in Nat
    /\ batch[g].size \in Nat /\ batch[g].carried \in Nat /\ Owed(g) \in Nat
    /\ shown[g] \in Seq(1..Entries)
    /\ told[g] \in Nat
    /\ lost[g] \subseteq 1..Entries /\ IsFiniteSet(lost[g]) /\ Cardinality(lost[g]) \in Nat

LEMMA TypedByGuild ==
    ASSUME LogTypeOK, NEW g \in Guilds
    PROVE  GuildTyped(g)
  <1>1. /\ channel[g] \in Channels \cup {None} /\ logged[g] \in 0..Entries
        /\ lines[g] \in Seq(1..Entries) /\ Len(lines[g]) <= MaxPerGuild
        /\ dropped[g] \in Nat /\ batch[g] \in Batches /\ shown[g] \in Seq(1..Entries)
        /\ told[g] \in Nat /\ lost[g] \subseteq 1..Entries
    BY DEF LogTypeOK, Batches
  <1>2. batch[g].rest \in Seq(1..Entries) /\ batch[g].size \in Nat /\ batch[g].carried \in Nat
    BY <1>1 DEF Batches
  <1>3. Len(lines[g]) \in Nat /\ Len(batch[g].rest) \in Nat
    BY <1>1, <1>2, LenProperties
  <1>4. IsFiniteSet(1..Entries)
    BY LogConstants, FS_Interval
  <1>5. IsFiniteSet(lost[g])
    BY <1>1, <1>4, FS_Subset
  <1>6. Cardinality(lost[g]) \in Nat
    BY <1>5, FS_CardinalityType
  <1>7. Owed(g) \in Nat
    BY <1>2 DEF Owed
  <1> QED BY <1>1, <1>2, <1>3, <1>5, <1>6, <1>7 DEF GuildTyped

LEMMA UnionIsSmall ==
    ASSUME NEW S, NEW T, IsFiniteSet(S), IsFiniteSet(T)
    PROVE  Cardinality(S \cup T) \in Nat /\ Cardinality(S \cup T) <= Cardinality(S) + Cardinality(T)
  <1>1. /\ IsFiniteSet(S \cup T)
        /\ Cardinality(S \cup T) = Cardinality(S) + Cardinality(T) - Cardinality(S \cap T)
    BY FS_Union
  <1>2. IsFiniteSet(S \cap T)
    BY FS_Intersection
  <1> QED BY <1>1, <1>2, FS_CardinalityType

\* What add makes of a server's lines: over are pushed out.
LEMMA Pushed ==
    ASSUME LogTypeOK, NEW g \in Guilds, logged[g] < Entries
    PROVE  LET all == Append(lines[g], logged[g] + 1)
               over == Over(Len(all))
           IN  /\ logged[g] + 1 \in 0..Entries
               /\ all \in Seq(1..Entries) /\ Len(all) = Len(lines[g]) + 1
               /\ over \in Nat /\ over \in 0..Len(all)
               /\ SubSeq(all, over + 1, Len(all)) \in Seq(1..Entries)
               /\ Len(SubSeq(all, over + 1, Len(all))) <= MaxPerGuild
               /\ Range(SubSeq(all, 1, over)) \subseteq 1..Entries
               /\ IsFiniteSet(Range(SubSeq(all, 1, over)))
               /\ Cardinality(Range(SubSeq(all, 1, over))) \in Nat
               /\ Cardinality(Range(SubSeq(all, 1, over))) <= over
  <1> DEFINE all == Append(lines[g], logged[g] + 1)
             over == Over(Len(all))
             gone == SubSeq(all, 1, over)
  <1>1. /\ logged[g] \in 0..Entries /\ lines[g] \in Seq(1..Entries) /\ Len(lines[g]) \in Nat
        /\ Len(lines[g]) <= MaxPerGuild /\ MaxPerGuild \in Nat /\ MaxPerGuild > 0 /\ Entries \in Nat
    BY TypedByGuild, LogConstants DEF GuildTyped
  <1>2. logged[g] + 1 \in 1..Entries
    BY <1>1
  <1>3. all \in Seq(1..Entries) /\ Len(all) = Len(lines[g]) + 1
    BY <1>1, <1>2, AppendProperties
  <1> HIDE DEF all
  <1>4. over \in 0..Len(all) /\ Len(all) - over <= MaxPerGuild
    BY <1>1, <1>3 DEF Over
  <1> HIDE DEF over
  <1>5. /\ SubSeq(all, over + 1, Len(all)) \in Seq(1..Entries)
        /\ Len(SubSeq(all, over + 1, Len(all))) <= MaxPerGuild
    <2>1. over + 1 \in 1..Len(all) + 1 /\ Len(all) \in 0..Len(all)
      BY <1>1, <1>3, <1>4
    <2>2. /\ SubSeq(all, over + 1, Len(all)) \in Seq(1..Entries)
          /\ Len(SubSeq(all, over + 1, Len(all))) =
               IF over + 1 <= Len(all) THEN Len(all) - (over + 1) + 1 ELSE 0
      BY <1>3, <2>1, Stretch
    <2> QED BY <1>1, <1>3, <1>4, <2>2
  <1>6. gone \in Seq(1..Entries) /\ Len(gone) = over
    <2>1. 1 \in 1..Len(all) + 1
      BY <1>1, <1>3
    <2>2. gone \in Seq(1..Entries) /\ Len(gone) = IF 1 <= over THEN over - 1 + 1 ELSE 0
      BY <1>3, <1>4, <2>1, Stretch
    <2> QED BY <1>1, <1>3, <1>4, <2>2
  <1>7. Range(gone) \subseteq 1..Entries
    BY <1>6, RangeEquality, ElementOfSeq DEF Range
  <1>8. IsFiniteSet(Range(gone)) /\ Cardinality(Range(gone)) \in Nat /\ Cardinality(Range(gone)) <= over
    BY <1>6, RangeIsSmall
  <1>9. logged[g] + 1 \in 0..Entries /\ over \in Nat
    BY <1>1, <1>2, <1>3, <1>4
  <1> QED BY <1>3, <1>4, <1>5, <1>7, <1>8, <1>9 DEF all, over

\* A server whose batch, counts and losses a step leaves alone stays counted.
Untouched(g) == UNCHANGED <<batch[g], dropped[g], told[g], lost[g]>>

LEMMA UntouchedStaysCounted ==
    ASSUME NEW g \in Guilds, Counted(g), Untouched(g)
    PROVE  Counted(g)'
  BY DEF Counted, Untouched, Owed

\* An outcome is added.
LEMMA AddCounted ==
    ASSUME LogTypeOK, \A g \in Guilds : Counted(g), NEW g \in Guilds, logged[g] < Entries, Add(g),
           UNCHANGED <<channel, alive, batch, shown, told>>, reading' \subseteq Guilds
    PROVE  LogTypeOK' /\ \A h \in Guilds : Counted(h)'
  <1> DEFINE all == Append(lines[g], logged[g] + 1)
             over == Over(Len(all))
             left == SubSeq(all, over + 1, Len(all))
             gone == Range(SubSeq(all, 1, over))
  <1>1. /\ logged[g] + 1 \in 0..Entries
        /\ over \in Nat
        /\ left \in Seq(1..Entries) /\ Len(left) <= MaxPerGuild
        /\ gone \subseteq 1..Entries /\ IsFiniteSet(gone)
        /\ Cardinality(gone) \in Nat /\ Cardinality(gone) <= over
    BY Pushed
  <1>2. /\ logged' = [logged EXCEPT ![g] = logged[g] + 1]
        /\ lines' = [lines EXCEPT ![g] = left]
        /\ dropped' = [dropped EXCEPT ![g] = dropped[g] + over]
        /\ lost' = [lost EXCEPT ![g] = lost[g] \cup gone]
    BY DEF Add
  <1> HIDE DEF left, over, gone, all
  <1>3. LogTypeOK'
    <2>1. logged' \in [Guilds -> 0..Entries]
      BY <1>1, <1>2 DEF LogTypeOK
    <2>2. dropped' \in [Guilds -> Nat]
      BY <1>1, <1>2 DEF LogTypeOK
    <2>3. lost' \in [Guilds -> SUBSET (1..Entries)]
      BY <1>1, <1>2 DEF LogTypeOK
    <2>4. lines' \in [Guilds -> Seq(1..Entries)] /\ \A h \in Guilds : Len(lines'[h]) <= MaxPerGuild
      BY <1>1, <1>2 DEF LogTypeOK
    <2> QED BY <2>1, <2>2, <2>3, <2>4 DEF LogTypeOK
  <1>4. Counted(g)'
    <2>1. GuildTyped(g)
      BY TypedByGuild
    <2>2. /\ Cardinality(lost[g] \cup gone) \in Nat
          /\ Cardinality(lost[g] \cup gone) <= Cardinality(lost[g]) + Cardinality(gone)
      BY <1>1, <2>1, UnionIsSmall DEF GuildTyped
    <2>3. /\ dropped'[g] = dropped[g] + over /\ lost'[g] = lost[g] \cup gone
          /\ Owed(g)' = Owed(g) /\ batch'[g] = batch[g] /\ told'[g] = told[g]
      BY <1>2 DEF LogTypeOK, Owed
    <2>4. Cardinality(lost[g]) <= dropped[g] + Owed(g) + told[g] /\ Len(batch[g].rest) <= batch[g].size
      BY DEF Counted
    <2>5. Cardinality(lost[g] \cup gone) <= dropped[g] + over + Owed(g) + told[g]
      <3> DEFINE many == Cardinality(lost[g] \cup gone)
                 before == Cardinality(lost[g])
                 pushed == Cardinality(gone)
                 owed == Owed(g)
      <3>1. /\ many \in Nat /\ before \in Nat /\ pushed \in Nat /\ owed \in Nat
            /\ dropped[g] \in Nat /\ told[g] \in Nat /\ over \in Nat
        BY <1>1, <2>1, <2>2 DEF GuildTyped
      <3>2. many <= before + pushed /\ pushed <= over /\ before <= dropped[g] + owed + told[g]
        BY <1>1, <2>2, <2>4
      <3> HIDE DEF many, before, pushed, owed
      <3>3. many <= dropped[g] + over + owed + told[g]
        BY <3>1, <3>2
      <3> QED BY <3>3 DEF many, owed
    <2> QED BY <2>3, <2>4, <2>5 DEF Counted
  <1>5. \A h \in Guilds \ {g} : Counted(h)'
    BY <1>2, UntouchedStaysCounted DEF LogTypeOK, Untouched
  <1> QED BY <1>3, <1>4, <1>5

\* A batch is left, uncounted.
LEMMA LeftCounted ==
    ASSUME LogTypeOK, \A g \in Guilds : Counted(g), NEW g \in Guilds, LeaveBatch(g),
           UNCHANGED <<alive, reading, buffer>>, channel' \in [Guilds -> Channels \cup {None}]
    PROVE  LogTypeOK' /\ \A h \in Guilds : Counted(h)'
  <1>1. /\ batch' = [batch EXCEPT ![g] = Idle]
        /\ told' = [told EXCEPT ![g] = 0]
        /\ lost' = [lost EXCEPT ![g] = {}]
        /\ UNCHANGED <<shown, dropped, logged, lines>>
    BY DEF LeaveBatch, buffer
  <1>2. LogTypeOK'
    BY <1>1, IdleType DEF LogTypeOK, Batches
  <1>3. Counted(g)'
    <2>1. dropped'[g] \in Nat /\ Owed(g)' \in Nat /\ told'[g] = 0
      BY <1>1, <1>2, TypedByGuild DEF LogTypeOK, Owed, Idle
    <2>2. Cardinality(lost'[g]) = 0 /\ batch'[g] = Idle
      BY <1>1, FS_EmptySet DEF LogTypeOK
    <2> QED BY <2>1, <2>2, IdleType DEF Counted
  <1>4. \A h \in Guilds \ {g} : Counted(h)'
    BY <1>1, UntouchedStaysCounted DEF LogTypeOK, Untouched
  <1> QED BY <1>2, <1>3, <1>4

\* The buffer is drained into batches.
LEMMA DrainCounted ==
    ASSUME LogTypeOK, \A g \in Guilds : Counted(g), NEW read \in BOOLEAN, Drain(read)
    PROVE  LogTypeOK' /\ \A h \in Guilds : Counted(h)'
  <1> DEFINE new(g) == [posting |-> FALSE, to |-> IF read THEN channel[g] ELSE None, note |-> FALSE,
                        rest |-> lines[g], size |-> Len(lines[g]), carried |-> dropped[g]]
  <1>1. \A g \in Guilds : new(g) \in Batches
    BY TypedByGuild DEF GuildTyped, Batches
  <1>2. /\ batch' = [g \in Guilds |-> IF lines[g] = << >> THEN Idle ELSE new(g)]
        /\ dropped' = [g \in Guilds |-> CountLeft(g)]
        /\ lines' = [g \in Guilds |-> << >>]
        /\ UNCHANGED <<channel, alive, reading, logged, shown, told, lost>>
    BY DEF Drain, LinesLeft, seen
  <1>3. << >> \in Seq(1..Entries) /\ Len(<< >>) = 0
    BY EmptySeq
  <1>4. LogTypeOK'
    <2>1. batch' \in [Guilds -> Batches]
      <3> HIDE DEF new
      <3> QED BY <1>1, <1>2, IdleType
    <2>2. dropped' \in [Guilds -> Nat] /\ lines' \in [Guilds -> Seq(1..Entries)]
          /\ \A g \in Guilds : Len(lines'[g]) <= MaxPerGuild
      BY <1>2, <1>3, LogConstants DEF LogTypeOK, CountLeft
    <2> QED BY <1>2, <2>1, <2>2 DEF LogTypeOK, Batches
  <1>5. ASSUME NEW g \in Guilds
        PROVE  Counted(g)'
    <2> HIDE DEF new
    <2>1. GuildTyped(g) /\ Counted(g) /\ batch[g] = Idle
      BY TypedByGuild DEF Drain
    <2>1a. Owed(g) = 0
      BY <2>1 DEF Owed, Idle
    <2>2. told'[g] = told[g] /\ lost'[g] = lost[g]
      BY <1>2
    <2>3. CASE lines[g] = << >>
      <3>1. batch'[g] = Idle /\ dropped'[g] = dropped[g]
        BY <1>2, <2>3 DEF CountLeft
      <3>2. Owed(g)' = 0
        BY <3>1 DEF Owed, Idle
      <3> QED BY <2>1, <2>1a, <2>2, <3>1, <3>2, IdleType DEF Counted, GuildTyped
    <2>4. CASE lines[g] # << >>
      <3>1. batch'[g] = new(g) /\ dropped'[g] = 0
        BY <1>2, <2>4 DEF CountLeft
      <3>2. /\ ~new(g).posting /\ new(g).carried = dropped[g]
            /\ new(g).rest = lines[g] /\ new(g).size = Len(lines[g])
        BY DEF new
      <3>3. Owed(g)' = dropped[g]
        BY <3>1, <3>2 DEF Owed
      <3> QED BY <2>1, <2>1a, <2>2, <3>1, <3>2, <3>3 DEF Counted, GuildTyped
    <2> QED BY <2>3, <2>4
  <1> QED BY <1>4, <1>5

\* A batch is refused: all of it is reported, what was sent included.
LEMMA RefusedCounted ==
    ASSUME LogTypeOK, \A g \in Guilds : Counted(g), NEW g \in Guilds, SendRefused(g)
    PROVE  LogTypeOK' /\ \A h \in Guilds : Counted(h)'
  <1> DEFINE gone == Range(batch[g].rest)
             loss == batch[g].size + batch[g].carried
  <1>1. /\ dropped' = [dropped EXCEPT ![g] = dropped[g] + loss]
        /\ lost' = [lost EXCEPT ![g] = lost[g] \cup gone]
        /\ batch' = [batch EXCEPT ![g] = Idle]
        /\ UNCHANGED <<channel, alive, reading, logged, lines, shown, told>>
    BY DEF SendRefused, BatchLoss, seen
  <1>2. GuildTyped(g)
    BY TypedByGuild
  <1>3. /\ gone \subseteq 1..Entries /\ IsFiniteSet(gone) /\ Cardinality(gone) \in Nat
        /\ Cardinality(gone) <= Len(batch[g].rest)
    <2> DEFINE rest == batch[g].rest
    <2>1. rest \in Seq(1..Entries)
      BY <1>2 DEF GuildTyped
    <2> HIDE DEF rest
    <2>2. Range(rest) \subseteq 1..Entries
      <3>1. \A i \in 1..Len(rest) : rest[i] \in 1..Entries
        BY <2>1, ElementOfSeq
      <3>2. DOMAIN rest = 1..Len(rest)
        BY <2>1, LenProperties
      <3> QED BY <3>1, <3>2 DEF Range
    <2>3. IsFiniteSet(Range(rest)) /\ Cardinality(Range(rest)) \in Nat /\ Cardinality(Range(rest)) <= Len(rest)
      BY <2>1, RangeIsSmall
    <2> QED BY <2>2, <2>3 DEF rest
  <1>4. loss \in Nat
    <2>1. batch[g].size \in Nat /\ batch[g].carried \in Nat
      BY <1>2 DEF GuildTyped
    <2> QED BY <2>1
  <1> HIDE DEF gone
  <1>5. LogTypeOK'
    <2> HIDE DEF loss
    <2>1. batch' \in [Guilds -> Batches]
      BY <1>1, IdleType DEF LogTypeOK, Batches
    <2>2. dropped' \in [Guilds -> Nat]
      BY <1>1, <1>2, <1>4 DEF LogTypeOK, GuildTyped
    <2>3. lost' \in [Guilds -> SUBSET (1..Entries)]
      BY <1>1, <1>3 DEF LogTypeOK
    <2> QED BY <1>1, <2>1, <2>2, <2>3 DEF LogTypeOK, Batches
  <1>6. Counted(g)'
    <2>1. /\ Cardinality(lost[g] \cup gone) \in Nat
          /\ Cardinality(lost[g] \cup gone) <= Cardinality(lost[g]) + Cardinality(gone)
      BY <1>2, <1>3, UnionIsSmall DEF GuildTyped
    <2>2. /\ dropped'[g] = dropped[g] + loss /\ lost'[g] = lost[g] \cup gone
          /\ batch'[g] = Idle /\ told'[g] = told[g]
      BY <1>1 DEF LogTypeOK
    <2>3. Owed(g)' = 0
      BY <2>2 DEF Owed, Idle
    <2>4. Cardinality(lost[g] \cup gone) <= dropped[g] + loss + told[g]
      <3> DEFINE many == Cardinality(lost[g] \cup gone)
                 before == Cardinality(lost[g])
                 held == Cardinality(gone)
                 rest == Len(batch[g].rest)
                 size == batch[g].size
                 carried == batch[g].carried
      <3>1. /\ many \in Nat /\ before \in Nat /\ held \in Nat /\ rest \in Nat /\ size \in Nat
            /\ carried \in Nat /\ dropped[g] \in Nat /\ told[g] \in Nat
        BY <1>2, <1>3, <2>1 DEF GuildTyped
      <3>2. before <= dropped[g] + carried + told[g]
        BY <1>2 DEF Counted, Owed, GuildTyped
      <3>3. many <= before + held /\ held <= rest /\ rest <= size
        BY <1>3, <2>1 DEF Counted
      <3> HIDE DEF many, before, held, rest, size, carried
      <3>4. many <= dropped[g] + (size + carried) + told[g]
        BY <3>1, <3>2, <3>3
      <3> QED BY <3>4 DEF many, size, carried
    <2> HIDE DEF loss
    <2>5. Cardinality(lost'[g]) <= dropped'[g] + Owed(g)' + told'[g]
      BY <1>2, <1>4, <2>2, <2>3, <2>4 DEF GuildTyped
    <2> QED BY <2>2, <2>5, IdleType DEF Counted
  <1>7. \A h \in Guilds \ {g} : Counted(h)'
    BY <1>1, UntouchedStaysCounted DEF LogTypeOK, Untouched
  <1> QED BY <1>5, <1>6, <1>7

\* How much a message takes.
LEMMA FitsType ==
    ASSUME LogTypeOK, NEW g \in Guilds
    PROVE  Fits(g) \in 0..Len(batch[g].rest)
  BY TypedByGuild, LogConstants DEF Fits, GuildTyped

\* A message is sent.
LEMMA SentCounted ==
    ASSUME LogTypeOK, \A g \in Guilds : Counted(g), NEW g \in Guilds, SendOk(g)
    PROVE  LogTypeOK' /\ \A h \in Guilds : Counted(h)'
  <1> DEFINE rest == batch[g].rest
             n == Fits(g)
             sent == SubSeq(rest, 1, n)
             left == SubSeq(rest, n + 1, Len(rest))
             now == IF batch[g].note THEN told[g] + batch[g].carried ELSE told[g]
             new == IF n = Len(rest) THEN Idle ELSE [batch[g] EXCEPT !.note = FALSE, !.rest = left]
  <1>1. /\ shown' = [shown EXCEPT ![g] = shown[g] \o sent]
        /\ told' = [told EXCEPT ![g] = now]
        /\ batch' = [batch EXCEPT ![g] = new]
        /\ UNCHANGED <<channel, alive, reading, logged, lines, dropped, lost>>
        /\ batch[g].posting
    BY DEF SendOk, buffer
  <1>2. GuildTyped(g) /\ n \in 0..Len(rest)
    BY TypedByGuild, FitsType
  <1>3. sent \in Seq(1..Entries) /\ left \in Seq(1..Entries) /\ Len(left) <= Len(rest)
    <2> HIDE DEF n
    <2>1. 1 \in 1..Len(rest) + 1 /\ n + 1 \in 1..Len(rest) + 1 /\ Len(rest) \in 0..Len(rest)
          /\ rest \in Seq(1..Entries) /\ Len(rest) \in Nat
      BY <1>2 DEF GuildTyped
    <2>2. sent \in Seq(1..Entries)
      BY <1>2, <2>1, Stretch
    <2>3. left \in Seq(1..Entries) /\ Len(left) = IF n + 1 <= Len(rest) THEN Len(rest) - (n + 1) + 1 ELSE 0
      BY <1>2, <2>1, Stretch
    <2> QED BY <1>2, <2>1, <2>2, <2>3
  <1>4. shown[g] \o sent \in Seq(1..Entries)
    <2> HIDE DEF sent
    <2> QED BY <1>2, <1>3, ConcatProperties DEF GuildTyped
  <1>5. now \in Nat
    BY <1>2 DEF GuildTyped
  <1> HIDE DEF n, sent, left
  <1>6. new \in Batches /\ Len(new.rest) <= new.size
    <2>1. CASE n = Len(rest)
      BY <2>1, IdleType
    <2>2. CASE n # Len(rest)
      <3>1. Len(rest) <= batch[g].size /\ Len(left) \in Nat
        BY <1>3, LenProperties DEF Counted
      <3>2. new.rest = left /\ new.size = batch[g].size
        BY <1>2, <2>2 DEF GuildTyped, Batches
      <3>3. new \in Batches
        BY <1>2, <1>3, <2>2 DEF GuildTyped, Batches
      <3>4. Len(new.rest) <= new.size
        BY <1>2, <1>3, <3>1, <3>2 DEF GuildTyped
      <3> QED BY <3>3, <3>4
    <2> QED BY <2>1, <2>2
  <1>7. LogTypeOK'
    <2> HIDE DEF new, now
    <2>1. batch' \in [Guilds -> Batches]
      BY <1>1, <1>6 DEF LogTypeOK, Batches
    <2>2. told' \in [Guilds -> Nat]
      BY <1>1, <1>5 DEF LogTypeOK
    <2>3. shown' \in [Guilds -> Seq(1..Entries)]
      BY <1>1, <1>4 DEF LogTypeOK
    <2> QED BY <1>1, <2>1, <2>2, <2>3 DEF LogTypeOK, Batches
  <1>8. Counted(g)'
    <2>1. dropped'[g] = dropped[g] /\ lost'[g] = lost[g] /\ batch'[g] = new /\ told'[g] = now
      BY <1>1 DEF LogTypeOK
    <2>2. Owed(g)' = 0
      <3>1. CASE n = Len(rest)
        BY <2>1, <3>1 DEF Owed, Idle
      <3>2. CASE n # Len(rest)
        <4>1. new.note = FALSE /\ new.posting = batch[g].posting
          BY <1>2, <3>2 DEF GuildTyped, Batches
        <4> QED BY <1>1, <2>1, <4>1 DEF Owed
      <3> QED BY <3>1, <3>2
    <2>3. Cardinality(lost[g]) <= dropped[g] + now
      <3>1. Cardinality(lost[g]) <= dropped[g] + Owed(g) + told[g]
        BY DEF Counted
      <3>2. /\ Cardinality(lost[g]) \in Nat /\ dropped[g] \in Nat /\ told[g] \in Nat
            /\ batch[g].carried \in Nat
        BY <1>2 DEF GuildTyped
      <3>3. CASE batch[g].note
        <4>1. Owed(g) = batch[g].carried /\ now = told[g] + batch[g].carried
          BY <3>3 DEF Owed
        <4> HIDE DEF now
        <4> QED BY <3>1, <3>2, <4>1
      <3>4. CASE ~batch[g].note
        <4>1. Owed(g) = 0 /\ now = told[g]
          BY <1>1, <3>4 DEF Owed
        <4> HIDE DEF now
        <4> QED BY <3>1, <3>2, <4>1
      <3> QED BY <3>3, <3>4
    <2> HIDE DEF new, now
    <2> QED BY <1>2, <1>5, <1>6, <2>1, <2>2, <2>3 DEF Counted, GuildTyped
  <1>9. \A h \in Guilds \ {g} : Counted(h)'
    <2> HIDE DEF new, now
    <2> QED BY <1>1, UntouchedStaysCounted DEF LogTypeOK, Untouched
  <1> QED BY <1>7, <1>8, <1>9

\* The flush task comes to a batch with a channel.
LEMMA BegunCounted ==
    ASSUME LogTypeOK, \A g \in Guilds : Counted(g), NEW g \in Guilds, NEW read \in BOOLEAN,
           BeginPost(g, read)
    PROVE  LogTypeOK' /\ \A h \in Guilds : Counted(h)'
  <1> DEFINE to == IF batch[g].to = None /\ read THEN channel[g] ELSE batch[g].to
             new == [batch[g] EXCEPT !.posting = TRUE, !.to = to, !.note = batch[g].carried > 0]
  <1>1. UNCHANGED <<channel, alive, reading, logged, lines, dropped>> /\ Waiting(g)
    BY DEF BeginPost, buffer
  <1>2. GuildTyped(g)
    BY TypedByGuild
  <1>3. CASE to = None
    BY <1>1, <1>3, LeftCounted DEF BeginPost, buffer, LogTypeOK
  <1>4. CASE to # None
    <2>1. batch' = [batch EXCEPT ![g] = new] /\ UNCHANGED <<shown, told, lost>>
      BY <1>4 DEF BeginPost, seen
    <2>2. /\ new \in Batches /\ new.rest = batch[g].rest /\ new.size = batch[g].size
          /\ new.carried = batch[g].carried
          /\ batch[g].carried > 0 => new.note = TRUE
      <3>1. /\ batch[g] \in Batches /\ to \in Channels \cup {None}
            /\ (batch[g].carried > 0) \in BOOLEAN
        BY <1>2 DEF GuildTyped, Batches
      <3> HIDE DEF to
      <3>2. new \in Batches
        BY <3>1 DEF Batches
      <3>3. new.rest = batch[g].rest /\ new.size = batch[g].size /\ new.carried = batch[g].carried
        BY <3>1 DEF Batches
      <3>4. ASSUME batch[g].carried > 0 PROVE new.note = TRUE
        <4>1. (batch[g].carried > 0) = TRUE
          BY <3>4
        <4> QED BY <3>1, <4>1 DEF Batches
      <3> QED BY <3>2, <3>3, <3>4
    <2> HIDE DEF new
    <2>3. LogTypeOK'
      BY <1>1, <2>1, <2>2 DEF LogTypeOK, Batches
    <2>4. Counted(g)'
      <3>1. /\ batch'[g] = new /\ dropped'[g] = dropped[g]
            /\ told'[g] = told[g] /\ lost'[g] = lost[g]
        BY <1>1, <2>1 DEF LogTypeOK
      <3>2. Owed(g) = batch[g].carried
        BY <1>1 DEF Owed, Waiting
      <3>3. Owed(g)' = batch[g].carried
        <4>1. batch[g].carried \in Nat
          BY <1>2 DEF GuildTyped
        <4>2. CASE batch[g].carried > 0
          BY <2>2, <3>1, <4>2 DEF Owed
        <4>3. CASE batch[g].carried = 0
          BY <2>2, <3>1, <4>3 DEF Owed
        <4> QED BY <4>1, <4>2, <4>3
      <3> QED BY <2>2, <3>1, <3>2, <3>3 DEF Counted
    <2>5. \A h \in Guilds \ {g} : Counted(h)'
      BY <1>1, <2>1, UntouchedStaysCounted DEF LogTypeOK, Untouched
    <2> QED BY <2>3, <2>4, <2>5
  <1> QED BY <1>3, <1>4

\* A step that touches no batch, count or loss.
LEMMA QuietCounted ==
    ASSUME LogTypeOK, \A g \in Guilds : Counted(g), UNCHANGED <<buffer, batch, seen, lost>>,
           channel' \in [Guilds -> Channels \cup {None}], alive' \subseteq Channels,
           reading' \subseteq Guilds
    PROVE  LogTypeOK' /\ \A h \in Guilds : Counted(h)'
  <1>1. LogTypeOK'
    BY DEF LogTypeOK, buffer, seen
  <1>2. \A h \in Guilds : Counted(h)'
    BY UntouchedStaysCounted DEF Untouched, buffer, seen
  <1> QED BY <1>1, <1>2

LEMMA InitLossInv == Init => LossInv
  <1> SUFFICES ASSUME Init PROVE LossInv
    OBVIOUS
  <1>1. << >> \in Seq(1..Entries) /\ Len(<< >>) = 0
    BY EmptySeq
  <1>2. LogTypeOK
    <2>1. /\ lines \in [Guilds -> Seq(1..Entries)] /\ shown \in [Guilds -> Seq(1..Entries)]
          /\ \A g \in Guilds : Len(lines[g]) <= MaxPerGuild
      BY <1>1, LogConstants DEF Init
    <2>2. logged \in [Guilds -> 0..Entries] /\ dropped \in [Guilds -> Nat] /\ told \in [Guilds -> Nat]
      BY LogConstants DEF Init
    <2>3. batch \in [Guilds -> Batches]
      BY IdleType DEF Init
    <2>4. /\ channel \in [Guilds -> Channels \cup {None}] /\ alive \subseteq Channels
          /\ reading \subseteq Guilds /\ lost \in [Guilds -> SUBSET (1..Entries)]
      BY DEF Init
    <2> QED BY <2>1, <2>2, <2>3, <2>4 DEF LogTypeOK, Batches
  <1>3. PlanTypeOK /\ Heard
    BY DEF Init, PlanInit, PlanTypeOK, Heard, FallbackIsHeard, Empty, Caches
  <1>4. \A g \in Guilds : Counted(g)
    BY IdleType, FS_EmptySet DEF Init, Counted, Owed, Idle
  <1> QED BY <1>2, <1>3, <1>4 DEF LossInv, TypeOK

LEMMA StepLossInv == LossInv /\ [Next]_vars => LossInv'
  <1> SUFFICES ASSUME LossInv, [Next]_vars PROVE LossInv'
    OBVIOUS
  <1> DEFINE Kept == LogTypeOK' /\ \A h \in Guilds : Counted(h)'
  <1>1. LogTypeOK /\ PlanTypeOK /\ Heard /\ \A g \in Guilds : Counted(g)
    BY DEF LossInv, TypeOK
  <1>2. channel \in [Guilds -> Channels \cup {None}] /\ alive \subseteq Channels /\ reading \subseteq Guilds
    BY <1>1 DEF LogTypeOK
  <1>3. PlanTypeOK' /\ Heard'
    BY <1>1, StepMovesPlan, PlanStaysHeard
  <1>4. ASSUME PlanStep \/ (\E g \in Guilds : AskPlan(g)) \/ UNCHANGED vars
        PROVE  Kept
    BY <1>1, <1>2, <1>4, QuietCounted DEF PlanStep, AskPlan, vars, logVars, buffer, seen
  <1>5. ASSUME NEW g \in Guilds, ReadChannel(g)
        PROVE  Kept
    <2>1. /\ UNCHANGED <<buffer, batch, seen, lost>>
          /\ UNCHANGED <<channel, alive>> /\ reading' = reading \cup {g}
      BY <1>5 DEF ReadChannel
    <2> QED BY <1>1, <1>2, <2>1, QuietCounted
  <1>6. ASSUME NEW g \in Guilds, NEW card \in BOOLEAN, QueueLog(g, card)
        PROVE  Kept
    <2>1. UNCHANGED <<channel, alive, batch, shown, told>> /\ reading' = reading \ {g}
      BY <1>6 DEF QueueLog, seen
    <2>2. CASE UNCHANGED <<buffer, lost>>
      <3>1. UNCHANGED <<buffer, batch, seen, lost>>
        BY <2>1, <2>2 DEF seen
      <3> QED BY <1>1, <1>2, <2>1, <3>1, QuietCounted
    <2>3. CASE logged[g] < Entries /\ Add(g)
      <3>1. reading' \subseteq Guilds
        BY <1>2, <2>1
      <3> QED BY <1>1, <2>1, <2>3, <3>1, AddCounted
    <2> QED BY <1>6, <2>2, <2>3 DEF QueueLog
  <1>7. ASSUME NEW g \in Guilds, SendOk(g)
        PROVE  Kept
    BY <1>1, <1>7, SentCounted
  <1>8. ASSUME NEW g \in Guilds, SendGone(g)
        PROVE  Kept
    <2>1. /\ LeaveBatch(g) /\ UNCHANGED <<alive, reading, buffer>>
          /\ channel' = [channel EXCEPT ![g] = None]
      BY <1>8 DEF SendGone, buffer
    <2>2. channel' \in [Guilds -> Channels \cup {None}]
      BY <1>2, <2>1
    <2> QED BY <1>1, <2>1, <2>2, LeftCounted
  <1>9. ASSUME NEW g \in Guilds, SendRefused(g)
        PROVE  Kept
    BY <1>1, <1>9, RefusedCounted
  <1>10. ASSUME NEW g \in Guilds, NEW read \in BOOLEAN, BeginPost(g, read)
         PROVE  Kept
    BY <1>1, <1>10, BegunCounted
  <1>11. ASSUME NEW g \in Guilds, NEW c \in Channels \cup {None}, SetChannel(g, c)
         PROVE  Kept
    <2>1. /\ UNCHANGED <<buffer, batch, seen, lost>> /\ UNCHANGED <<alive, reading>>
          /\ channel' = [channel EXCEPT ![g] = c]
      BY <1>11 DEF SetChannel
    <2>2. channel' \in [Guilds -> Channels \cup {None}]
      BY <1>2, <2>1
    <2> QED BY <1>1, <1>2, <2>1, <2>2, QuietCounted
  <1>12. ASSUME NEW read \in BOOLEAN, Drain(read)
         PROVE  Kept
    BY <1>1, <1>12, DrainCounted
  <1>13. ASSUME NEW c \in Channels, DeleteChannel(c)
         PROVE  Kept
    BY <1>1, <1>2, <1>13, QuietCounted DEF DeleteChannel
  <1>14. ASSUME Restart
         PROVE  Kept
    <2>1. << >> \in Seq(1..Entries) /\ Len(<< >>) = 0
      BY EmptySeq
    <2>2. LogTypeOK'
      <3>1. /\ lines' \in [Guilds -> Seq(1..Entries)]
            /\ \A g \in Guilds : Len(lines'[g]) <= MaxPerGuild
        BY <1>14, <2>1, LogConstants DEF Restart
      <3>2. dropped' \in [Guilds -> Nat] /\ told' \in [Guilds -> Nat]
        BY <1>14 DEF Restart
      <3>3. batch' \in [Guilds -> Batches]
        BY <1>14, IdleType DEF Restart
      <3>4. reading' \subseteq Guilds /\ lost' \in [Guilds -> SUBSET (1..Entries)]
        BY <1>14 DEF Restart
      <3>5. UNCHANGED <<channel, alive, logged, shown>>
        BY <1>14 DEF Restart
      <3> QED BY <1>1, <3>1, <3>2, <3>3, <3>4, <3>5 DEF LogTypeOK, Batches
    <2>3. \A h \in Guilds : Counted(h)'
      <3>1. ASSUME NEW h \in Guilds PROVE Counted(h)'
        <4>1. /\ batch'[h] = Idle /\ dropped'[h] = 0 /\ told'[h] = 0 /\ lost'[h] = {}
          BY <1>14 DEF Restart
        <4>2. Owed(h)' = 0
          BY <4>1 DEF Owed, Idle
        <4> QED BY <4>1, <4>2, IdleType, FS_EmptySet DEF Counted
      <3> QED BY <3>1
    <2> QED BY <2>2, <2>3
  <1>15. Kept
    BY <1>4, <1>5, <1>6, <1>7, <1>8, <1>9, <1>10, <1>11, <1>12, <1>13, <1>14 DEF Next
  <1> QED BY <1>3, <1>15 DEF LossInv, TypeOK

LEMMA LossInvHolds == Spec => []LossInv
  BY InitLossInv, StepLossInv, PTL DEF Spec

\* The log, its buffer, the batches and the plan stay what they are declared
\* to be: the buffer of a server holds MaxPerGuild lines at most.
THEOREM LogTypeCorrect == Spec => []TypeOK
  <1>1. LossInv => TypeOK
    BY DEF LossInv
  <1> QED BY <1>1, LossInvHolds, PTL

\* No loss goes untold: each entry a full buffer or a refused send costs is in
\* a count the buffer keeps, in one a batch carries, or in a note shown.
THEOREM LossesAreTold == Spec => []LossIsTold
  <1>1. LossInv => LossIsTold
    <2> SUFFICES ASSUME LossInv, NEW g \in Guilds
                 PROVE  Cardinality(lost[g]) <= dropped[g] + batch[g].carried + told[g]
      BY DEF LossIsTold
    <2>1. GuildTyped(g) /\ Counted(g)
      BY TypedByGuild DEF LossInv, TypeOK
    <2>2. Owed(g) <= batch[g].carried
      BY <2>1 DEF Owed, GuildTyped
    <2> QED BY <2>1, <2>2 DEF Counted, GuildTyped
  <1> QED BY <1>1, LossInvHolds, PTL

\* A failed lookup of the plan falls back on what Discord has said of the
\* server, never on an earlier guess.
THEOREM FallbacksAreHeard == Spec => []FallbackIsHeard
  <1>1. LossInv => FallbackIsHeard
    BY DEF LossInv, Heard
  <1> QED BY <1>1, LossInvHolds, PTL

----------------------------------------------------------------------------
\* The logs are lossy queues.

LEMMA PendingType ==
    ASSUME LogTypeOK, NEW g \in Guilds
    PROVE  /\ Pending(g) \in Seq(1..Entries)
           /\ Len(Pending(g)) = Len(batch[g].rest) + Len(lines[g]) /\ Len(Pending(g)) \in Nat
  <1>1. GuildTyped(g)
    BY TypedByGuild
  <1>2. /\ batch[g].rest \o lines[g] \in Seq(1..Entries)
        /\ Len(batch[g].rest \o lines[g]) = Len(batch[g].rest) + Len(lines[g])
    BY <1>1, ConcatProperties DEF GuildTyped
  <1>3. Len(batch[g].rest) \in Nat /\ Len(lines[g]) \in Nat
    BY <1>1 DEF GuildTyped
  <1>4. Pending(g) = batch[g].rest \o lines[g]
    BY DEF Pending
  <1>5. Len(Pending(g)) = Len(batch[g].rest) + Len(lines[g])
    BY <1>2, <1>4
  <1>6. Len(Pending(g)) \in Nat
    BY <1>2, <1>4, LenProperties
  <1> QED BY <1>2, <1>4, <1>5, <1>6

\* A step of a queue, said of the log.
LEMMA Loses ==
    ASSUME NEW g \in Guilds, NEW j \in 0..Len(Pending(g)), NEW i \in 1..j + 1,
           Pending(g)' = Queue!Cut(Pending(g), i, j),
           logged'[g] = logged[g], shown'[g] = shown[g]
    PROVE  Queue!LogStep(g)
  BY DEF Queue!LogStep, Queue!Lose

LEMMA Logs ==
    ASSUME NEW g \in Guilds, NEW j \in 0..Len(Pending(g)) + 1, NEW i \in 1..j + 1,
           Pending(g)' = Queue!Cut(Append(Pending(g), logged'[g]), i, j),
           logged'[g] = logged[g] + 1, shown'[g] = shown[g]
    PROVE  Queue!LogStep(g)
  BY DEF Queue!LogStep, Queue!Log

LEMMA Shows ==
    ASSUME NEW g \in Guilds, NEW n \in 1..Len(Pending(g)),
           shown'[g] = shown[g] \o SubSeq(Pending(g), 1, n),
           Pending(g)' = SubSeq(Pending(g), n + 1, Len(Pending(g))),
           logged'[g] = logged[g]
    PROVE  Queue!LogStep(g)
  BY DEF Queue!LogStep, Queue!Show

\* A server nothing happens to, and one that loses its first k entries.
LEMMA LosesFront ==
    ASSUME LogTypeOK, NEW g \in Guilds, NEW k \in 0..Len(Pending(g)),
           Pending(g)' = SubSeq(Pending(g), k + 1, Len(Pending(g))),
           logged'[g] = logged[g], shown'[g] = shown[g]
    PROVE  Queue!LogStep(g)
  <1>1. Pending(g) \in Seq(1..Entries) /\ Len(Pending(g)) \in Nat
    BY PendingType
  <1>2. Queue!Cut(Pending(g), 1, k) = SubSeq(Pending(g), k + 1, Len(Pending(g)))
    BY <1>1, CutFront
  <1>3. 1 \in 1..k + 1
    BY <1>1
  <1> QED BY <1>2, <1>3, Loses

LEMMA Rests ==
    ASSUME LogTypeOK, NEW g \in Guilds,
           Pending(g)' = Pending(g), logged'[g] = logged[g], shown'[g] = shown[g]
    PROVE  Queue!LogStep(g)
  <1>1. Pending(g) \in Seq(1..Entries) /\ Len(Pending(g)) \in Nat
    BY PendingType
  <1>2. SubSeq(Pending(g), 0 + 1, Len(Pending(g))) = Pending(g)
    BY <1>1, SubSeqFull
  <1>3. 0 \in 0..Len(Pending(g))
    BY <1>1
  <1> QED BY <1>2, <1>3, LosesFront

\* Its batch is lost, sent or not.
LEMMA LosesBatch ==
    ASSUME LogTypeOK, NEW g \in Guilds, batch'[g] = Idle, lines'[g] = lines[g],
           logged'[g] = logged[g], shown'[g] = shown[g]
    PROVE  Queue!LogStep(g)
  <1> DEFINE rest == batch[g].rest
  <1>1. /\ rest \in Seq(1..Entries) /\ Len(rest) \in Nat
        /\ lines[g] \in Seq(1..Entries) /\ Len(lines[g]) \in Nat
    BY TypedByGuild DEF GuildTyped
  <1>2. Pending(g)' = << >> \o lines[g]
    BY IdleType DEF Pending
  <1>3. SubSeq(rest \o lines[g], Len(rest) + 1, Len(rest \o lines[g]))
          = SubSeq(rest, Len(rest) + 1, Len(rest)) \o lines[g]
    <2>1. Len(rest) \in 0..Len(rest)
      BY <1>1
    <2> HIDE DEF rest
    <2> QED BY <1>1, <2>1, DropFront
  <1>4. SubSeq(rest, Len(rest) + 1, Len(rest)) = << >>
    BY <1>1, SubSeqEmpty
  <1>5. Len(rest) \in 0..Len(Pending(g))
    <2> DEFINE m == Len(rest)
               n == Len(lines[g])
               p == Len(Pending(g))
    <2>1. m \in Nat /\ n \in Nat /\ p = m + n
      BY <1>1, PendingType
    <2> HIDE DEF m, n, p
    <2>2. m \in 0..p
      BY <2>1
    <2> QED BY <2>2 DEF m, p
  <1>6. Pending(g)' = SubSeq(Pending(g), Len(rest) + 1, Len(Pending(g)))
    BY <1>2, <1>3, <1>4 DEF Pending
  <1> QED BY <1>5, <1>6, LosesFront

\* All of it is lost.
LEMMA LosesAll ==
    ASSUME LogTypeOK, NEW g \in Guilds, batch'[g] = Idle, lines'[g] = << >>,
           logged'[g] = logged[g], shown'[g] = shown[g]
    PROVE  Queue!LogStep(g)
  <1> DEFINE all == Pending(g)
  <1>1. all \in Seq(1..Entries) /\ Len(all) \in Nat
    BY PendingType
  <1>2. Pending(g)' = << >>
    BY IdleType, ConcatEmptySeq DEF Pending
  <1> HIDE DEF all
  <1>3. SubSeq(all, Len(all) + 1, Len(all)) = << >>
    BY <1>1, SubSeqEmpty
  <1>4. Len(all) \in 0..Len(all)
    BY <1>1
  <1> QED BY <1>2, <1>3, <1>4, LosesFront DEF all

\* An outcome is added, and what the buffer cannot hold goes.
LEMMA AddIsLog ==
    ASSUME LogTypeOK, NEW g \in Guilds, logged[g] < Entries, Add(g), UNCHANGED <<batch, shown>>
    PROVE  Queue!LogStep(g)
  <1> DEFINE e == logged[g] + 1
             rest == batch[g].rest
             all == Append(lines[g], e)
             over == Over(Len(all))
             first == Len(rest) + 1
             last == Len(rest) + over
  <1>1. /\ rest \in Seq(1..Entries) /\ Len(rest) \in Nat
        /\ lines[g] \in Seq(1..Entries) /\ Len(lines[g]) \in Nat
        /\ logged[g] \in 0..Entries /\ e \in 1..Entries
    BY TypedByGuild, LogConstants DEF GuildTyped
  <1>2. /\ all \in Seq(1..Entries) /\ Len(all) = Len(lines[g]) + 1
        /\ over \in 0..Len(all) /\ over \in Nat
    BY Pushed
  <1>3. /\ logged'[g] = e /\ lines'[g] = SubSeq(all, over + 1, Len(all))
        /\ batch'[g] = batch[g] /\ shown'[g] = shown[g]
    BY DEF Add, LogTypeOK
  <1> HIDE DEF e, over
  <1>4. Pending(g)' = rest \o SubSeq(all, over + 1, Len(all))
    BY <1>3 DEF Pending
  <1>5. Append(Pending(g), e) = rest \o all
    <2>1. Pending(g) = rest \o lines[g]
      BY DEF Pending
    <2> HIDE DEF rest
    <2>2. Append(rest \o lines[g], e) = rest \o Append(lines[g], e)
      <3>1. rest \in Seq(1..Entries) /\ lines[g] \in Seq(1..Entries) /\ e \in 1..Entries
        BY <1>1
      <3> QED BY <3>1, EntryAppended
    <2> QED BY <2>1, <2>2
  <1> HIDE DEF all
  <1>6. Queue!Cut(rest \o all, first, last) = rest \o SubSeq(all, over + 1, Len(all))
    BY <1>1, <1>2, CutBehind
  <1>7. Pending(g)' = Queue!Cut(Append(Pending(g), logged'[g]), first, last)
    BY <1>3, <1>4, <1>5, <1>6
  <1>8. last \in 0..Len(Pending(g)) + 1 /\ first \in 1..last + 1
    <2> DEFINE m == Len(rest)
               n == Len(lines[g])
               p == Len(Pending(g))
    <2>1. m \in Nat /\ n \in Nat /\ p = m + n /\ over \in Nat /\ over \in 0..n + 1
      BY <1>1, <1>2, PendingType
    <2> HIDE DEF m, n, p
    <2>2. m + over \in 0..p + 1 /\ m + 1 \in 1..m + over + 1
      BY <2>1
    <2>3. last = m + over /\ first = m + 1 /\ p = Len(Pending(g))
      BY DEF m, p
    <2> HIDE DEF first, last
    <2> QED BY <2>2, <2>3
  <1> HIDE DEF first, last
  <1> QED BY <1>3, <1>7, <1>8, Logs DEF e

\* A message shows the oldest entries, and none when it holds the note alone.
LEMMA SendIsShow ==
    ASSUME LogTypeOK, NEW g \in Guilds, SendOk(g)
    PROVE  Queue!LogStep(g)
  <1> DEFINE rest == batch[g].rest
             n == Fits(g)
             sent == SubSeq(rest, 1, n)
             left == SubSeq(rest, n + 1, Len(rest))
  <1>1. /\ rest \in Seq(1..Entries) /\ Len(rest) \in Nat /\ batch[g] \in Batches
        /\ lines[g] \in Seq(1..Entries) /\ Len(lines[g]) \in Nat
        /\ shown[g] \in Seq(1..Entries)
    BY TypedByGuild DEF GuildTyped
  <1>2. n \in 0..Len(rest) /\ n \in Nat
    BY <1>1, FitsType
  <1>3. logged'[g] = logged[g] /\ lines'[g] = lines[g] /\ shown'[g] = shown[g] \o sent
    BY DEF SendOk, buffer, LogTypeOK
  <1>4. batch'[g].rest = left
    <2>1. CASE n = Len(rest)
      <3>1. batch'[g] = Idle
        BY <2>1 DEF SendOk, LogTypeOK
      <3>2. left = << >>
        BY <1>1, <2>1, SubSeqEmpty
      <3> QED BY <3>1, <3>2, IdleType
    <2>2. CASE n # Len(rest)
      <3>1. batch'[g] = [batch[g] EXCEPT !.note = FALSE, !.rest = left]
        BY <2>2 DEF SendOk, LogTypeOK
      <3> HIDE DEF left
      <3> QED BY <1>1, <3>1 DEF Batches
    <2> QED BY <2>1, <2>2
  <1>5. Pending(g)' = left \o lines[g] /\ Pending(g) = rest \o lines[g]
    BY <1>3, <1>4 DEF Pending
  <1> HIDE DEF n
  <1>6. SubSeq(rest \o lines[g], n + 1, Len(rest \o lines[g])) = left \o lines[g]
    BY <1>1, <1>2, DropFront
  <1>7. SubSeq(rest \o lines[g], 1, n) = sent
    BY <1>1, <1>2, TakeFront
  <1>8. CASE n = 0
    <2>1. left = rest
      BY <1>1, <1>8, SubSeqFull
    <2>2. sent = << >>
      BY <1>8, SubSeqEmpty
    <2>3. shown'[g] = shown[g]
      BY <1>1, <1>3, <2>2, ConcatEmptySeq
    <2>4. Pending(g)' = Pending(g)
      BY <1>5, <2>1
    <2> QED BY <1>3, <2>3, <2>4, Rests
  <1>9. CASE n # 0
    <2>1. Len(Pending(g)) = Len(rest) + Len(lines[g])
      BY PendingType
    <2>2. n \in 1..Len(Pending(g))
      <3> DEFINE size == Len(rest)
                 behind == Len(lines[g])
                 total == Len(Pending(g))
      <3>1. size \in Nat /\ behind \in Nat /\ total = size + behind /\ n \in 0..size /\ n \in Nat
        BY <1>1, <1>2, <2>1
      <3> HIDE DEF size, behind, total
      <3>2. n \in 1..total
        BY <1>9, <3>1
      <3> QED BY <3>2 DEF total
    <2>3. /\ shown'[g] = shown[g] \o SubSeq(Pending(g), 1, n)
          /\ Pending(g)' = SubSeq(Pending(g), n + 1, Len(Pending(g)))
      BY <1>3, <1>5, <1>6, <1>7
    <2> QED BY <1>3, <2>2, <2>3, Shows
  <1> QED BY <1>8, <1>9

\* A server the step is not about.
Aside(g) == batch'[g] = batch[g] /\ lines'[g] = lines[g] /\ logged'[g] = logged[g] /\ shown'[g] = shown[g]

LEMMA AsideRests ==
    ASSUME LogTypeOK, NEW g \in Guilds, Aside(g)
    PROVE  Queue!LogStep(g)
  <1>1. Pending(g)' = Pending(g)
    BY DEF Aside, Pending
  <1> QED BY <1>1, Rests DEF Aside

LEMMA StepIsLogStep ==
    ASSUME LogTypeOK, [Next]_vars
    PROVE  \A h \in Guilds : Queue!LogStep(h)
  <1> DEFINE Steps == \A h \in Guilds : Queue!LogStep(h)
  <1>1. ASSUME UNCHANGED <<logged, lines, batch, shown>>
        PROVE  Steps
    BY <1>1, AsideRests DEF Aside
  <1>2. CASE PlanStep \/ (\E g \in Guilds : AskPlan(g) \/ ReadChannel(g)) \/ UNCHANGED vars
    BY <1>1, <1>2 DEF PlanStep, AskPlan, ReadChannel, vars, logVars, buffer, seen
  <1>3. ASSUME NEW g \in Guilds, NEW card \in BOOLEAN, QueueLog(g, card)
        PROVE  Steps
    <2>1. UNCHANGED <<batch, shown>>
      BY <1>3 DEF QueueLog, seen
    <2>2. CASE UNCHANGED buffer
      BY <1>1, <2>1, <2>2 DEF buffer
    <2>3. CASE logged[g] < Entries /\ Add(g)
      <3>1. Queue!LogStep(g)
        BY <2>1, <2>3, AddIsLog
      <3>2. ASSUME NEW h \in Guilds \ {g} PROVE Queue!LogStep(h)
        BY <2>1, <2>3, AsideRests DEF Aside, Add, LogTypeOK
      <3> QED BY <3>1, <3>2
    <2> QED BY <1>3, <2>2, <2>3 DEF QueueLog
  <1>4. ASSUME NEW g \in Guilds, SendOk(g)
        PROVE  Steps
    <2>1. Queue!LogStep(g)
      BY <1>4, SendIsShow
    <2>2. ASSUME NEW h \in Guilds \ {g} PROVE Queue!LogStep(h)
      BY <1>4, AsideRests DEF Aside, SendOk, buffer, LogTypeOK
    <2> QED BY <2>1, <2>2
  <1>5. ASSUME NEW g \in Guilds, batch' = [batch EXCEPT ![g] = Idle], UNCHANGED <<logged, lines, shown>>
        PROVE  Steps
    <2>1. Queue!LogStep(g)
      BY <1>5, LosesBatch DEF LogTypeOK
    <2>2. ASSUME NEW h \in Guilds \ {g} PROVE Queue!LogStep(h)
      BY <1>5, AsideRests DEF Aside, LogTypeOK
    <2> QED BY <2>1, <2>2
  <1>6. ASSUME NEW g \in Guilds, SendGone(g) \/ SendRefused(g)
        PROVE  Steps
    BY <1>5, <1>6 DEF SendGone, SendRefused, LeaveBatch, buffer, seen
  <1>7. ASSUME NEW g \in Guilds, NEW read \in BOOLEAN, BeginPost(g, read)
        PROVE  Steps
    <2> DEFINE to == IF batch[g].to = None /\ read THEN channel[g] ELSE batch[g].to
               new == [batch[g] EXCEPT !.posting = TRUE, !.to = to, !.note = batch[g].carried > 0]
    <2>1. CASE to = None
      BY <1>5, <1>7, <2>1 DEF BeginPost, LeaveBatch, buffer
    <2>2. CASE to # None
      <3>1. batch' = [batch EXCEPT ![g] = new] /\ UNCHANGED <<logged, lines, shown>>
        BY <1>7, <2>2 DEF BeginPost, buffer, seen
      <3>2. new.rest = batch[g].rest
        BY TypedByGuild DEF GuildTyped, Batches
      <3> HIDE DEF new
      <3>3. Pending(g)' = Pending(g)
        BY <3>1, <3>2 DEF Pending, LogTypeOK
      <3>4. Queue!LogStep(g)
        BY <3>1, <3>3, Rests
      <3>5. ASSUME NEW h \in Guilds \ {g} PROVE Queue!LogStep(h)
        BY <3>1, AsideRests DEF Aside, LogTypeOK
      <3> QED BY <3>4, <3>5
    <2> QED BY <2>1, <2>2
  <1>8. ASSUME NEW g \in Guilds, NEW c \in Channels \cup {None}, SetChannel(g, c)
        PROVE  Steps
    BY <1>1, <1>8 DEF SetChannel, buffer, seen
  <1>9. ASSUME NEW read \in BOOLEAN, Drain(read)
        PROVE  Steps
    <2> SUFFICES ASSUME NEW h \in Guilds PROVE Queue!LogStep(h)
      OBVIOUS
    <2>1. lines[h] \in Seq(1..Entries) /\ << >> \in Seq(1..Entries)
      BY TypedByGuild, EmptySeq DEF GuildTyped
    <2>2. Pending(h) = lines[h]
      BY <1>9, <2>1, IdleType, ConcatEmptySeq DEF Drain, Pending
    <2>3. batch'[h].rest = lines[h] /\ lines'[h] = << >>
      BY <1>9, IdleType DEF Drain, LinesLeft
    <2>4. Pending(h)' = Pending(h)
      BY <2>1, <2>2, <2>3, ConcatEmptySeq DEF Pending
    <2> QED BY <1>9, <2>4, Rests DEF Drain, seen
  <1>10. ASSUME NEW c \in Channels, DeleteChannel(c)
         PROVE  Steps
    BY <1>1, <1>10 DEF DeleteChannel, buffer, seen
  <1>11. CASE Restart
    BY <1>11, LosesAll DEF Restart
  <1> QED BY <1>2, <1>3, <1>4, <1>6, <1>7, <1>8, <1>9, <1>10, <1>11 DEF Next

\* The logs are lossy queues: whatever is drained, sent in parts, refused or
\* forgotten, an entry is shown once and in its turn, or is lost.
THEOREM LogImplementsQueue == Spec => IsLossyLog
  <1>1. Init => Queue!LogInit
    <2> SUFFICES ASSUME Init PROVE Queue!LogInit
      OBVIOUS
    <2>1. \A g \in Guilds : Pending(g) = << >>
      BY IdleType, EmptySeq, ConcatEmptySeq DEF Init, Pending
    <2> QED BY <2>1 DEF Init, Queue!LogInit
  <1>2. LossInv /\ [Next]_vars => [Queue!LogNext]_<<logged, [g \in Guilds |-> Pending(g)], shown>>
    BY StepIsLogStep DEF LossInv, TypeOK, Queue!LogNext
  <1> QED BY <1>1, <1>2, LossInvHolds, PTL DEF Spec, IsLossyLog, Queue!LogSpec, Queue!logVars

----------------------------------------------------------------------------
\* What a lossy queue shows is in order.

\* Numbered upwards, none above n.
Rises(q, n) == \A k \in 1..Len(q) : q[k] \in 1..n /\ \A m \in 1..k - 1 : q[m] < q[k]

LEMMA CutProperties ==
    ASSUME NEW S, NEW p \in Seq(S), NEW j \in 0..Len(p), NEW i \in 1..j + 1
    PROVE  LET c == Queue!Cut(p, i, j)
               d == j - i + 1
           IN  /\ c \in Seq(S) /\ Len(c) = Len(p) - d /\ d \in Nat /\ d <= Len(p)
               /\ \A k \in 1..Len(p) - d : c[k] = IF k < i THEN p[k] ELSE p[k + d]
  <1> DEFINE c == Queue!Cut(p, i, j)
             d == j - i + 1
             a == SubSeq(p, 1, i - 1)
             b == SubSeq(p, j + 1, Len(p))
  <1>1. Len(p) \in Nat
    BY LenProperties
  <1>2. d \in Nat /\ d <= Len(p) /\ i - 1 \in 0..Len(p) /\ i \in Nat /\ j \in Nat
    BY <1>1
  <1>3. a \in Seq(S) /\ Len(a) = i - 1 /\ \A k \in 1..i - 1 : a[k] = p[k]
    <2>1. 1 \in 1..Len(p) + 1
      BY <1>1
    <2>2. /\ a \in Seq(S) /\ Len(a) = IF 1 <= i - 1 THEN i - 1 - 1 + 1 ELSE 0
          /\ \A k \in 1..i - 1 - 1 + 1 : a[k] = p[1 + k - 1]
      BY <1>2, <2>1, Stretch
    <2> HIDE DEF a
    <2> QED BY <1>2, <2>2
  <1>4. b \in Seq(S) /\ Len(b) = Len(p) - j /\ \A k \in 1..Len(p) - j : b[k] = p[j + k]
    <2>1. j + 1 \in 1..Len(p) + 1 /\ Len(p) \in 0..Len(p)
      BY <1>1
    <2>2. /\ b \in Seq(S) /\ Len(b) = IF j + 1 <= Len(p) THEN Len(p) - (j + 1) + 1 ELSE 0
          /\ \A k \in 1..Len(p) - (j + 1) + 1 : b[k] = p[(j + 1) + k - 1]
      BY <2>1, Stretch
    <2> HIDE DEF b
    <2>3. Len(b) = Len(p) - j
      BY <1>1, <1>2, <2>2
    <2>4. ASSUME NEW k \in 1..Len(p) - j PROVE b[k] = p[j + k]
      <3>1. k \in 1..Len(p) - (j + 1) + 1 /\ (j + 1) + k - 1 = j + k
        BY <1>1, <1>2
      <3>2. b[k] = p[(j + 1) + k - 1]
        BY <2>2, <3>1
      <3> QED BY <3>1, <3>2
    <2> QED BY <2>2, <2>3, <2>4
  <1>5. c = a \o b
    BY CutIsTwoParts
  <1> HIDE DEF a, b, c
  <1>6. /\ a \o b \in Seq(S) /\ Len(a \o b) = Len(a) + Len(b)
        /\ \A k \in 1..Len(a) + Len(b) : (a \o b)[k] = IF k <= Len(a) THEN a[k] ELSE b[k - Len(a)]
    BY <1>3, <1>4, ConcatProperties
  <1>7. Len(a) + Len(b) = Len(p) - d
    BY <1>1, <1>2, <1>3, <1>4
  <1>8. ASSUME NEW k \in 1..Len(p) - d
        PROVE  c[k] = IF k < i THEN p[k] ELSE p[k + d]
    <2>1. c[k] = IF k <= i - 1 THEN a[k] ELSE b[k - (i - 1)]
      BY <1>3, <1>5, <1>6, <1>7
    <2>2. CASE k < i
      <3>1. k <= i - 1 /\ k \in 1..i - 1
        BY <1>1, <1>2, <2>2
      <3> QED BY <1>3, <2>1, <2>2, <3>1
    <2>3. CASE ~(k < i)
      <3>1. ~(k <= i - 1) /\ k - (i - 1) \in 1..Len(p) - j /\ j + (k - (i - 1)) = k + d
        BY <1>1, <1>2, <2>3
      <3> QED BY <1>4, <2>1, <2>3, <3>1
    <2> QED BY <2>2, <2>3
  <1>9. c \in Seq(S) /\ Len(c) = Len(p) - d
    BY <1>5, <1>6, <1>7
  <1> QED BY <1>2, <1>8, <1>9 DEF c

\* A queue that loses entries rises as it did.
LEMMA CutRises ==
    ASSUME NEW S, NEW s \in Seq(S), NEW p \in Seq(S), NEW n,
           NEW j \in 0..Len(p), NEW i \in 1..j + 1, Rises(s \o p, n)
    PROVE  Rises(s \o Queue!Cut(p, i, j), n)
  <1> DEFINE c == Queue!Cut(p, i, j)
             d == j - i + 1
             place(k) == IF k < Len(s) + i THEN k ELSE k + d
  <1>1. /\ c \in Seq(S) /\ Len(c) = Len(p) - d /\ d \in Nat /\ d <= Len(p)
        /\ \A k \in 1..Len(p) - d : c[k] = IF k < i THEN p[k] ELSE p[k + d]
    BY CutProperties
  <1> HIDE DEF c
  <1>2. Len(s) \in Nat /\ Len(p) \in Nat /\ i \in Nat /\ i <= Len(p) + 1 /\ 1 <= i
    BY LenProperties
  <1> HIDE DEF d
  <1>3. /\ Len(s \o c) = Len(s) + (Len(p) - d)
        /\ \A k \in 1..Len(s) + (Len(p) - d) : (s \o c)[k] = IF k <= Len(s) THEN s[k] ELSE c[k - Len(s)]
    <2>1. /\ Len(s \o c) = Len(s) + Len(c)
          /\ \A k \in 1..Len(s) + Len(c) : (s \o c)[k] = IF k <= Len(s) THEN s[k] ELSE c[k - Len(s)]
      BY <1>1, ConcatProperties
    <2> QED BY <1>1, <2>1
  <1>4. /\ Len(s \o p) = Len(s) + Len(p)
        /\ \A k \in 1..Len(s) + Len(p) : (s \o p)[k] = IF k <= Len(s) THEN s[k] ELSE p[k - Len(s)]
    BY ConcatProperties
  <1>5. ASSUME NEW k \in 1..Len(s) + (Len(p) - d)
        PROVE  /\ place(k) \in 1..Len(s) + Len(p)
               /\ (s \o c)[k] = (s \o p)[place(k)]
    <2>1. k \in Nat /\ place(k) \in 1..Len(s) + Len(p)
      BY <1>1, <1>2
    <2>2. CASE k <= Len(s)
      <3>1. place(k) = k
        BY <1>2, <2>1, <2>2
      <3> QED BY <1>3, <1>4, <2>1, <2>2, <3>1
    <2>3. CASE ~(k <= Len(s)) /\ k < Len(s) + i
      <3>1. place(k) = k /\ k - Len(s) \in 1..Len(p) - d /\ k - Len(s) < i
        BY <1>1, <1>2, <2>1, <2>3
      <3>2. c[k - Len(s)] = p[k - Len(s)]
        BY <1>1, <3>1
      <3> QED BY <1>3, <1>4, <2>1, <2>3, <3>1, <3>2
    <2>4. CASE ~(k <= Len(s)) /\ ~(k < Len(s) + i)
      <3>1. /\ place(k) = k + d /\ k - Len(s) \in 1..Len(p) - d /\ ~(k - Len(s) < i)
            /\ ~(k + d <= Len(s)) /\ (k + d) - Len(s) = (k - Len(s)) + d
        BY <1>1, <1>2, <2>1, <2>4
      <3>2. c[k - Len(s)] = p[(k - Len(s)) + d]
        BY <1>1, <3>1
      <3>3. (s \o p)[k + d] = p[(k - Len(s)) + d]
        BY <1>4, <2>1, <3>1
      <3> QED BY <1>3, <2>1, <2>4, <3>1, <3>2, <3>3
    <2> QED BY <2>1, <2>2, <2>3, <2>4
  <1>6. ASSUME NEW k \in 1..Len(s) + (Len(p) - d), NEW m \in 1..k - 1
        PROVE  m \in 1..Len(s) + (Len(p) - d) /\ place(m) \in 1..place(k) - 1
    BY <1>1, <1>2, <1>5
  <1> HIDE DEF place
  <1>7. ASSUME NEW k \in 1..Len(s \o c)
        PROVE  (s \o c)[k] \in 1..n /\ \A m \in 1..k - 1 : (s \o c)[m] < (s \o c)[k]
    <2>1. k \in 1..Len(s) + (Len(p) - d)
      BY <1>3
    <2>2. /\ (s \o c)[k] = (s \o p)[place(k)] /\ place(k) \in 1..Len(s \o p)
      BY <1>4, <1>5, <2>1
    <2>3. (s \o p)[place(k)] \in 1..n /\ \A m \in 1..place(k) - 1 : (s \o p)[m] < (s \o p)[place(k)]
      BY <2>2 DEF Rises
    <2>4. ASSUME NEW m \in 1..k - 1 PROVE (s \o c)[m] < (s \o c)[k]
      <3>1. m \in 1..Len(s) + (Len(p) - d) /\ place(m) \in 1..place(k) - 1
        BY <1>6, <2>1
      <3>2. (s \o c)[m] = (s \o p)[place(m)]
        BY <1>5, <3>1
      <3> QED BY <2>2, <2>3, <3>1, <3>2
    <2> QED BY <2>2, <2>3, <2>4
  <1>8. Rises(s \o c, n)
    BY <1>7 DEF Rises
  <1> QED BY <1>8 DEF c

\* And so does one that takes in the next.
LEMMA AppendRises ==
    ASSUME NEW S, NEW q \in Seq(S), NEW n \in Nat, n + 1 \in S, Rises(q, n)
    PROVE  Rises(Append(q, n + 1), n + 1)
  <1>1. /\ Len(q) \in Nat /\ Len(Append(q, n + 1)) = Len(q) + 1
        /\ \A k \in 1..Len(q) : Append(q, n + 1)[k] = q[k]
        /\ Append(q, n + 1)[Len(q) + 1] = n + 1
    BY LenProperties, AppendProperties
  <1>2. ASSUME NEW k \in 1..Len(q) + 1
        PROVE  /\ Append(q, n + 1)[k] \in 1..n + 1
               /\ \A m \in 1..k - 1 : Append(q, n + 1)[m] < Append(q, n + 1)[k]
    <2>1. CASE k \in 1..Len(q)
      <3>1. \A m \in 1..k - 1 : m \in 1..Len(q)
        BY <1>1, <2>1
      <3>2. q[k] \in 1..n /\ \A m \in 1..k - 1 : q[m] < q[k]
        BY <2>1 DEF Rises
      <3> QED BY <1>1, <2>1, <3>1, <3>2
    <2>2. CASE k = Len(q) + 1
      <3>1. \A m \in 1..k - 1 : m \in 1..Len(q) /\ q[m] \in 1..n
        BY <1>1, <2>2 DEF Rises
      <3> QED BY <1>1, <2>2, <3>1
    <2> QED BY <1>1, <2>1, <2>2
  <1> QED BY <1>1, <1>2 DEF Rises

Ordered(g) == Rises(shown[g] \o Pending(g), logged[g])

\* The two parts of a sequence make it up.
LEMMA SplitWhole ==
    ASSUME NEW S, NEW q \in Seq(S), NEW k \in 0..Len(q)
    PROVE  SubSeq(q, 1, k) \o SubSeq(q, k + 1, Len(q)) = q
  <1> DEFINE a == SubSeq(q, 1, k)
             b == SubSeq(q, k + 1, Len(q))
  <1>1. Len(q) \in Nat
    BY LenProperties
  <1>2. a \in Seq(S) /\ Len(a) = k /\ \A i \in 1..k : a[i] = q[i]
    <2>1. 1 \in 1..Len(q) + 1
      BY <1>1
    <2> QED BY <1>1, <2>1, Stretch
  <1>3. b \in Seq(S) /\ Len(b) = Len(q) - k /\ \A i \in 1..Len(q) - k : b[i] = q[k + i]
    <2>1. k + 1 \in 1..Len(q) + 1 /\ Len(q) \in 0..Len(q)
      BY <1>1
    <2> QED BY <1>1, <2>1, Stretch
  <1> HIDE DEF a, b
  <1>4. /\ a \o b \in Seq(S) /\ Len(a \o b) = Len(q)
        /\ \A i \in 1..Len(q) : (a \o b)[i] = IF i <= k THEN a[i] ELSE b[i - k]
    <2>1. /\ a \o b \in Seq(S) /\ Len(a \o b) = Len(a) + Len(b)
          /\ \A i \in 1..Len(a) + Len(b) : (a \o b)[i] = IF i <= Len(a) THEN a[i] ELSE b[i - Len(a)]
      BY <1>2, <1>3, ConcatProperties
    <2>2. Len(a) + Len(b) = Len(q)
      BY <1>1, <1>2, <1>3
    <2> QED BY <1>2, <2>1, <2>2
  <1>5. ASSUME NEW i \in 1..Len(q) PROVE (a \o b)[i] = q[i]
    <2>1. CASE i <= k
      BY <1>2, <1>4, <2>1
    <2>2. CASE ~(i <= k)
      <3>1. i - k \in 1..Len(q) - k /\ k + (i - k) = i
        BY <1>1, <2>2
      <3> QED BY <1>3, <1>4, <2>2, <3>1
    <2> QED BY <2>1, <2>2
  <1>6. a \o b = q
    BY <1>4, <1>5, SeqEqual
  <1> QED BY <1>6 DEF a, b

LEMMA LogStepRises ==
    ASSUME LogTypeOK, LogTypeOK', NEW g \in Guilds, Ordered(g), Queue!LogStep(g)
    PROVE  Ordered(g)'
  <1> DEFINE S == 1..Entries
             s == shown[g]
             p == Pending(g)
             n == logged[g]
  <1>1. /\ s \in Seq(S) /\ p \in Seq(S) /\ Len(p) \in Nat
        /\ n \in 0..Entries /\ n \in Nat /\ logged'[g] \in 0..Entries
    <2>1. p \in Seq(S) /\ Len(p) \in Nat
      BY PendingType
    <2>2. s \in Seq(S) /\ n \in 0..Entries
      BY DEF LogTypeOK
    <2>3. logged'[g] \in 0..Entries
      BY DEF LogTypeOK
    <2> QED BY <2>1, <2>2, <2>3, LogConstants
  <1>2. Rises(s \o p, n)
    BY DEF Ordered
  <1>3. ASSUME NEW j \in 0..Len(p), NEW i \in 1..j + 1, Queue!Lose(g, i, j)
        PROVE  Ordered(g)'
    <2>1. Pending(g)' = Queue!Cut(p, i, j) /\ logged'[g] = n /\ shown'[g] = s
      BY <1>3 DEF Queue!Lose
    <2> HIDE DEF S, s, p, n
    <2>2. Rises(s \o Queue!Cut(p, i, j), n)
      BY <1>1, <1>2, CutRises
    <2> QED BY <2>1, <2>2 DEF Ordered
  <1>4. ASSUME NEW j \in 0..Len(p) + 1, NEW i \in 1..j + 1, Queue!Log(g, i, j)
        PROVE  Ordered(g)'
    <2> DEFINE more == Append(p, n + 1)
    <2>1. Pending(g)' = Queue!Cut(more, i, j) /\ logged'[g] = n + 1 /\ shown'[g] = s
      <3>1. logged'[g] = n + 1 /\ shown'[g] = s /\ Pending(g)' = Queue!Cut(Append(p, logged'[g]), i, j)
        BY <1>4 DEF Queue!Log
      <3> QED BY <3>1
    <2>2. n + 1 \in S
      BY <1>1, <2>1, LogConstants
    <2> HIDE DEF S, s, p, n
    <2>3. s \o p \in Seq(S)
      BY <1>1, ConcatProperties
    <2>4. Rises(Append(s \o p, n + 1), n + 1)
      BY <1>1, <1>2, <2>2, <2>3, AppendRises
    <2>5. Append(s \o p, n + 1) = s \o more
      <3>1. S = 1..Entries
        BY DEF S
      <3> QED BY <1>1, <2>2, <3>1, EntryAppended
    <2>6. more \in Seq(S) /\ Len(more) = Len(p) + 1
      <3>1. \A q \in Seq(S) : \A x \in S : Append(q, x) \in Seq(S) /\ Len(Append(q, x)) = Len(q) + 1
        BY AppendProperties
      <3> QED BY <1>1, <2>2, <3>1
    <2>7. j \in 0..Len(more)
      BY <2>6
    <2> HIDE DEF more
    <2>8. Rises(s \o Queue!Cut(more, i, j), n + 1)
      BY <1>1, <2>4, <2>5, <2>6, <2>7, CutRises
    <2> QED BY <2>1, <2>8 DEF Ordered
  <1>5. ASSUME NEW k \in 1..Len(p), Queue!Show(g, k)
        PROVE  Ordered(g)'
    <2> DEFINE front == SubSeq(p, 1, k)
               back == SubSeq(p, k + 1, Len(p))
    <2>1. Pending(g)' = back /\ logged'[g] = n /\ shown'[g] = s \o front
      BY <1>5 DEF Queue!Show
    <2> HIDE DEF S, s, p, n
    <2>2. front \in Seq(S) /\ back \in Seq(S)
      <3>1. 1 \in 1..Len(p) + 1 /\ k \in 0..Len(p) /\ k + 1 \in 1..Len(p) + 1 /\ Len(p) \in 0..Len(p)
        BY <1>1
      <3>2. front \in Seq(S)
        BY <1>1, <3>1, Stretch
      <3>3. back \in Seq(S)
        BY <1>1, <3>1, Stretch
      <3> QED BY <3>2, <3>3
    <2>3. front \o back = p
      <3>1. k \in 0..Len(p)
        BY <1>1
      <3> QED BY <1>1, <3>1, SplitWhole
    <2>4. (s \o front) \o back = s \o (front \o back)
      <3>1. \A a, b, c \in Seq(S) : (a \o b) \o c = a \o (b \o c)
        BY ConcatAssociative
      <3> HIDE DEF front, back
      <3> QED BY <1>1, <2>2, <3>1
    <2> HIDE DEF front, back
    <2> QED BY <1>2, <2>1, <2>3, <2>4 DEF Ordered
  <1> QED BY <1>3, <1>4, <1>5 DEF Queue!LogStep

\* The channel of a server shows each entry at most once, in the order the
\* outcomes happened, and those that still wait come behind it.
THEOREM EntriesInOrder == Spec => []Queue!InOrder
  <1> DEFINE AllOrdered == \A g \in Guilds : Ordered(g)
  <1>1. Init => AllOrdered
    <2> SUFFICES ASSUME Init, NEW g \in Guilds PROVE Ordered(g)
      OBVIOUS
    <2>1. << >> \o << >> = << >> /\ Len(<< >>) = 0
      BY EmptySeq, ConcatEmptySeq
    <2>2. Pending(g) = << >> /\ shown[g] = << >>
      BY <2>1, IdleType DEF Init, Pending
    <2> QED BY <2>1, <2>2 DEF Ordered, Rises
  <1>2. LossInv /\ LossInv' /\ AllOrdered /\ [Next]_vars => AllOrdered'
    <2> SUFFICES ASSUME LossInv, LossInv', AllOrdered, [Next]_vars, NEW g \in Guilds
                 PROVE  Ordered(g)'
      OBVIOUS
    <2>1. LogTypeOK /\ LogTypeOK'
      BY DEF LossInv, TypeOK
    <2>2. Queue!LogStep(g)
      BY <2>1, StepIsLogStep
    <2> QED BY <2>1, <2>2, LogStepRises
  <1>3. AllOrdered => Queue!InOrder
    BY DEF Ordered, Rises, Queue!InOrder
  <1> QED BY <1>1, <1>2, <1>3, LossInvHolds, PTL DEF Spec
=============================================================================
