------------------------- MODULE GroupInviteProofs -------------------------
(***************************************************************************)
(* What holds of GroupInvite for every set of members, accounts, groups,    *)
(* jobs and presses, and for every timeout and cooldown.                    *)
(***************************************************************************)
EXTENDS GroupInvite, TLAPS

----------------------------------------------------------------------------
(* Type correctness.  A coroutine's locals have a value once it is past the *)
(* step that reads them; without that, what a later step puts in a DM or in *)
(* the queue would not be typed.                                            *)

Placed ==
    /\ \A m \in Members : offer[m].pc = "send" => offer[m].account \in Accounts
    /\ \A p \in Presses :
         /\ press[p].pc = "claim" => press[p].button \in Button /\ press[p].group \in Groups
         /\ press[p].pc \in {"publish", "unpublished"} => press[p].job \in Jobs

TypeInv == TypeOK /\ Placed

\* Ages stay ages and never shrink.
LEMMA OlderAge ==
    ASSUME NEW age \in Ages
    PROVE  Older(age) \in Ages /\ Older(age) >= age
  BY TimingAssumption DEF Older, Ages

\* A settled row is a row.
LEMMA SettledRow ==
    ASSUME NEW r \in Row, NEW s \in States
    PROVE  Settled(r, s) \in Row
  <1>1. 0 \in Ages
    BY TimingAssumption DEF Ages
  <1> QED BY <1>1 DEF Settled, Row

LEMMA AgedRow ==
    ASSUME NEW r \in Row
    PROVE  [r EXCEPT !.reqAge = Older(@),
                     !.setAge = IF @ = None THEN None ELSE Older(@)] \in Row
  <1>1. /\ Older(r.reqAge) \in Ages
        /\ r.setAge # None => Older(r.setAge) \in Ages
    BY OlderAge DEF Row
  <1> QED BY <1>1 DEF Row

LEMMA ClaimedRow ==
    ASSUME NEW g \in Groups, NEW a \in Accounts, NEW j \in Jobs
    PROVE  [group |-> g, account |-> a, job |-> j,
            state |-> "pending", reqAge |-> 0, setAge |-> None] \in Row
  <1>1. 0 \in Ages /\ "pending" \in States
    BY TimingAssumption DEF Ages, States
  <1> QED BY <1>1 DEF Row

\* None is no row, no age and nobody's account: each is told apart from it.
LEMMA NoneApart ==
    /\ None \notin Ages /\ None \notin Accounts /\ None \notin Groups
  BY NoneAssumption, TimingAssumption DEF Ages

\* The states a bot or a worker writes are states.
LEMMA WorkerStatesAreStates == WorkerStates \subseteq States
  BY DEF WorkerStates, States

LEMMA TypeInit == Init => TypeInv
  <1> SUFFICES ASSUME Init PROVE TypeInv
    OBVIOUS
  <1>1. TypeOK
    BY DEF Init, TypeOK, OfferState, PressState, NoOffer, Idle, Answer, Button
  <1>2. Placed
    BY DEF Init, Placed, NoOffer, Idle
  <1> QED BY <1>1, <1>2 DEF TypeInv

LEMMA TypeTick == TypeInv /\ Tick => TypeInv'
  <1> SUFFICES ASSUME TypeInv, Tick PROVE TypeInv'
    OBVIOUS
  <1>1. row' \in [Members -> Row \cup {None}]
    <2> SUFFICES ASSUME NEW m \in Members, row[m] # None
                 PROVE  [row[m] EXCEPT !.reqAge = Older(@),
                           !.setAge = IF @ = None THEN None ELSE Older(@)] \in Row
      BY DEF Tick
    <2>1. row[m] \in Row
      BY DEF TypeInv, TypeOK
    <2> QED BY <2>1, AgedRow
  <1>2. asked' \in [Members -> Asked \cup {None}]
    <2> SUFFICES ASSUME NEW m \in Members, asked[m] # None
                 PROVE  [asked[m] EXCEPT !.age = Older(@)] \in Asked
      BY DEF Tick
    <2>1. asked[m] \in Asked
      BY DEF TypeInv, TypeOK
    <2> QED BY <2>1, OlderAge DEF Asked
  <1> QED BY <1>1, <1>2 DEF TypeInv, TypeOK, Placed, Tick, users, broker, dms

LEMMA TypeConcluded ==
    ASSUME TypeInv, NEW after
    PROVE  Concluded(row, after) \in [Members -> Asked \cup {None}]
  <1>1. 0 \in Ages
    BY TimingAssumption DEF Ages
  <1>2. \A m \in Members : asked[m] # None =>
          [asked[m] EXCEPT !.age = 0] \in Asked
    BY <1>1 DEF TypeInv, TypeOK, Asked
  <1> QED BY <1>2 DEF Concluded, TypeInv, TypeOK

LEMMA TypeMember ==
    ASSUME TypeInv, NEW m \in Members, MemberStep(m)
    PROVE  TypeInv'
  <1>a. ASSUME NEW o \in OfferState,
               offer' = [offer EXCEPT ![m] = o],
               o.pc = "send" => o.account \in Accounts
        PROVE  /\ offer' \in [Members -> OfferState]
               /\ \A n \in Members : offer'[n].pc = "send" => offer'[n].account \in Accounts
    BY <1>a DEF TypeInv, TypeOK, Placed
  <1>b. NoOffer \in OfferState /\ NoOffer.pc = "idle"
    BY DEF NoOffer, OfferState
  <1>1. ASSUME StartOffer(m)
        PROVE  /\ offer' \in [Members -> OfferState]
               /\ \A n \in Members : offer'[n].pc = "send" => offer'[n].account \in Accounts
    <2>1. [NoOffer EXCEPT !.pc = "decide"] \in OfferState
      BY DEF NoOffer, OfferState
    <2>2. [NoOffer EXCEPT !.pc = "decide"].pc = "decide"
      BY DEF NoOffer
    <2> QED BY <1>1, <2>1, <2>2 DEF StartOffer, TypeInv, TypeOK, Placed
  <1>2. ASSUME NEW a \in Accounts, NEW over18 \in BOOLEAN, Verdict(m, a, over18)
        PROVE  TypeInv'
    <2>1. /\ linked' \in [Members -> Accounts \cup {None}]
          /\ adult' \in [Members -> BOOLEAN]
      BY <1>2 DEF Verdict, TypeInv, TypeOK
    <2>2. cleared' \subseteq Button
      BY <1>2 DEF Verdict, TypeInv, TypeOK, Button
    <2>3. /\ offer' \in [Members -> OfferState]
          /\ \A n \in Members : offer'[n].pc = "send" => offer'[n].account \in Accounts
      BY <1>1, <1>2 DEF Verdict, TypeInv, TypeOK, Placed
    <2> QED BY <1>2, <2>1, <2>2, <2>3 DEF Verdict, TypeInv, TypeOK, Placed, broker, dms
  <1>3. CASE BeginAgain(m)
    BY <1>1, <1>3 DEF BeginAgain, TypeInv, TypeOK, Placed, users, broker, dms
  <1>5. CASE OfferDecide(m)
    <2>1. row' \in [Members -> Row \cup {None}]
      BY <1>5 DEF OfferDecide, Retired, TypeInv, TypeOK
    <2>2. linked[m] # None =>
            /\ [pc |-> "send", account |-> linked[m]] \in OfferState
            /\ [pc |-> "send", account |-> linked[m]].account \in Accounts
      BY DEF TypeInv, TypeOK, OfferState
    <2>3. /\ offer' \in [Members -> OfferState]
          /\ \A n \in Members : offer'[n].pc = "send" => offer'[n].account \in Accounts
      BY <1>5, <1>b, <2>2 DEF OfferDecide, Offerable, TypeInv, TypeOK, Placed
    <2> QED BY <1>5, <2>1, <2>3 DEF OfferDecide, TypeInv, TypeOK, Placed, users, broker, dms
  <1>6. CASE OfferSend(m)
    <2>1. <<m, offer[m].account>> \in Button
      BY <1>6 DEF OfferSend, TypeInv, Placed, Button
    <2>2. buttons' \subseteq Button /\ offered' \subseteq Button
      BY <1>6, <2>1 DEF OfferSend, TypeInv, TypeOK, dms
    <2>3. /\ offer' \in [Members -> OfferState]
          /\ \A n \in Members : offer'[n].pc = "send" => offer'[n].account \in Accounts
      BY <1>6, <1>b DEF OfferSend, TypeInv, TypeOK, Placed
    <2> QED BY <1>6, <2>2, <2>3 DEF OfferSend, TypeInv, TypeOK, Placed, users, broker
  <1> QED BY <1>2, <1>3, <1>5, <1>6 DEF MemberStep

\* Where a press may go next and what it may carry.
PressAt(p, next) ==
    /\ press' = [press EXCEPT ![p] = next]
    /\ next \in PressState
    /\ next.pc = "claim" => next.button \in Button /\ next.group \in Groups
    /\ next.pc \in {"publish", "unpublished"} => next.job \in Jobs

LEMMA TypePressAt ==
    ASSUME TypeInv, NEW p \in Presses, NEW next, PressAt(p, next)
    PROVE  /\ press' \in [Presses -> PressState]
           /\ \A q \in Presses :
                /\ press'[q].pc = "claim" => press'[q].button \in Button /\ press'[q].group \in Groups
                /\ press'[q].pc \in {"publish", "unpublished"} => press'[q].job \in Jobs
  BY DEF PressAt, TypeInv, TypeOK, Placed

LEMMA TypePress ==
    ASSUME TypeInv, NEW p \in Presses, PressStep(p)
    PROVE  TypeInv'
  <1>c. press[p] \in PressState
    BY DEF TypeInv, TypeOK
  <1>b. /\ Idle \in PressState /\ Idle.pc = "idle"
    BY DEF Idle, PressState
  <1>i. press' = [press EXCEPT ![p] = Idle] => PressAt(p, Idle)
    BY <1>b DEF PressAt
  <1>1. ASSUME NEW b \in buttons, PressStart(p, b) PROVE TypeInv'
    <2> PICK g \in Groups : press' = [press EXCEPT ![p] =
              [Idle EXCEPT !.pc = "claim", !.button = b, !.group = g]]
      BY <1>1 DEF PressStart
    <2>1. b \in Button
      BY DEF TypeInv, TypeOK
    <2> DEFINE next == [Idle EXCEPT !.pc = "claim", !.button = b, !.group = g]
    <2>2. /\ next \in PressState /\ next.pc = "claim"
          /\ next.button = b /\ next.group = g
      BY <2>1 DEF Idle, PressState
    <2>3. PressAt(p, next)
      BY <2>1, <2>2 DEF PressAt
    <2> HIDE DEF next
    <2> QED BY <1>1, <2>3, TypePressAt DEF PressStart, TypeInv, TypeOK, Placed, users, broker, dms
  <1>3. CASE PressClaim(p)
    <2> DEFINE c == press[p]  m == c.button[1]
    <2> PICK j \in Jobs :
          /\ job' = [job EXCEPT ![j] =
              [member |-> m, group |-> c.group, account |-> linked[m]]]
          /\ row' = [row EXCEPT ![m] =
              [group |-> c.group, account |-> linked[m], job |-> j,
               state |-> "pending", reqAge |-> 0, setAge |-> None]]
          /\ asked' = [asked EXCEPT ![m] = [group |-> c.group, age |-> 0]]
          /\ press' = [press EXCEPT ![p] = [Idle EXCEPT !.pc = "publish", !.job = j]]
      BY <1>3 DEF PressClaim
    <2>1. c.button \in Button /\ c.group \in Groups
      BY <1>3 DEF PressClaim, TypeInv, Placed
    <2>2. m \in Members /\ linked[m] \in Accounts
      BY <1>3, <2>1 DEF PressClaim, Button, TypeInv, TypeOK
    <2>3. 0 \in Ages /\ "pending" \in States
      BY TimingAssumption DEF Ages, States
    <2>4. job' \in [Jobs -> Job \cup {None}]
      BY <2>1, <2>2 DEF TypeInv, TypeOK, Job
    <2>5. row' \in [Members -> Row \cup {None}]
      BY <2>1, <2>2, <2>3 DEF TypeInv, TypeOK, Row
    <2>6. asked' \in [Members -> Asked \cup {None}]
      BY <2>1, <2>2, <2>3 DEF TypeInv, TypeOK, Asked
    <2> DEFINE next == [Idle EXCEPT !.pc = "publish", !.job = j]
    <2>7. next \in PressState /\ next.pc = "publish" /\ next.job = j
      BY DEF Idle, PressState
    <2>8. PressAt(p, next)
      BY <2>7 DEF PressAt
    <2> HIDE DEF next
    <2> QED BY <1>3, <2>4, <2>5, <2>6, <2>8, TypePressAt
          DEF PressClaim, TypeInv, TypeOK, Placed, users, broker, dms
  <1>4. CASE PressEnds(p)
    BY <1>4, <1>i, TypePressAt DEF PressEnds, TypeInv, TypeOK, Placed, users, broker, dms
  <1>5. CASE PressPublish(p)
    <2>1. press[p].job \in Jobs
      BY <1>5 DEF PressPublish, TypeInv, Placed
    <2>2. queue' \subseteq Jobs /\ expiring' \subseteq Jobs
      BY <1>5, <2>1 DEF PressPublish, TypeInv, TypeOK
    <2> DEFINE next == [press[p] EXCEPT !.pc = "unpublished"]
    <2>3. next \in PressState /\ next.pc = "unpublished" /\ next.job = press[p].job
      BY <1>c DEF PressState
    <2>4. press' = [press EXCEPT ![p] = next] => PressAt(p, next)
      BY <1>5, <2>1, <2>3 DEF PressAt, PressPublish, TypeInv, TypeOK, Placed
    <2>5. PressAt(p, Idle) \/ PressAt(p, next)
      BY <1>5, <1>i, <2>4 DEF PressPublish, TypeInv, TypeOK
    <2> HIDE DEF next
    <2> QED BY <1>5, <2>2, <2>5, TypePressAt DEF PressPublish, TypeInv, TypeOK, Placed, users, dms
  <1>6. CASE PressUnpublished(p)
    <2>1. "worker_unreachable" \in States
      BY DEF States
    <2>2. \A m \in Members : row[m] # None =>
            Settled(row[m], "worker_unreachable") \in Row
      BY <2>1, SettledRow DEF TypeInv, TypeOK
    <2>3. row' \in [Members -> Row \cup {None}]
      BY <1>6, <2>2 DEF PressUnpublished, Abandoned, TypeInv, TypeOK
    <2>4. asked' \in [Members -> Asked \cup {None}]
      BY <1>6, TypeConcluded DEF PressUnpublished
    <2> QED BY <1>6, <1>i, <2>3, <2>4, TypePressAt
          DEF PressUnpublished, TypeInv, TypeOK, Placed, users, broker, dms
  <1> QED BY <1>1, <1>3, <1>4, <1>5, <1>6 DEF PressStep

LEMMA TypeWorker ==
    ASSUME TypeInv, NEW j \in Jobs, WorkerRuns(j)
    PROVE  TypeInv'
  <1>1. answers' \subseteq Answer /\ queue' \subseteq Jobs
    BY DEF WorkerRuns, TypeInv, TypeOK, Answer
  <1> QED BY <1>1 DEF WorkerRuns, TypeInv, TypeOK, Placed, users, dms

\* A button handed back is one somebody may hold.
LEMMA TypeReissued ==
    ASSUME NEW m \in Members, NEW r \in Row, NEW s
    PROVE  Reissued(m, r, s) \subseteq Button
  BY DEF Reissued, Row, Button

LEMMA TypeExpire ==
    ASSUME TypeInv, NEW j \in Jobs, Expire(j)
    PROVE  TypeInv'
  <1> DEFINE late == {m \in Members :
                   row[m] # None /\ row[m].job = j /\ row[m].state = "pending"}
  <1>1. \A m \in late : row[m] \in Row /\ Settled(row[m], "timed_out") \in Row
    BY SettledRow DEF TypeInv, TypeOK, States
  <1>2. row' \in [Members -> Row \cup {None}]
    BY <1>1 DEF Expire, TypeInv, TypeOK
  <1>3. asked' \in [Members -> Asked \cup {None}]
    BY TypeConcluded DEF Expire
  <1>4. buttons' \subseteq Button
    BY <1>1, TypeReissued DEF Expire, TypeInv, TypeOK
  <1>5. expiring' \subseteq Jobs
    BY DEF Expire, TypeInv, TypeOK
  <1> QED BY <1>2, <1>3, <1>4, <1>5 DEF Expire, TypeInv, TypeOK, Placed, users, broker

LEMMA TypeAnswer ==
    ASSUME TypeInv, NEW a \in answers, ApplyAnswer(a)
    PROVE  TypeInv'
  <1> DEFINE takers == {m \in Members : Takes(row[m], a[1])}
  <1>1. a[2] \in States
    BY WorkerStatesAreStates DEF TypeInv, TypeOK, Answer
  <1>2. \A m \in takers : row[m] \in Row /\ Settled(row[m], a[2]) \in Row
    BY <1>1, SettledRow DEF TypeInv, TypeOK, Takes
  <1>3. row' \in [Members -> Row \cup {None}]
    BY <1>2 DEF ApplyAnswer, TypeInv, TypeOK
  <1>4. asked' \in [Members -> Asked \cup {None}]
    BY TypeConcluded DEF ApplyAnswer
  <1>5. buttons' \subseteq Button
    BY <1>2, TypeReissued DEF ApplyAnswer, TypeInv, TypeOK
  <1> QED BY <1>3, <1>4, <1>5 DEF ApplyAnswer, TypeInv, TypeOK, Placed, users, broker

LEMMA TypeCrash == TypeInv /\ Crash => TypeInv'
  <1> SUFFICES ASSUME TypeInv, Crash PROVE TypeInv'
    OBVIOUS
  <1>1. /\ offer' \in [Members -> OfferState]
        /\ press' \in [Presses -> PressState]
        /\ expiring' \subseteq Jobs
    BY DEF Crash, OfferState, PressState, NoOffer, Idle
  <1>2. Placed'
    BY DEF Crash, Placed, NoOffer, Idle
  <1> QED BY <1>1, <1>2 DEF Crash, TypeInv, TypeOK, users, broker, dms

LEMMA TypeNext == TypeInv /\ [Next]_vars => TypeInv'
  <1>1. TypeInv /\ UNCHANGED vars => TypeInv'
    BY DEF TypeInv, TypeOK, Placed, vars, users, broker, dms
  <1> QED BY <1>1, TypeTick, TypeMember, TypePress, TypeWorker, TypeExpire,
             TypeAnswer, TypeCrash DEF Next

\* Every variable keeps its type, and the coroutines what they have read,
\* through every interleaving, answer and crash.
THEOREM TypeCorrect == Spec => []TypeOK
  <1>1. Spec => []TypeInv
    BY TypeInit, TypeNext, PTL DEF Spec
  <1>2. TypeInv => TypeOK
    BY DEF TypeInv
  <1> QED BY <1>1, <1>2, PTL
----------------------------------------------------------------------------
(* What one step does to a member's row and to the record of its latest     *)
(* claim.  Every property of the rows follows from these five cases.        *)

Same(m) == row'[m] = row[m] /\ asked'[m] = asked[m]

Ageing(m) ==
    /\ row'[m] = IF row[m] = None THEN None
                 ELSE [row[m] EXCEPT !.reqAge = Older(@),
                                     !.setAge = IF @ = None THEN None ELSE Older(@)]
    /\ asked'[m] = IF asked[m] = None THEN None ELSE [asked[m] EXCEPT !.age = Older(@)]

Retiring(m) ==
    /\ row[m] # None /\ row'[m] = None
    /\ Refusal(row[m], row[m].group, TRUE) = "none"
    /\ EffectiveState(row[m]) \in ReofferableStates
    /\ asked'[m] = asked[m]

Claiming(m) ==
    /\ \E p \in Presses : PressClaim(p)
    /\ \E g \in Groups, a \in Accounts, j \in Jobs :
      /\ Refusal(row[m], g, FALSE) = "none"
      /\ row'[m] = [group |-> g, account |-> a, job |-> j,
                    state |-> "pending", reqAge |-> 0, setAge |-> None]
      /\ asked'[m] = [group |-> g, age |-> 0]

Concluding(m) ==
    /\ row[m] # None /\ row[m].state \in {"pending", "timed_out"}
    /\ \E s \in States : row'[m] = Settled(row[m], s)
    /\ asked'[m] = IF asked[m] = None THEN None ELSE [asked[m] EXCEPT !.age = 0]

RowStep(m) == Same(m) \/ Ageing(m) \/ Retiring(m) \/ Claiming(m) \/ Concluding(m)

\* The row a conclusion leaves behind is not the one it found.
LEMMA SettledDiffers ==
    ASSUME NEW r \in Row, NEW s \in States, r.state # s
    PROVE  Settled(r, s) # r
  BY DEF Settled, Row

LEMMA RowSteps ==
    ASSUME TypeInv, [Next]_vars, NEW m \in Members
    PROVE  RowStep(m)
  <1>t. row[m] # None => row[m] \in Row
    BY DEF TypeInv, TypeOK
  <1>s. UNCHANGED <<row, asked>> => RowStep(m)
    BY DEF RowStep, Same
  <1>1. CASE Tick
    BY <1>1 DEF Tick, RowStep, Ageing, TypeInv, TypeOK
  <1>2. ASSUME NEW n \in Members, OfferDecide(n) PROVE RowStep(m)
    <2>1. CASE row'[m] = row[m]
      BY <1>2, <2>1 DEF OfferDecide, RowStep, Same
    <2>2. CASE row'[m] # row[m]
      <3>1. PICK g \in Groups : /\ m = n /\ row'[m] = Retired(row[m], g)
                                /\ Refusal(row[m], g, TRUE) = "none"
        BY <1>2, <2>2 DEF OfferDecide, TypeInv, TypeOK
      <3>2. /\ row[m] # None /\ row[m].group = g /\ row'[m] = None
            /\ EffectiveState(row[m]) \in ReofferableStates
        BY <3>1, <2>2 DEF Retired
      <3> QED BY <1>2, <3>1, <3>2 DEF OfferDecide, RowStep, Retiring
    <2> QED BY <2>1, <2>2
  <1>3. ASSUME NEW p \in Presses, PressClaim(p) PROVE RowStep(m)
    <2> DEFINE c == press[p]  n == c.button[1]
    <2>1. n \in Members /\ c.group \in Groups /\ linked[n] \in Accounts
      BY <1>3 DEF PressClaim, TypeInv, TypeOK, Placed, Button
    <2>2. CASE m = n
      <3> PICK j \in Jobs :
            /\ row' = [row EXCEPT ![n] =
                 [group |-> c.group, account |-> linked[n], job |-> j,
                  state |-> "pending", reqAge |-> 0, setAge |-> None]]
            /\ asked' = [asked EXCEPT ![n] = [group |-> c.group, age |-> 0]]
        BY <1>3 DEF PressClaim
      <3>1. Refusal(row[m], c.group, FALSE) = "none"
        BY <1>3, <2>2 DEF PressClaim
      <3>2. /\ row'[m] = [group |-> c.group, account |-> linked[n], job |-> j,
                          state |-> "pending", reqAge |-> 0, setAge |-> None]
            /\ asked'[m] = [group |-> c.group, age |-> 0]
        BY <2>2 DEF TypeInv, TypeOK
      <3> HIDE DEF c, n
      <3>3. Claiming(m)
        BY <1>3, <2>1, <3>1, <3>2 DEF Claiming
      <3> QED BY <3>3 DEF RowStep
    <2>3. CASE m # n
      BY <1>3, <2>1, <2>3 DEF PressClaim, RowStep, Same, TypeInv, TypeOK
    <2> QED BY <2>2, <2>3
  <1>4. ASSUME NEW p \in Presses, PressUnpublished(p) PROVE RowStep(m)
    <2>1. CASE row'[m] = row[m]
      BY <1>4, <2>1 DEF PressUnpublished, Concluded, RowStep, Same, TypeInv, TypeOK
    <2>2. CASE row'[m] # row[m]
      <3>1. row'[m] = Abandoned(row[m], press[p].job)
        BY <1>4, <2>2 DEF PressUnpublished, TypeInv, TypeOK
      <3>2. /\ row[m] # None /\ row[m].state = "pending"
            /\ row'[m] = Settled(row[m], "worker_unreachable")
        BY <2>2, <3>1 DEF Abandoned
      <3>3. asked'[m] = IF asked[m] = None THEN None ELSE [asked[m] EXCEPT !.age = 0]
        BY <1>4, <2>2 DEF PressUnpublished, Concluded
      <3> QED BY <3>2, <3>3 DEF RowStep, Concluding, States
    <2> QED BY <2>1, <2>2
  <1>5. ASSUME NEW j \in Jobs, Expire(j) PROVE RowStep(m)
    <2>1. CASE row[m] # None /\ row[m].job = j /\ row[m].state = "pending"
      <3>1. row'[m] = Settled(row[m], "timed_out")
        BY <1>5, <2>1 DEF Expire
      <3>2. row'[m] # row[m]
        BY <1>t, <2>1, <3>1, SettledDiffers DEF States
      <3>3. asked'[m] = IF asked[m] = None THEN None ELSE [asked[m] EXCEPT !.age = 0]
        BY <1>5, <3>2 DEF Expire, Concluded
      <3> QED BY <2>1, <3>1, <3>3 DEF RowStep, Concluding, States
    <2>2. CASE ~(row[m] # None /\ row[m].job = j /\ row[m].state = "pending")
      <3>1. row'[m] = row[m]
        BY <1>5, <2>2 DEF Expire
      <3> QED BY <1>5, <3>1 DEF Expire, Concluded, RowStep, Same
    <2> QED BY <2>1, <2>2
  <1>6. ASSUME NEW a \in answers, ApplyAnswer(a) PROVE RowStep(m)
    <2>0. a[2] \in WorkerStates /\ a[2] \in States
      BY WorkerStatesAreStates DEF TypeInv, TypeOK, Answer
    <2>1. CASE Takes(row[m], a[1])
      <3>1. row'[m] = Settled(row[m], a[2])
        BY <1>6, <2>1 DEF ApplyAnswer
      <3>2. row'[m] # row[m]
        BY <1>t, <2>0, <2>1, <3>1, SettledDiffers DEF Takes, WorkerStates
      <3>3. asked'[m] = IF asked[m] = None THEN None ELSE [asked[m] EXCEPT !.age = 0]
        BY <1>6, <3>2 DEF ApplyAnswer, Concluded
      <3> QED BY <2>0, <2>1, <3>1, <3>3 DEF RowStep, Concluding, Takes
    <2>2. CASE ~Takes(row[m], a[1])
      <3>1. row'[m] = row[m]
        BY <1>6, <2>2 DEF ApplyAnswer
      <3> QED BY <1>6, <3>1 DEF ApplyAnswer, Concluded, RowStep, Same
    <2> QED BY <2>1, <2>2
  <1>7. ASSUME NEW n \in Members, MemberStep(n) PROVE RowStep(m)
    BY <1>s, <1>2, <1>7 DEF MemberStep, Verdict, BeginAgain, OfferSend
  <1>8. ASSUME NEW p \in Presses, PressStep(p) PROVE RowStep(m)
    BY <1>s, <1>3, <1>4, <1>8 DEF PressStep, PressStart, PressEnds, PressPublish
  <1>9. CASE UNCHANGED vars
    BY <1>s, <1>9 DEF vars
  <1> QED BY <1>s, <1>1, <1>5, <1>6, <1>7, <1>8, <1>9 DEF Next, WorkerRuns, Crash

----------------------------------------------------------------------------
(* The properties of the rows. *)

\* What a settled row reads as is what it says.
LEMMA SettledReads ==
    ASSUME NEW r, r.state \in SettledStates
    PROVE  EffectiveState(r) = r.state
  BY DEF EffectiveState, SettledStates

\* A settled row is neither overwritten by a straggler nor claimed again,
\* whatever the timeout and the cooldown (record_group_invite_result,
\* begin_group_invite).
THEOREM SettledRowsStand == Spec => SettledStands
  <1>1. ASSUME TypeInv, [Next]_vars, NEW m \in Members,
               row[m] # None, row[m].state \in SettledStates
        PROVE  \/ row'[m] = None
               \/ row'[m].group # row[m].group
               \/ row'[m].job = row[m].job /\ row'[m].state = row[m].state
    <2>1. row[m] \in Row
      BY <1>1 DEF TypeInv, TypeOK
    <2>2. CASE Same(m)
      BY <2>2 DEF Same
    <2>3. CASE Ageing(m)
      BY <1>1, <2>1, <2>3 DEF Ageing, Row
    <2>4. CASE Retiring(m)
      BY <2>4 DEF Retiring
    <2>5. CASE Claiming(m)
      <3> PICK g \in Groups, a \in Accounts, j \in Jobs :
            /\ Refusal(row[m], g, FALSE) = "none"
            /\ row'[m] = [group |-> g, account |-> a, job |-> j,
                          state |-> "pending", reqAge |-> 0, setAge |-> None]
        BY <2>5 DEF Claiming
      <3>1. row[m].group # g
        BY <1>1, SettledReads DEF Refusal
      <3>2. row'[m].group = g
        OBVIOUS
      <3> QED BY <3>1, <3>2
    <2>6. CASE Concluding(m)
      BY <1>1, <2>6 DEF Concluding, SettledStates
    <2> QED BY <1>1, <2>2, <2>3, <2>4, <2>5, <2>6, RowSteps DEF RowStep
  <1>2. TypeInv /\ [Next]_vars =>
          [\A m \in Members :
             row[m] # None /\ row[m].state \in SettledStates =>
               \/ row'[m] = None
               \/ row'[m].group # row[m].group
               \/ row'[m].job = row[m].job /\ row'[m].state = row[m].state]_row
    BY <1>1
  <1> QED BY <1>2, TypeInit, TypeNext, PTL DEF Spec, SettledStands

\* No offer and no other step ever takes away a recorded ban or block.
THEOREM FinalRowsStand == Spec => FinalStands
  <1>1. ASSUME TypeInv, [Next]_vars, NEW m \in Members,
               row[m] # None, row[m].state = "final"
        PROVE  row'[m] # None
    <2>0. row[m] \in Row /\ None \notin Row
      BY <1>1, NoneIsNoRecord DEF TypeInv, TypeOK
    <2>1. EffectiveState(row[m]) \notin ReofferableStates
      BY <1>1, SettledReads DEF ReofferableStates, FinalStates, SettledStates
    <2>2. CASE Same(m)
      BY <1>1, <2>2 DEF Same
    <2>3. CASE Ageing(m)
      BY <1>1, <2>0, <2>3, AgedRow DEF Ageing
    <2>4. CASE Retiring(m)
      BY <2>1, <2>4 DEF Retiring
    <2>5. CASE Claiming(m)
      <3> PICK g \in Groups, a \in Accounts, j \in Jobs :
            row'[m] = [group |-> g, account |-> a, job |-> j,
                       state |-> "pending", reqAge |-> 0, setAge |-> None]
        BY <2>5 DEF Claiming
      <3>1. row'[m] \in Row
        BY ClaimedRow
      <3> QED BY <2>0, <3>1
    <2>6. CASE Concluding(m)
      BY <2>0, <2>6, SettledRow DEF Concluding
    <2> QED BY <1>1, <2>2, <2>3, <2>4, <2>5, <2>6, RowSteps DEF RowStep
  <1>2. TypeInv /\ [Next]_vars =>
          [\A m \in Members : row[m] # None /\ row[m].state = "final" => row'[m] # None]_row
    BY <1>1
  <1> QED BY <1>2, TypeInit, TypeNext, PTL DEF Spec, FinalStands

----------------------------------------------------------------------------
(* Claims are a cooldown apart.  The row and the record of the latest claim *)
(* agree while there is a row, and a row is only given up (retired) once    *)
(* the cooldown is over, after which the age of the record can only grow.   *)

Spaced ==
    \A m \in Members :
      /\ row[m] # None => /\ asked[m] # None
                          /\ asked[m].group = row[m].group
                          /\ asked[m].age = Since(row[m])
      /\ row[m] = None /\ asked[m] # None => asked[m].age >= Cooldown

\* A conclusion restarts the cooldown, and so does a claim.
LEMMA SinceSettled ==
    ASSUME NEW r \in Row, NEW s
    PROVE  Since(Settled(r, s)) = 0 /\ Settled(r, s).group = r.group
  <1>1. 0 # None
    BY NoneAssumption
  <1> QED BY <1>1 DEF Since, Settled, Row

\* Whoever may ask about the group of their row has waited out the cooldown.
LEMMA AllowedIsSpaced ==
    ASSUME NEW r \in Row, NEW forOffer, Refusal(r, r.group, forOffer) = "none"
    PROVE  Since(r) >= Cooldown
  <1>1. Since(r) \in Nat /\ Cooldown \in Nat
    BY TimingAssumption DEF Since, Row, Ages
  <1>2. r # None
    BY NoneIsNoRecord
  <1>3. ~(Since(r) < Cooldown)
    BY <1>2 DEF Refusal
  <1> QED BY <1>1, <1>3

LEMMA SpacedStep ==
    ASSUME TypeInv, Spaced, [Next]_vars
    PROVE  Spaced'
  <1> SUFFICES ASSUME NEW m \in Members
               PROVE  /\ row'[m] # None => /\ asked'[m] # None
                                           /\ asked'[m].group = row'[m].group
                                           /\ asked'[m].age = Since(row'[m])
                      /\ row'[m] = None /\ asked'[m] # None => asked'[m].age >= Cooldown
    BY DEF Spaced, Since
  <1>t. /\ row[m] # None => row[m] \in Row
        /\ asked[m] # None => asked[m] \in Asked
        /\ None \notin Row /\ None \notin Asked
    BY NoneIsNoRecord DEF TypeInv, TypeOK
  <1>1. CASE Same(m)
    BY <1>1 DEF Same, Spaced
  <1>2. CASE Ageing(m)
    <2>1. CASE row[m] = None
      <3>1. asked[m] # None =>
              /\ asked[m].age >= Cooldown /\ asked[m].age \in Ages
              /\ asked'[m].age = Older(asked[m].age)
        BY <1>2, <1>t, <2>1 DEF Ageing, Spaced, Asked
      <3>2. asked'[m] # None => asked'[m].age >= Cooldown
        BY <1>2, <3>1, OlderAge, TimingAssumption DEF Ageing, Ages
      <3> QED BY <1>2, <2>1, <3>2 DEF Ageing
    <2>2. CASE row[m] # None
      <3>1. row[m] \in Row /\ asked[m] \in Asked
        BY <1>t, <2>2 DEF Spaced
      <3>2. /\ asked'[m] = [asked[m] EXCEPT !.age = Older(@)]
            /\ row'[m] = [row[m] EXCEPT !.reqAge = Older(@),
                             !.setAge = IF @ = None THEN None ELSE Older(@)]
        BY <1>2, <2>2, <3>1, NoneIsNoRecord DEF Ageing
      <3>3. /\ asked'[m].group = asked[m].group /\ asked'[m].age = Older(asked[m].age)
            /\ asked'[m] \in Asked
        BY <3>1, <3>2, OlderAge DEF Asked
      <3>4. /\ row'[m].group = row[m].group
            /\ row'[m].reqAge = Older(row[m].reqAge)
            /\ row'[m].setAge = IF row[m].setAge = None THEN None ELSE Older(row[m].setAge)
            /\ row'[m] \in Row
        BY <3>1, <3>2, AgedRow DEF Row
      <3>5. Since(row'[m]) = Older(Since(row[m]))
        <4>1. row[m].setAge # None => Older(row[m].setAge) # None
          BY <3>1, OlderAge, NoneApart DEF Row
        <4> QED BY <3>4, <4>1 DEF Since
      <3> QED BY <1>t, <2>2, <3>3, <3>4, <3>5 DEF Spaced
    <2> QED BY <2>1, <2>2
  <1>3. CASE Retiring(m)
    <2>1. asked[m].age = Since(row[m]) /\ Since(row[m]) >= Cooldown
      BY <1>3, <1>t, AllowedIsSpaced DEF Retiring, Spaced
    <2> QED BY <1>3, <2>1 DEF Retiring
  <1>4. CASE Claiming(m)
    <2> PICK g \in Groups, a \in Accounts, j \in Jobs :
          /\ row'[m] = [group |-> g, account |-> a, job |-> j,
                        state |-> "pending", reqAge |-> 0, setAge |-> None]
          /\ asked'[m] = [group |-> g, age |-> 0]
      BY <1>4 DEF Claiming
    <2>1. asked'[m] \in Asked /\ row'[m] \in Row
      BY ClaimedRow, TimingAssumption DEF Asked, Ages
    <2>2. Since(row'[m]) = 0
      BY DEF Since
    <2> QED BY <1>t, <2>1, <2>2
  <1>5. CASE Concluding(m)
    <2> PICK s \in States : row'[m] = Settled(row[m], s)
      BY <1>5 DEF Concluding
    <2>1. /\ row[m] # None /\ row[m] \in Row /\ asked[m] # None /\ asked[m] \in Asked
          /\ asked[m].group = row[m].group
      BY <1>5, <1>t DEF Concluding, Spaced
    <2>2. asked'[m] = [asked[m] EXCEPT !.age = 0]
      BY <1>5, <2>1 DEF Concluding
    <2>3. asked'[m].age = 0 /\ asked'[m].group = asked[m].group /\ asked'[m] \in Asked
      BY <2>1, <2>2, TimingAssumption DEF Asked, Ages
    <2>4. Since(row'[m]) = 0 /\ row'[m].group = row[m].group /\ row'[m] \in Row
      BY <2>1, SinceSettled, SettledRow
    <2> QED BY <1>t, <2>1, <2>3, <2>4
  <1> QED BY <1>1, <1>2, <1>3, <1>4, <1>5, RowSteps DEF RowStep

\* Only a press that has claimed its row publishes a new job.
LEMMA ClaimsClaim ==
    ASSUME TypeInv, [Next]_vars, NEW m \in Members, NEW j \in Jobs,
           job[j] = None, job'[j] # None, job'[j].member = m
    PROVE  \E p \in Presses :
             /\ PressClaim(p) /\ press[p].button[1] = m
             /\ job'[j].account = linked[m]
             /\ asked'[m].group = press[p].group
  <1>1. PICK p \in Presses : PressClaim(p)
    BY DEF Next, vars, Tick, Crash, MemberStep, Verdict, BeginAgain,
           OfferDecide, OfferSend, PressStep, PressStart, PressEnds,
           PressPublish, PressUnpublished, WorkerRuns, Expire, ApplyAnswer
  <1> DEFINE n == press[p].button[1]
  <1>2. PICK i \in Jobs :
          /\ job' = [job EXCEPT ![i] =
               [member |-> n, group |-> press[p].group, account |-> linked[n]]]
          /\ asked' = [asked EXCEPT ![n] = [group |-> press[p].group, age |-> 0]]
    BY <1>1 DEF PressClaim
  <1>3. i = j
    BY <1>2 DEF TypeInv, TypeOK
  <1>4. job'[j] = [member |-> n, group |-> press[p].group, account |-> linked[n]]
    BY <1>2, <1>3 DEF TypeInv, TypeOK
  <1>5. n = m
    BY <1>4
  <1>6. asked'[m] = [group |-> press[p].group, age |-> 0]
    BY <1>2, <1>5 DEF TypeInv, TypeOK
  <1> QED BY <1>1, <1>4, <1>5, <1>6

\* Two claims of a member in a row on one group are a cooldown apart, whatever
\* offers, answers and retirements lie between, for any relation between the
\* timeout and the cooldown (group_invite_refusal, begin_group_invite,
\* retire_group_invite_request).  A claim on another group between the two takes
\* the row, and nothing is said of the two.
THEOREM ClaimsAreSpaced == Spec => ClaimsSpaced
  <1>1. Init => Spaced
    BY DEF Init, Spaced
  <1>2. TypeInv /\ Spaced /\ [Next]_vars => Spaced'
    BY SpacedStep
  <1>3. ASSUME TypeInv, Spaced, [Next]_vars, NEW m \in Members,
               Claims(m), asked[m] # None, asked[m].group = asked'[m].group
        PROVE  asked[m].age >= Cooldown
    <2>1. PICK p \in Presses : /\ PressClaim(p) /\ press[p].button[1] = m
                               /\ asked'[m].group = press[p].group
      BY <1>3, ClaimsClaim DEF Claims
    <2>2. Refusal(row[m], press[p].group, FALSE) = "none"
      BY <2>1 DEF PressClaim
    <2>3. CASE row[m] = None
      BY <1>3, <2>3 DEF Spaced
    <2>4. CASE row[m] # None
      <3>1. row[m] \in Row /\ row[m].group = press[p].group /\ asked[m].age = Since(row[m])
        BY <1>3, <2>1, <2>4 DEF Spaced, TypeInv, TypeOK
      <3> QED BY <2>2, <3>1, AllowedIsSpaced
    <2> QED BY <2>3, <2>4
  <1>4. TypeInv /\ Spaced /\ [Next]_vars =>
          [\A m \in Members :
             Claims(m) /\ asked[m] # None /\ asked[m].group = asked'[m].group
               => asked[m].age >= Cooldown]_vars
    BY <1>3
  <1> QED BY <1>1, <1>2, <1>4, TypeInit, TypeNext, PTL DEF Spec, ClaimsSpaced

----------------------------------------------------------------------------
(* A row shows the worker's verdict on its own job.                         *)

LEMMA AnswerStep ==
    ASSUME TypeInv, AnswerIsOurs, [Next]_vars
    PROVE  AnswerIsOurs'
  <1> SUFFICES ASSUME NEW m \in Members, row'[m] # None, row'[m].state \in WorkerStates
               PROVE  <<row'[m].job, row'[m].state>> \in answers'
    BY DEF AnswerIsOurs, WorkerStates
  <1>t. row[m] # None => row[m] \in Row
    BY DEF TypeInv, TypeOK
  <1>g. answers \subseteq answers'
    BY DEF Next, vars, broker, Tick, Crash, MemberStep, Verdict, BeginAgain,
           OfferDecide, OfferSend, PressStep, PressStart,
           PressClaim, PressEnds, PressPublish, PressUnpublished, WorkerRuns,
           Expire, ApplyAnswer
  <1>k. ASSUME row[m] # None, row'[m].job = row[m].job, row'[m].state = row[m].state
        PROVE  <<row'[m].job, row'[m].state>> \in answers'
    BY <1>g, <1>k DEF AnswerIsOurs
  <1>1. CASE Same(m)
    BY <1>1, <1>k DEF Same
  <1>2. CASE Ageing(m)
    BY <1>2, <1>k, <1>t DEF Ageing, Row
  <1>3. CASE Retiring(m)
    BY <1>3 DEF Retiring
  <1>4. CASE Claiming(m)
    <2> PICK g \in Groups, a \in Accounts, j \in Jobs :
          row'[m] = [group |-> g, account |-> a, job |-> j,
                     state |-> "pending", reqAge |-> 0, setAge |-> None]
      BY <1>4 DEF Claiming
    <2>1. row'[m].state = "pending"
      OBVIOUS
    <2> QED BY <2>1 DEF WorkerStates
  <1>5. CASE Concluding(m)
    <2>1. \A s : Settled(row[m], s).state = s /\ Settled(row[m], s).job = row[m].job
      BY <1>5, <1>t DEF Concluding, Settled, Row
    <2>2. row[m] # None /\ row[m].state \notin WorkerStates /\ row'[m] # row[m]
      BY <1>5 DEF Concluding, WorkerStates
    <2>3. ASSUME NEW a \in answers, ApplyAnswer(a)
          PROVE  <<row'[m].job, row'[m].state>> \in answers'
      <3>1. Takes(row[m], a[1]) /\ row'[m] = Settled(row[m], a[2])
        BY <2>2, <2>3 DEF ApplyAnswer
      <3>2. row'[m].job = a[1] /\ row'[m].state = a[2]
        BY <2>1, <3>1 DEF Takes
      <3> QED BY <1>g, <3>2 DEF TypeInv, TypeOK, Answer
    <2>4. ASSUME NEW j \in Jobs, Expire(j) PROVE FALSE
      <3>1. row'[m] = Settled(row[m], "timed_out")
        BY <2>2, <2>4 DEF Expire
      <3> QED BY <2>1, <3>1 DEF WorkerStates
    <2>5. ASSUME NEW p \in Presses, PressUnpublished(p) PROVE FALSE
      <3>1. row'[m] = Abandoned(row[m], press[p].job)
        BY <2>2, <2>5 DEF PressUnpublished, TypeInv, TypeOK
      <3>2. row'[m] = Settled(row[m], "worker_unreachable")
        BY <2>2, <3>1 DEF Abandoned
      <3> QED BY <2>1, <3>2 DEF WorkerStates
    <2>6. ASSUME NEW p \in Presses, PressClaim(p) PROVE FALSE
      <3>1. row'[m].state = "pending"
        BY <2>2, <2>6 DEF PressClaim, TypeInv, TypeOK
      <3> QED BY <3>1 DEF WorkerStates
    <2>7. ASSUME NEW n \in Members, OfferDecide(n) PROVE FALSE
      BY <2>2, <2>7 DEF OfferDecide, Retired, TypeInv, TypeOK
    <2>8. CASE Tick
      <3>1. row'[m] = [row[m] EXCEPT !.reqAge = Older(@),
                         !.setAge = IF @ = None THEN None ELSE Older(@)]
        BY <2>2, <2>8 DEF Tick
      <3>2. row'[m].state = row[m].state
        BY <1>t, <2>2, <3>1 DEF Row
      <3> QED BY <2>2, <3>2
    <2> QED BY <2>2, <2>3, <2>4, <2>5, <2>6, <2>7, <2>8
          DEF Next, vars, Crash, MemberStep, Verdict, BeginAgain,
              OfferSend, PressStep, PressStart, PressEnds, PressPublish,
              WorkerRuns
  <1> QED BY <1>1, <1>2, <1>3, <1>4, <1>5, RowSteps DEF RowStep

\* However late, repeated or reordered the answers are, no row ever shows a
\* verdict the worker gave about another request (record_group_invite_result).
THEOREM AnswersAreOurs == Spec => []AnswerIsOurs
  <1>1. Init => AnswerIsOurs
    BY DEF Init, AnswerIsOurs
  <1>2. TypeInv /\ AnswerIsOurs /\ [Next]_vars => AnswerIsOurs'
    BY AnswerStep
  <1> QED BY <1>1, <1>2, TypeInit, TypeNext, PTL DEF Spec

----------------------------------------------------------------------------
(* Invites go where an offer went and a verdict allows.  The account on a   *)
(* row was once on a button, so what a failed request hands back is nothing *)
(* new, and what a press carries is still among the buttons.                *)

Offered ==
    /\ buttons \subseteq offered
    /\ \A p \in Presses : press[p].pc = "claim" => press[p].button \in offered
    /\ \A m \in Members : row[m] # None => <<m, row[m].account>> \in offered
    /\ \A m \in Members : adult[m] => <<m, linked[m]>> \in cleared

LEMMA OfferedRows ==
    ASSUME TypeInv, Offered, [Next]_vars, NEW m \in Members, row'[m] # None
    PROVE  <<m, row'[m].account>> \in offered'
  <1>g. offered \subseteq offered'
    BY DEF Next, vars, dms, Tick, Crash, MemberStep, Verdict, BeginAgain,
           OfferDecide, OfferSend, PressStep, PressStart,
           PressClaim, PressEnds, PressPublish, PressUnpublished, WorkerRuns,
           Expire, ApplyAnswer
  <1>t. row[m] # None => row[m] \in Row
    BY DEF TypeInv, TypeOK
  <1>k. row[m] # None /\ row'[m].account = row[m].account
          => <<m, row'[m].account>> \in offered'
    BY <1>g DEF Offered
  <1>1. ASSUME NEW p \in Presses, PressClaim(p) PROVE <<m, row'[m].account>> \in offered'
    <2> DEFINE n == press[p].button[1]
    <2>1. press[p].button \in offered /\ press[p].button \in Button
      BY <1>1 DEF PressClaim, Offered, TypeInv, Placed
    <2>2. press[p].button = <<n, linked[n]>>
      BY <1>1, <2>1 DEF PressClaim, Identified, Button
    <2>3. CASE m = n
      <3>1. row'[m].account = linked[n]
        BY <1>1, <2>3 DEF PressClaim, TypeInv, TypeOK
      <3> QED BY <1>g, <2>1, <2>2, <2>3, <3>1
    <2>4. CASE m # n
      <3>1. row'[m] = row[m]
        BY <1>1, <2>4 DEF PressClaim, TypeInv, TypeOK
      <3> QED BY <1>k, <3>1
    <2> QED BY <2>3, <2>4
  <1>2. CASE Same(m)
    BY <1>2, <1>k DEF Same
  <1>3. CASE Ageing(m)
    BY <1>3, <1>k, <1>t DEF Ageing, Row
  <1>4. CASE Retiring(m)
    BY <1>4 DEF Retiring
  <1>5. CASE Concluding(m)
    <2>1. \A s : Settled(row[m], s).account = row[m].account
      BY <1>5, <1>t DEF Concluding, Settled, Row
    <2> QED BY <1>5, <1>k, <2>1 DEF Concluding
  <1>6. CASE Claiming(m)
    BY <1>1, <1>6 DEF Claiming
  <1> QED BY <1>2, <1>3, <1>4, <1>5, <1>6, RowSteps DEF RowStep

\* A button a failed request hands back names the account of its row.
LEMMA ReissuedOffered ==
    ASSUME TypeInv, Offered, NEW n \in Members, row[n] # None, NEW s
    PROVE  Reissued(n, row[n], s) \subseteq offered
  BY DEF Reissued, Offered

LEMMA OfferedButtons ==
    ASSUME TypeInv, Offered, [Next]_vars
    PROVE  buttons' \subseteq offered'
  <1>1. CASE UNCHANGED <<buttons, offered>>
    BY <1>1 DEF Offered
  <1>2. ASSUME NEW m \in Members, OfferSend(m) PROVE buttons' \subseteq offered'
    BY <1>2 DEF OfferSend, Offered, dms
  <1>3. ASSUME NEW j \in Jobs, Expire(j) PROVE buttons' \subseteq offered'
    BY <1>3, ReissuedOffered DEF Expire, Offered
  <1>4. ASSUME NEW a \in answers, ApplyAnswer(a) PROVE buttons' \subseteq offered'
    BY <1>4, ReissuedOffered DEF ApplyAnswer, Offered, Takes
  <1> QED BY <1>1, <1>2, <1>3, <1>4
        DEF Next, vars, dms, Tick, Crash, MemberStep, Verdict, BeginAgain,
            OfferDecide, PressStep, PressStart,
            PressClaim, PressEnds, PressPublish, PressUnpublished, WorkerRuns

LEMMA OfferedPresses ==
    ASSUME TypeInv, Offered, [Next]_vars, NEW p \in Presses, press'[p].pc = "claim"
    PROVE  press'[p].button \in offered'
  <1>g. offered \subseteq offered'
    BY DEF Next, vars, dms, Tick, Crash, MemberStep, Verdict, BeginAgain,
           OfferDecide, OfferSend, PressStep, PressStart,
           PressClaim, PressEnds, PressPublish, PressUnpublished, WorkerRuns,
           Expire, ApplyAnswer
  <1>t. press[p] \in PressState /\ Idle.pc = "idle"
    BY DEF TypeInv, TypeOK, Idle
  <1>1. CASE press'[p] = press[p]
    BY <1>1, <1>g DEF Offered
  <1>2. CASE press'[p] # press[p]
    <2>1. ASSUME NEW b \in buttons, PressStart(p, b) PROVE press'[p].button \in offered'
      <3>1. press'[p].button = b
        BY <2>1, <1>t DEF PressStart, TypeInv, TypeOK, Idle
      <3> QED BY <1>g, <3>1 DEF Offered
    <2>3. CASE PressClaim(p)
      <3>1. press'[p].pc = "publish"
        BY <2>3 DEF PressClaim, TypeInv, TypeOK, Idle
      <3> QED BY <3>1
    <2>4. CASE PressEnds(p)
      BY <1>t, <2>4 DEF PressEnds, TypeInv, TypeOK
    <2>5. CASE PressPublish(p)
      BY <1>t, <2>5 DEF PressPublish, PressState, TypeInv, TypeOK
    <2>6. CASE PressUnpublished(p)
      BY <1>t, <2>6 DEF PressUnpublished, TypeInv, TypeOK
    <2>7. CASE Crash
      BY <1>t, <2>7 DEF Crash
    <2>8. ASSUME NEW q \in Presses, PressStep(q) PROVE q = p
      BY <1>2, <2>8 DEF PressStep, PressStart, PressClaim, PressEnds,
           PressPublish, PressUnpublished, TypeInv, TypeOK
    <2> QED BY <1>2, <2>1, <2>3, <2>4, <2>5, <2>6, <2>7, <2>8
          DEF Next, vars, Tick, MemberStep, Verdict, BeginAgain,
              OfferDecide, OfferSend, PressStep, WorkerRuns, Expire, ApplyAnswer
  <1> QED BY <1>1, <1>2

LEMMA ClearedLinks ==
    ASSUME TypeInv, Offered, [Next]_vars, NEW m \in Members, adult'[m]
    PROVE  <<m, linked'[m]>> \in cleared'
  <1>1. CASE UNCHANGED users
    BY <1>1 DEF users, Offered
  <1>2. ASSUME NEW n \in Members, NEW a \in Accounts, NEW over18 \in BOOLEAN,
               Verdict(n, a, over18)
        PROVE  <<m, linked'[m]>> \in cleared'
    <2>1. CASE n = m
      <3>1. over18 /\ linked'[m] = a
        BY <1>2, <2>1 DEF Verdict, TypeInv, TypeOK
      <3> QED BY <1>2, <2>1, <3>1 DEF Verdict
    <2>2. CASE n # m
      <3>1. adult[m] /\ linked'[m] = linked[m]
        BY <1>2, <2>2 DEF Verdict, TypeInv, TypeOK
      <3>2. <<m, linked[m]>> \in cleared /\ <<m, linked[m]>> # <<n, a>>
        BY <2>2, <3>1 DEF Offered
      <3> QED BY <1>2, <3>1, <3>2 DEF Verdict
    <2> QED BY <2>1, <2>2
  <1> QED BY <1>1, <1>2
        DEF Next, vars, Tick, Crash, MemberStep, BeginAgain,
            OfferDecide, OfferSend, PressStep, PressStart, PressClaim,
            PressEnds, PressPublish, PressUnpublished, WorkerRuns, Expire, ApplyAnswer

\* Every invite ever asked of the worker is for an account this member was
\* offered a button for and whose last verdict is 18+, for any number of old
\* buttons and re-links (handle_group_invite_press, tell_member_about_invite).
THEOREM InvitesAreOfferedAndCleared == Spec => OfferedAndCleared
  <1>1. Init => Offered
    BY DEF Init, Offered, Idle
  <1>2. TypeInv /\ Offered /\ [Next]_vars => Offered'
    BY OfferedRows, OfferedButtons, OfferedPresses, ClearedLinks DEF Offered
  <1>3. ASSUME TypeInv, Offered, [Next]_vars, NEW m \in Members, NEW j \in Jobs,
               job[j] = None, job'[j] # None, job'[j].member = m
        PROVE  <<m, job'[j].account>> \in offered \cap cleared
    <2>1. PICK p \in Presses : /\ PressClaim(p) /\ press[p].button[1] = m
                               /\ job'[j].account = linked[m]
      BY <1>3, ClaimsClaim
    <2>a. press[p].pc = "claim" /\ adult[m] /\ linked[m] = press[p].button[2]
      BY <2>1 DEF PressClaim, Identified
    <2>2. press[p].button \in offered /\ press[p].button \in Button
      BY <1>3, <2>a DEF Offered, TypeInv, Placed
    <2>3. press[p].button = <<m, linked[m]>>
      BY <2>1, <2>2, <2>a DEF Button
    <2> QED BY <1>3, <2>1, <2>2, <2>3, <2>a DEF Offered
  <1>4. TypeInv /\ Offered /\ [Next]_vars =>
          [\A m \in Members, j \in Jobs :
             job[j] = None /\ job'[j] # None /\ job'[j].member = m
               => <<m, job'[j].account>> \in offered \cap cleared]_vars
    BY <1>3
  <1> QED BY <1>1, <1>2, <1>4, TypeInit, TypeNext, PTL DEF Spec, OfferedAndCleared
----------------------------------------------------------------------------
(* A job says whose it is.  What the worker is given, and what it answers,  *)
(* was claimed; and the row an answer lands on is the one it was claimed    *)
(* with, though the answer itself names nothing but the job.                *)

JobIsRow ==
    \A m \in Members : row[m] # None =>
        job[row[m].job] = [member |-> m, group |-> row[m].group, account |-> row[m].account]

JobsOffered == \A j \in Jobs : job[j] # None => <<job[j].member, job[j].account>> \in offered

Claimed ==
    /\ \A p \in Presses : press[p].pc \in {"publish", "unpublished"} => job[press[p].job] # None
    /\ \A j \in queue : job[j] # None
    /\ \A a \in answers : job[a[1]] # None

\* A job is never rewritten.
LEMMA JobsStand ==
    ASSUME TypeInv, [Next]_vars, NEW j \in Jobs, job[j] # None
    PROVE  job'[j] = job[j]
  <1>1. CASE UNCHANGED job
    BY <1>1
  <1>2. ASSUME NEW p \in Presses, PressClaim(p) PROVE job'[j] = job[j]
    <2> PICK i \in Jobs :
          /\ job[i] = None
          /\ job' = [job EXCEPT ![i] = [member |-> press[p].button[1], group |-> press[p].group,
                                        account |-> linked[press[p].button[1]]]]
      BY <1>2 DEF PressClaim
    <2> QED BY DEF TypeInv, TypeOK
  <1> QED BY <1>1, <1>2
        DEF Next, vars, Tick, Crash, MemberStep, Verdict, BeginAgain,
            OfferDecide, OfferSend, PressStep, PressStart, PressEnds,
            PressPublish, PressUnpublished, WorkerRuns, Expire, ApplyAnswer

\* What a claim writes: one job, and the row of the member it is for.
ClaimOf(p, m, g, a, i) ==
    /\ press[p].button = <<m, a>> /\ job[i] = None
    /\ job' = [job EXCEPT ![i] = [member |-> m, group |-> g, account |-> a]]
    /\ row' = [row EXCEPT ![m] = [group |-> g, account |-> a, job |-> i,
                 state |-> "pending", reqAge |-> 0, setAge |-> None]]
    /\ press' = [press EXCEPT ![p] = [Idle EXCEPT !.pc = "publish", !.job = i]]

LEMMA ClaimWrites ==
    ASSUME TypeInv, NEW p \in Presses, PressClaim(p)
    PROVE  \E m \in Members, g \in Groups, a \in Accounts, i \in Jobs : ClaimOf(p, m, g, a, i)
  <1> DEFINE m == press[p].button[1]
  <1>1. /\ m \in Members /\ press[p].group \in Groups /\ linked[m] \in Accounts
        /\ press[p].button \in Button /\ linked[m] = press[p].button[2]
    BY DEF PressClaim, Identified, TypeInv, TypeOK, Placed, Button
  <1>2. press[p].button = <<m, linked[m]>>
    BY <1>1 DEF Button
  <1>3. PICK i \in Jobs : ClaimOf(p, m, press[p].group, linked[m], i)
    BY <1>2 DEF PressClaim, ClaimOf
  <1> QED BY <1>1, <1>3

LEMMA JobIsRowStep ==
    ASSUME TypeInv, JobIsRow, [Next]_vars, NEW m \in Members, row'[m] # None
    PROVE  job'[row'[m].job] =
             [member |-> m, group |-> row'[m].group, account |-> row'[m].account]
  <1>t. row[m] # None => row[m] \in Row
    BY DEF TypeInv, TypeOK
  <1>k. ASSUME row[m] # None, row'[m].job = row[m].job,
               row'[m].group = row[m].group, row'[m].account = row[m].account
        PROVE  job'[row'[m].job] =
                 [member |-> m, group |-> row'[m].group, account |-> row'[m].account]
    <2>1. row[m].job \in Jobs
      BY <1>k, <1>t DEF Row
    <2>2. job[row[m].job] = [member |-> m, group |-> row[m].group, account |-> row[m].account]
      BY <1>k DEF JobIsRow
    <2>3. job[row[m].job] # None
      BY <1>k, <1>t, <2>2, NoneIsNoRecord DEF Row, Job
    <2> QED BY <1>k, <2>1, <2>2, <2>3, JobsStand
  <1>1. ASSUME NEW p \in Presses, PressClaim(p)
        PROVE  job'[row'[m].job] =
                 [member |-> m, group |-> row'[m].group, account |-> row'[m].account]
    <2>c. PICK n \in Members, g \in Groups, a \in Accounts, i \in Jobs : ClaimOf(p, n, g, a, i)
      BY <1>1, ClaimWrites
    <2>1. CASE m = n
      BY <2>c, <2>1 DEF ClaimOf, TypeInv, TypeOK
    <2>2. CASE m # n
      <3>1. row'[m] = row[m]
        BY <2>c, <2>2 DEF ClaimOf, TypeInv, TypeOK
      <3> QED BY <1>k, <3>1
    <2> QED BY <2>1, <2>2
  <1>2. CASE Same(m)
    BY <1>2, <1>k DEF Same
  <1>3. CASE Ageing(m)
    BY <1>3, <1>k, <1>t DEF Ageing, Row
  <1>4. CASE Retiring(m)
    BY <1>4 DEF Retiring
  <1>5. CASE Concluding(m)
    <2>1. \A s : /\ Settled(row[m], s).job = row[m].job
                 /\ Settled(row[m], s).group = row[m].group
                 /\ Settled(row[m], s).account = row[m].account
      BY <1>5, <1>t DEF Concluding, Settled, Row
    <2> QED BY <1>5, <1>k, <2>1 DEF Concluding
  <1>6. CASE Claiming(m)
    BY <1>1, <1>6 DEF Claiming
  <1> QED BY <1>2, <1>3, <1>4, <1>5, <1>6, RowSteps DEF RowStep

\* However many claims, retired rows and late answers lie between, the job on
\* a row was claimed for that member, group and account: an answer, which
\* names only its job, lands on no other member's row and on no later request
\* (record_group_invite_result looks a row up by its job).
THEOREM JobsAreTheirRows == Spec => []JobIsRow
  <1>1. Init => JobIsRow
    BY DEF Init, JobIsRow
  <1>2. TypeInv /\ JobIsRow /\ [Next]_vars => JobIsRow'
    BY JobIsRowStep DEF JobIsRow
  <1> QED BY <1>1, <1>2, TypeInit, TypeNext, PTL DEF Spec

LEMMA JobsOfferedStep ==
    ASSUME TypeInv, Offered, JobsOffered, [Next]_vars
    PROVE  JobsOffered'
  <1>g. offered \subseteq offered'
    BY DEF Next, vars, dms, Tick, Crash, MemberStep, Verdict, BeginAgain,
           OfferDecide, OfferSend, PressStep, PressStart,
           PressClaim, PressEnds, PressPublish, PressUnpublished, WorkerRuns,
           Expire, ApplyAnswer
  <1>1. CASE UNCHANGED job
    BY <1>1, <1>g DEF JobsOffered
  <1>2. ASSUME NEW p \in Presses, PressClaim(p) PROVE JobsOffered'
    <2>c. PICK n \in Members, g \in Groups, a \in Accounts, i \in Jobs : ClaimOf(p, n, g, a, i)
      BY <1>2, ClaimWrites
    <2>1. <<n, a>> \in offered
      BY <1>2, <2>c DEF Offered, PressClaim, ClaimOf
    <2>2. ASSUME NEW j \in Jobs, job'[j] # None
          PROVE  <<job'[j].member, job'[j].account>> \in offered
      <3>1. CASE j = i
        BY <2>1, <2>c, <3>1 DEF TypeInv, TypeOK, ClaimOf
      <3>2. CASE j # i
        BY <2>2, <2>c, <3>2 DEF TypeInv, TypeOK, ClaimOf, JobsOffered
      <3> QED BY <3>1, <3>2
    <2> QED BY <1>g, <2>2 DEF JobsOffered
  <1> QED BY <1>1, <1>2
        DEF Next, vars, Tick, Crash, MemberStep, Verdict, BeginAgain,
            OfferDecide, OfferSend, PressStep, PressStart, PressEnds,
            PressPublish, PressUnpublished, WorkerRuns, Expire, ApplyAnswer

LEMMA ClaimedPresses ==
    ASSUME TypeInv, Claimed, [Next]_vars, NEW p \in Presses,
           press'[p].pc \in {"publish", "unpublished"}
    PROVE  job'[press'[p].job] # None
  <1>t. press[p] \in PressState /\ Idle.pc = "idle"
    BY DEF TypeInv, TypeOK, Idle
  <1>k. ASSUME press[p].pc \in {"publish", "unpublished"}, press'[p].job = press[p].job
        PROVE  job'[press'[p].job] # None
    <2>1. press[p].job \in Jobs /\ job[press[p].job] # None
      BY <1>k DEF Claimed, TypeInv, Placed
    <2> QED BY <1>k, <2>1, JobsStand
  <1>1. CASE press'[p] = press[p]
    BY <1>1, <1>k
  <1>2. CASE press'[p] # press[p]
    <2>1. ASSUME NEW b \in buttons, PressStart(p, b) PROVE FALSE
      <3>1. press'[p].pc = "claim"
        BY <2>1, <1>t DEF PressStart, TypeInv, TypeOK, Idle
      <3> QED BY <3>1
    <2>3. CASE PressClaim(p)
      <3>c. PICK n \in Members, g \in Groups, a \in Accounts, i \in Jobs : ClaimOf(p, n, g, a, i)
        BY <2>3, ClaimWrites
      <3>1. press'[p].job = i
        BY <3>c DEF ClaimOf, TypeInv, TypeOK, Idle
      <3>2. job'[i] = [member |-> n, group |-> g, account |-> a]
        BY <3>c DEF ClaimOf, TypeInv, TypeOK
      <3> QED BY <3>1, <3>2, NoneIsNoRecord DEF Job
    <2>4. CASE PressEnds(p)
      BY <1>t, <2>4 DEF PressEnds, TypeInv, TypeOK
    <2>5. CASE PressPublish(p)
      BY <1>k, <1>t, <2>5 DEF PressPublish, PressState, TypeInv, TypeOK
    <2>6. CASE PressUnpublished(p)
      BY <1>t, <2>6 DEF PressUnpublished, TypeInv, TypeOK
    <2>7. CASE Crash
      BY <1>t, <2>7 DEF Crash
    <2>8. ASSUME NEW q \in Presses, PressStep(q) PROVE q = p
      BY <1>2, <2>8 DEF PressStep, PressStart, PressClaim, PressEnds,
           PressPublish, PressUnpublished, TypeInv, TypeOK
    <2> QED BY <1>2, <2>1, <2>3, <2>4, <2>5, <2>6, <2>7, <2>8
          DEF Next, vars, Tick, MemberStep, Verdict, BeginAgain,
              OfferDecide, OfferSend, PressStep, WorkerRuns, Expire, ApplyAnswer
  <1> QED BY <1>1, <1>2

LEMMA ClaimedBroker ==
    ASSUME TypeInv, Claimed, [Next]_vars
    PROVE  /\ \A j \in queue' : job'[j] # None
           /\ \A a \in answers' : job'[a[1]] # None
  <1>1. ASSUME NEW j \in Jobs, job[j] # None PROVE job'[j] # None
    BY <1>1, JobsStand
  <1>2. /\ queue \subseteq Jobs /\ \A j \in queue : job[j] # None
        /\ \A a \in answers : a[1] \in Jobs /\ job[a[1]] # None
    BY DEF Claimed, TypeInv, TypeOK, Answer
  <1>3. CASE UNCHANGED broker
    BY <1>1, <1>2, <1>3 DEF broker
  <1>4. ASSUME NEW p \in Presses, PressPublish(p)
        PROVE  /\ queue' \subseteq queue \cup {press[p].job} /\ UNCHANGED answers
               /\ press[p].job \in Jobs /\ job[press[p].job] # None
    BY <1>4 DEF PressPublish, Claimed, TypeInv, Placed
  <1>5. ASSUME NEW j \in Jobs, WorkerRuns(j)
        PROVE  /\ queue' \subseteq queue
               /\ \A a \in answers' : a[1] \in Jobs /\ job[a[1]] # None
    <2>1. PICK s \in WorkerStates : answers' \subseteq answers \cup {<<j, s>>}
      BY <1>5 DEF WorkerRuns
    <2>2. j \in queue /\ queue' \subseteq queue
      BY <1>5 DEF WorkerRuns
    <2> QED BY <1>2, <2>1, <2>2
  <1>6. ASSUME NEW p \in Presses, PressPublish(p)
        PROVE  /\ \A j \in queue' : job'[j] # None
               /\ \A a \in answers' : job'[a[1]] # None
    BY <1>1, <1>2, <1>4, <1>6
  <1>7. ASSUME NEW j \in Jobs, WorkerRuns(j)
        PROVE  /\ \A i \in queue' : job'[i] # None
               /\ \A a \in answers' : job'[a[1]] # None
    BY <1>1, <1>2, <1>5, <1>7
  <1> QED BY <1>3, <1>6, <1>7
        DEF Next, vars, Tick, Crash, MemberStep, Verdict, BeginAgain,
            OfferDecide, OfferSend, PressStep, PressStart, PressClaim,
            PressEnds, PressUnpublished, Expire, ApplyAnswer

\* What the worker can do for the bot: the jobs on its queue.
WorkIsOffered == \A j \in queue : job[j] # None /\ <<job[j].member, job[j].account>> \in offered

\* Whatever is on the worker's queue, however late or often it is taken up,
\* invites an account its member was offered a button for: a press that was
\* told the publish failed, a crash or a redelivery puts nothing else there
\* (publish_group_invite_job).
THEOREM WorkIsWhatWasOffered == Spec => []WorkIsOffered
  <1> DEFINE WorkInv == Offered /\ JobsOffered /\ Claimed
  <1>1. Init => WorkInv
    BY DEF Init, Offered, JobsOffered, Claimed, Idle
  <1>2. TypeInv /\ WorkInv /\ [Next]_vars => WorkInv'
    <2> SUFFICES ASSUME TypeInv, WorkInv, [Next]_vars PROVE WorkInv'
      OBVIOUS
    <2>1. Offered'
      BY OfferedRows, OfferedButtons, OfferedPresses, ClearedLinks DEF Offered
    <2>2. JobsOffered'
      BY JobsOfferedStep
    <2>3. Claimed'
      BY ClaimedPresses, ClaimedBroker DEF Claimed
    <2> QED BY <2>1, <2>2, <2>3
  <1>3. TypeInv /\ WorkInv => WorkIsOffered
    BY DEF TypeInv, TypeOK, JobsOffered, Claimed, WorkIsOffered
  <1> HIDE DEF WorkInv
  <1> QED BY <1>1, <1>2, <1>3, TypeInit, TypeNext, PTL DEF Spec
============================================================================
