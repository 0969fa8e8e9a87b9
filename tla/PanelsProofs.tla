----------------------------- MODULE PanelsProofs -----------------------------
(***************************************************************************)
(* The instructions panel, for any number of clicks, refreshes, channels,  *)
(* messages and releases; and the nudge of servers that have none.         *)
(***************************************************************************)
EXTENDS Panels, PanelNudge, FiniteSetTheorems, TLAPS

Stage == {"idle", "checking", "probing", "posting", "sent", "undoing", "replacing"}
ClickType == [Clicks -> [pc : Stage, ch : Channels \cup {None},
                         seen : Messages \cup {None}, stuck : Messages \cup {None},
                         new : Messages \cup {None}]]

\* The click of c is now at pc, for this channel, and knows these messages; no
\* other has moved.
At(c, pc, ch, seen, stuck, new) ==
    /\ click' \in ClickType
    /\ click'[c].pc = pc /\ click'[c].ch = ch /\ click'[c].seen = seen
    /\ click'[c].stuck = stuck /\ click'[c].new = new
    /\ \A d \in Clicks \ {c} : click'[d] = click[d]

LEMMA EndIsIdle ==
    ASSUME TypeOK, NEW c \in Clicks, End(c)
    PROVE  At(c, "idle", None, None, None, None) /\ click'[c] = NoClick
  <1>1. NoClick \in [pc : Stage, ch : Channels \cup {None}, seen : Messages \cup {None},
                     stuck : Messages \cup {None}, new : Messages \cup {None}]
    BY DEF NoClick, Stage
  <1>2. click' = [click EXCEPT ![c] = NoClick] /\ click \in ClickType
    BY DEF End, TypeOK, ClickType, Stage
  <1>3. click'[c] = NoClick /\ click' \in ClickType
    BY <1>1, <1>2 DEF ClickType
  <1> QED BY <1>2, <1>3 DEF At, NoClick, ClickType

LEMMA SetMoves ==
    ASSUME TypeOK, NEW c \in Clicks, NEW pc \in Stage, Set(c, pc)
    PROVE  At(c, pc, click[c].ch, click[c].seen, click[c].stuck, click[c].new)
  <1>1. click' = [click EXCEPT ![c].pc = pc] /\ click \in ClickType
    BY DEF Set, TypeOK, ClickType, Stage
  <1> QED BY <1>1 DEF At, ClickType

(***************************************************************************)
(* Types.                                                                  *)
(***************************************************************************)
LEMMA InitType == Init => TypeOK
  <1> SUFFICES ASSUME Init PROVE TypeOK
    OBVIOUS
  <1>1. PICK ch \in Channels : at = [m \in Messages |-> ch]
    BY DEF Init
  <1>2. at \in [Messages -> Channels] /\ buttons \in [Messages -> Versions]
    BY <1>1 DEF Init
  <1>3. /\ record \in Messages \cup {None} /\ live \subseteq Messages
        /\ viewrow \in Versions \cup {0}
    BY DEF Init, Messages
  <1>4. NoClick \in [pc : Stage, ch : Channels \cup {None}, seen : Messages \cup {None},
                     stuck : Messages \cup {None}, new : Messages \cup {None}]
    BY DEF NoClick, Stage
  <1>5. NoRefresh \in [id : Messages \cup {None}, ver : Versions \cup {0}]
    BY DEF NoRefresh
  <1> QED BY <1>2, <1>3, <1>4, <1>5 DEF Init, TypeOK, Stage

\* What the helpers write is of its type.
LEMMA RecordVersionType ==
    ASSUME TypeOK, RecordVersion
    PROVE  viewrow' \in Versions \cup {0} /\ slip' \in BOOLEAN
  BY DEF RecordVersion, TypeOK

LEMMA ForgetType ==
    ASSUME TypeOK, Forget
    PROVE  /\ record' \in Messages \cup {None} /\ viewrow' \in Versions \cup {0}
           /\ excused' \subseteq Messages
  BY DEF Forget, TypeOK

LEMMA SendType ==
    ASSUME TypeOK, NEW m \in Posts, NEW ch \in Channels, Send(m, ch)
    PROVE  /\ used' \subseteq Posts /\ live' \subseteq Messages
           /\ at' \in [Messages -> Channels] /\ buttons' \in [Messages -> Versions]
  BY DEF Send, TypeOK, Messages

LEMMA DeleteType ==
    ASSUME TypeOK, NEW m \in Messages, Delete(m)
    PROVE  live' \subseteq Messages /\ excused' \subseteq Messages
  BY DEF Delete, TypeOK

\* A click that starts knows the recorded panel and nothing else.
LEMMA EnterMoves ==
    ASSUME TypeOK, NEW c \in Clicks, NEW ch \in Channels, Enter(c, ch)
    PROVE  \E pc \in {"checking", "posting"} : At(c, pc, ch, record, None, None)
  <1> DEFINE pc == IF record # None /\ at[record] = ch THEN "checking" ELSE "posting"
             new == [pc |-> pc, ch |-> ch, seen |-> record, stuck |-> None, new |-> None]
  <1>1. click' = [click EXCEPT ![c] = new] /\ click \in ClickType
    BY DEF Enter, TypeOK, ClickType, Stage
  <1>2. new \in [pc : Stage, ch : Channels \cup {None}, seen : Messages \cup {None},
                 stuck : Messages \cup {None}, new : Messages \cup {None}]
    BY DEF TypeOK, Stage
  <1>3. /\ new.ch = ch /\ new.seen = record /\ new.stuck = None /\ new.new = None
        /\ new.pc \in {"checking", "posting"}
    OBVIOUS
  <1> HIDE DEF new
  <1>4. click' \in ClickType /\ click'[c] = new /\ \A d \in Clicks \ {c} : click'[d] = click[d]
    BY <1>1, <1>2 DEF ClickType
  <1> QED BY <1>3, <1>4 DEF At

LEMMA CheckMoves ==
    ASSUME TypeOK, NEW c \in Clicks, Check(c)
    PROVE  \/ End(c)
           \/ /\ click[c].seen = Legacy /\ Legacy \in live
              /\ At(c, "posting", click[c].ch, None, Legacy, click[c].new)
           \/ At(c, "probing", click[c].ch, click[c].seen, click[c].stuck, click[c].new)
  <1>1. CASE End(c)
    BY <1>1
  <1>2. ASSUME click[c].seen \in live \cap {Legacy},
               click' = [click EXCEPT ![c].seen = None, ![c].stuck = click[c].seen,
                                      ![c].pc = "posting"]
        PROVE  At(c, "posting", click[c].ch, None, Legacy, click[c].new)
    <2> DEFINE new == [click[c] EXCEPT !.seen = None, !.stuck = Legacy, !.pc = "posting"]
    <2>1. click \in ClickType /\ Legacy \in Messages /\ click[c].seen = Legacy
      BY <1>2 DEF TypeOK, ClickType, Stage, Messages
    <2>2. /\ new \in [pc : Stage, ch : Channels \cup {None}, seen : Messages \cup {None},
                     stuck : Messages \cup {None}, new : Messages \cup {None}]
          /\ new.pc = "posting" /\ new.ch = click[c].ch /\ new.seen = None
          /\ new.stuck = Legacy /\ new.new = click[c].new
      BY <2>1 DEF ClickType, Stage
    <2>3. click' = [click EXCEPT ![c] = new]
      BY <1>2, <2>1 DEF ClickType
    <2> HIDE DEF new
    <2>4. click' \in ClickType /\ click'[c] = new /\ \A d \in Clicks \ {c} : click'[d] = click[d]
      BY <2>1, <2>2, <2>3 DEF ClickType
    <2> QED BY <2>2, <2>4 DEF At
  <1>3. CASE Set(c, "probing")
    BY <1>3, SetMoves DEF Stage
  <1> QED BY <1>1, <1>2, <1>3 DEF Check

LEMMA ProbeMoves ==
    ASSUME TypeOK, NEW c \in Clicks, Probe(c)
    PROVE  \/ End(c)
           \/ /\ click[c].seen \notin live /\ Forget /\ UNCHANGED <<live, buttons, slip>>
              /\ At(c, "posting", click[c].ch, None, click[c].stuck, click[c].new)
  <1>1. ASSUME click' = [click EXCEPT ![c].seen = None, ![c].pc = "posting"]
        PROVE  At(c, "posting", click[c].ch, None, click[c].stuck, click[c].new)
    <2>1. click \in ClickType
      BY DEF TypeOK, ClickType, Stage
    <2> QED BY <1>1, <2>1 DEF At, ClickType, Stage
  <1> QED BY <1>1 DEF Probe

LEMMA PostMoves ==
    ASSUME TypeOK, NEW c \in Clicks, Post(c)
    PROVE  \/ End(c) /\ UNCHANGED discord
           \/ \E m \in Posts : /\ Send(m, click[c].ch)
                               /\ At(c, "sent", click[c].ch, click[c].seen, click[c].stuck, m)
  <1>1. ASSUME NEW m \in Posts,
               click' = [click EXCEPT ![c].new = m, ![c].pc = "sent"]
        PROVE  At(c, "sent", click[c].ch, click[c].seen, click[c].stuck, m)
    <2>1. click \in ClickType /\ m \in Messages
      BY DEF TypeOK, ClickType, Stage, Messages
    <2> QED BY <1>1, <2>1 DEF At, ClickType, Stage
  <1> QED BY <1>1 DEF Post

\* A click under way is for a channel, and has the messages in hand that it is
\* to record or to delete.
Poised ==
    \A c \in Clicks :
      /\ click[c].pc # "idle" => click[c].ch \in Channels
      /\ click[c].pc \in {"sent", "undoing"} => click[c].new \in Messages
      /\ click[c].pc = "replacing" => click[c].stuck \in Messages

LEMMA MovesType ==
    ASSUME TypeOK, Poised, NEW c \in Clicks,
           \/ \E ch \in Channels : Enter(c, ch)
           \/ Check(c) \/ Probe(c) \/ Post(c) \/ Record(c) \/ Undo(c) \/ Replace(c)
    PROVE  click' \in ClickType /\ Poised'
  <1>1. ASSUME NEW pc \in Stage, NEW ch \in Channels \cup {None}, NEW seen, NEW stuck, NEW new,
               At(c, pc, ch, seen, stuck, new), pc # "idle" => ch \in Channels,
               pc \in {"sent", "undoing"} => new \in Messages,
               pc = "replacing" => stuck \in Messages
        PROVE  click' \in ClickType /\ Poised'
    BY <1>1 DEF At, Poised
  <1>2. click[c].ch \in Channels \cup {None}
    BY DEF TypeOK
  <1>3. ASSUME End(c) PROVE click' \in ClickType /\ Poised'
    BY <1>1, <1>3, EndIsIdle DEF Stage
  <1>4. ASSUME click[c].pc = "sent", Set(c, "undoing")
        PROVE  click' \in ClickType /\ Poised'
    BY <1>1, <1>2, <1>4, SetMoves DEF Poised, Stage
  <1>5. ASSUME NEW ch \in Channels, Enter(c, ch) PROVE click' \in ClickType /\ Poised'
    BY <1>1, <1>5, EnterMoves DEF Stage
  <1>6. CASE Check(c)
    BY <1>1, <1>2, <1>3, <1>6, CheckMoves DEF Poised, Check, Stage
  <1>7. CASE Probe(c)
    BY <1>1, <1>2, <1>3, <1>7, ProbeMoves DEF Poised, Probe, Stage
  <1>8. CASE Post(c)
    BY <1>1, <1>2, <1>3, <1>8, PostMoves DEF Poised, Post, Stage, Messages
  <1>9. CASE Record(c)
    <2>1. ASSUME click[c].pc = "sent", click[c].stuck # None, Set(c, "replacing")
          PROVE  click' \in ClickType /\ Poised'
      <3>1. click[c].stuck \in Messages
        BY <2>1 DEF TypeOK
      <3> QED BY <1>1, <1>2, <2>1, <3>1, SetMoves DEF Poised, Stage
    <2> QED BY <1>3, <1>4, <1>9, <2>1 DEF Record
  <1>10. CASE Undo(c) \/ Replace(c)
    BY <1>3, <1>10 DEF Undo, Replace
  <1> QED BY <1>5, <1>6, <1>7, <1>8, <1>9, <1>10

LEMMA ClickStepType ==
    ASSUME TypeOK, Poised, NEW c \in Clicks,
           \/ \E ch \in Channels : Enter(c, ch)
           \/ Check(c) \/ Probe(c) \/ Post(c) \/ Record(c) \/ Undo(c) \/ Replace(c)
    PROVE  TypeOK' /\ Poised'
  <1>1. click' \in ClickType /\ Poised'
    BY MovesType
  <1> SUFFICES TypeOK'
    BY <1>1
  <1>2. click[c].new \in Messages \cup {None} /\ click[c].stuck \in Messages \cup {None}
    BY DEF TypeOK
  <1>3. CASE (\E ch \in Channels : Enter(c, ch)) \/ Check(c)
    BY <1>1, <1>3 DEF Enter, Check, TypeOK, discord, stored, ClickType, Stage
  <1>4. CASE Probe(c)
    <2>1. UNCHANGED <<version, at, used, slash, refresh, live>>
      BY <1>4 DEF Probe
    <2>2. buttons' \in [Messages -> Versions]
      BY <1>4 DEF Probe, TypeOK
    <2>3. /\ record' \in Messages \cup {None} /\ viewrow' \in Versions \cup {0}
          /\ excused' \subseteq Messages /\ slip' \in BOOLEAN
      BY <1>4, RecordVersionType, ForgetType DEF Probe, TypeOK, stored
    <2> QED BY <1>1, <2>1, <2>2, <2>3 DEF TypeOK, ClickType, Stage
  <1>5. CASE Post(c)
    <2>1. UNCHANGED <<version, record, viewrow, slash, refresh, excused, slip>>
      BY <1>5 DEF Post, stored
    <2>2. click[c].ch \in Channels
      BY <1>5 DEF Post, Poised
    <2>3. /\ used' \subseteq Posts /\ live' \subseteq Messages
          /\ at' \in [Messages -> Channels] /\ buttons' \in [Messages -> Versions]
      BY <1>5, <2>2, PostMoves, SendType DEF TypeOK, discord
    <2> QED BY <1>1, <2>1, <2>3 DEF TypeOK, ClickType, Stage
  <1>6. CASE Record(c)
    <2>1. UNCHANGED <<version, live, at, buttons, used, slash, refresh>>
      BY <1>6 DEF Record, discord
    <2>2. /\ record' \in Messages \cup {None} /\ viewrow' \in Versions \cup {0}
          /\ excused' \subseteq Messages /\ slip' \in BOOLEAN
      BY <1>2, <1>6, RecordVersionType DEF Record, TypeOK, stored
    <2> QED BY <1>1, <2>1, <2>2 DEF TypeOK, ClickType, Stage
  <1>7. CASE Undo(c) \/ Replace(c)
    <2>1. UNCHANGED <<version, at, buttons, used, record, viewrow, slash, refresh, slip>>
      BY <1>7 DEF Undo, Replace, stored
    <2>2. live' \subseteq Messages /\ excused' \subseteq Messages
      BY <1>7, DeleteType DEF Undo, Replace, Poised
    <2> QED BY <1>1, <2>1, <2>2 DEF TypeOK, ClickType, Stage
  <1> QED BY <1>3, <1>4, <1>5, <1>6, <1>7

LEMMA OtherType ==
    ASSUME TypeOK, Poised, UNCHANGED <<click, version>>,
           \/ \E m \in Posts, ch \in Channels : SlashPost(m, ch)
           \/ SlashRecord
           \/ \E r \in Refreshes : LoadPanel(r) \/ EditOk(r) \/ EditGone(r) \/ EditRefused(r)
           \/ \E m \in Messages : AdminDeletes(m)
           \/ BotRemoved
    PROVE  TypeOK' /\ Poised'
  <1>1. Poised' /\ click' \in ClickType
    BY DEF Poised, TypeOK, ClickType, Stage
  <1>2. NoRefresh \in [id : Messages \cup {None}, ver : Versions \cup {0}]
    BY DEF NoRefresh
  <1>3. ASSUME NEW m \in Posts, NEW ch \in Channels, SlashPost(m, ch) PROVE TypeOK'
    <2>1. /\ used' \subseteq Posts /\ live' \subseteq Messages
          /\ at' \in [Messages -> Channels] /\ buttons' \in [Messages -> Versions]
      BY <1>3, SendType DEF SlashPost
    <2> QED BY <1>1, <1>3, <2>1 DEF SlashPost, TypeOK, ClickType, Stage, stored, Messages
  <1>4. CASE SlashRecord
    <2>1. /\ record' \in Messages \cup {None} /\ viewrow' \in Versions \cup {0}
          /\ excused' \subseteq Messages /\ slip' \in BOOLEAN
      BY <1>4, RecordVersionType DEF SlashRecord, TypeOK, stored, Messages
    <2> QED BY <1>1, <1>4, <2>1 DEF SlashRecord, TypeOK, ClickType, Stage, discord
  <1>5. ASSUME NEW r \in Refreshes, LoadPanel(r) \/ EditRefused(r) PROVE TypeOK'
    <2>1. refresh' \in [Refreshes -> [id : Messages \cup {None}, ver : Versions \cup {0}]]
      BY <1>2, <1>5 DEF LoadPanel, EditRefused, TypeOK
    <2> QED BY <1>1, <1>5, <2>1
          DEF LoadPanel, EditRefused, TypeOK, ClickType, Stage, discord, stored
  <1>6. ASSUME NEW r \in Refreshes, EditOk(r) PROVE TypeOK'
    <2>1. refresh' \in [Refreshes -> [id : Messages \cup {None}, ver : Versions \cup {0}]]
      BY <1>2, <1>6 DEF EditOk, TypeOK
    <2>2. /\ buttons' \in [Messages -> Versions]
          /\ UNCHANGED <<live, at, used, record, slash, excused>>
      BY <1>6 DEF EditOk, TypeOK
    <2>3. viewrow' \in Versions \cup {0} /\ slip' \in BOOLEAN
      BY <1>6, RecordVersionType DEF EditOk, TypeOK
    <2> QED BY <1>1, <2>1, <2>2, <2>3 DEF TypeOK, ClickType, Stage
  <1>7. ASSUME NEW r \in Refreshes, EditGone(r) PROVE TypeOK'
    <2>1. refresh' \in [Refreshes -> [id : Messages \cup {None}, ver : Versions \cup {0}]]
      BY <1>2, <1>7 DEF EditGone, TypeOK
    <2>2. Forget /\ UNCHANGED <<live, at, buttons, used, slash, slip>>
      BY <1>7 DEF EditGone, discord
    <2> QED BY <1>1, <2>1, <2>2, ForgetType DEF TypeOK, ClickType, Stage
  <1>8. ASSUME NEW m \in Messages, AdminDeletes(m) PROVE TypeOK'
    BY <1>1, <1>8 DEF AdminDeletes, TypeOK, ClickType, Stage, stored
  <1>9. CASE BotRemoved
    BY <1>1, <1>9, ForgetType DEF BotRemoved, TypeOK, ClickType, Stage, discord
  <1> QED BY <1>1, <1>3, <1>4, <1>5, <1>6, <1>7, <1>8, <1>9

LEMMA RestartType ==
    ASSUME TypeOK, NEW v \in Versions, Restart(v)
    PROVE  TypeOK' /\ Poised'
  <1>1. NoClick \in [pc : Stage, ch : Channels \cup {None}, seen : Messages \cup {None},
                     stuck : Messages \cup {None}, new : Messages \cup {None}]
    BY DEF NoClick, Stage
  <1>2. NoRefresh \in [id : Messages \cup {None}, ver : Versions \cup {0}]
    BY DEF NoRefresh
  <1>3. click' \in ClickType /\ Poised'
    BY <1>1 DEF Restart, ClickType, Poised, NoClick
  <1> QED BY <1>2, <1>3 DEF Restart, TypeOK, ClickType, Stage, discord, stored

\* The steps that leave the clicks alone.
Other ==
    \/ \E m \in Posts, ch \in Channels : SlashPost(m, ch)
    \/ SlashRecord
    \/ \E r \in Refreshes : LoadPanel(r) \/ EditOk(r) \/ EditGone(r) \/ EditRefused(r)
    \/ \E m \in Messages : AdminDeletes(m)
    \/ BotRemoved

LEMMA OtherKeepsClicks == Other => UNCHANGED <<click, version>>
  BY DEF Other, SlashPost, SlashRecord, LoadPanel, EditOk, EditGone, EditRefused,
         AdminDeletes, BotRemoved

LEMMA TypeNext == TypeOK /\ Poised /\ [Next]_vars => (TypeOK /\ Poised)'
  <1> SUFFICES ASSUME TypeOK, Poised, [Next]_vars PROVE (TypeOK /\ Poised)'
    OBVIOUS
  <1>1. CASE UNCHANGED vars
    BY <1>1 DEF vars, discord, stored, TypeOK, Poised
  <1>2. ASSUME NEW v \in Versions, Restart(v) PROVE (TypeOK /\ Poised)'
    BY <1>2, RestartType
  <1>3. CASE Other
    BY <1>3, OtherKeepsClicks, OtherType DEF Other
  <1>4. ASSUME NEW c \in Clicks,
               \/ \E ch \in Channels : Enter(c, ch)
               \/ Check(c) \/ Probe(c) \/ Post(c) \/ Record(c) \/ Undo(c) \/ Replace(c)
        PROVE  (TypeOK /\ Poised)'
    BY <1>4, ClickStepType
  <1> QED BY <1>1, <1>2, <1>3, <1>4 DEF Next, Other

(***************************************************************************)
(* Live panels are tracked.                                                *)
(***************************************************************************)
\* A message that is left alone is gone, recorded, or left for a reason.
Kept(m) == m \in live => m = record \/ m \in excused

OneClick == \A c, d \in Clicks : click[c].pc # "idle" /\ click[d].pc # "idle" => c = d

\* What a click has in hand: nothing before it has looked, a new message of the
\* bot's from its sending on, and a stuck panel that is a reply.
HandsOf(c) ==
    /\ click[c].pc = "idle" => click[c] = NoClick
    /\ click[c].pc \in {"checking", "probing"} => click[c].stuck = None
    /\ click[c].pc \in {"checking", "probing", "posting"} => click[c].new = None
    /\ click[c].stuck \in {None, Legacy}
    /\ click[c].new \in used \cup {None}

\* What a click will let go of is kept: the stuck panel until it is to be
\* deleted, the new one from then on.  Before it records a panel, it knows of
\* the one that is recorded.
CareOf(c) ==
    \A m \in Messages :
      /\ click[c].pc \notin {"idle", "replacing"} /\ click[c].stuck = m => Kept(m)
      /\ click[c].pc = "replacing" /\ click[c].new = m => Kept(m)
      /\ click[c].pc \notin {"idle", "replacing"} /\ m \in live /\ m = record =>
           m = click[c].seen \/ m = click[c].stuck \/ m \in excused

Sent ==
    /\ record \in used \cup {None, Legacy}
    /\ slash # None => slash \in used /\ slash \in excused

Hands == \A c \in Clicks : HandsOf(c)
Care == \A c \in Clicks : CareOf(c)
TrackInv == TypeOK /\ Poised /\ OneClick /\ Hands /\ Care /\ Sent /\ LiveIsTracked

LEMMA TrackInit == Init => TrackInv
  <1> SUFFICES ASSUME Init PROVE TrackInv
    OBVIOUS
  <1>1. TypeOK /\ Poised
    BY InitType DEF Init, Poised, NoClick
  <1>2. OneClick /\ Hands /\ Care /\ Sent
    BY DEF Init, OneClick, Hands, HandsOf, Care, CareOf, Sent, NoClick
  <1>3. LiveIsTracked
    BY DEF Init, LiveIsTracked
  <1> QED BY <1>1, <1>2, <1>3 DEF TrackInv

\* Only the click that moves has anything in hand.
LEMMA ClickTracked ==
    ASSUME TrackInv, TypeOK', Poised', NEW c \in Clicks, LockFree(c) \/ click[c].pc # "idle",
           \A d \in Clicks \ {c} : click'[d] = click[d],
           HandsOf(c)', CareOf(c)', Sent', used \subseteq used',
           \A m \in Messages : m \in live' =>
             m = record' \/ m \in {click'[c].new, click'[c].stuck} \/ m \in excused'
    PROVE  TrackInv'
  <1>1. \A d \in Clicks \ {c} : click[d].pc = "idle" /\ click[d] = NoClick
    BY DEF TrackInv, OneClick, Hands, HandsOf, LockFree
  <1>2. OneClick'
    BY <1>1 DEF OneClick, NoClick
  <1>3. Hands'
    BY <1>1 DEF Hands, HandsOf, NoClick
  <1>4. Care'
    BY <1>1, PanelConstants DEF Care, CareOf, NoClick
  <1>5. LiveIsTracked'
    BY DEF LiveIsTracked, InHand, TypeOK
  <1> QED BY <1>2, <1>3, <1>4, <1>5 DEF TrackInv

\* What is tracked by the record or has an excuse is still kept when the record
\* changes only to leave a live panel with an excuse.
Leaves ==
    /\ excused \subseteq excused'
    /\ \A m \in Messages : m \in live /\ m = record => m = record' \/ m \in excused'

LEMMA KeptStays ==
    ASSUME Leaves, NEW m \in Messages, Kept(m), m \in live' => m \in live \/ m \in excused'
    PROVE  Kept(m)'
  BY DEF Leaves, Kept

LEMMA ForgetLeaves == ASSUME TypeOK, Forget, UNCHANGED live PROVE Leaves
  BY PanelConstants DEF Forget, Leaves, TypeOK

\* The steps that leave the clicks alone.
LEMMA OtherTracked ==
    ASSUME TrackInv, TypeOK', Poised', UNCHANGED click, Leaves, Sent', used \subseteq used',
           \A m \in Messages : m \in live' => m \in live \/ m \in excused',
           \A m \in Messages : m = record' => m = record \/ m \in excused'
    PROVE  TrackInv'
  <1>1. OneClick' /\ Hands'
    BY DEF TrackInv, OneClick, Hands, HandsOf
  <1>2. Care'
    BY KeptStays DEF TrackInv, Care, CareOf, Kept, Leaves
  <1>3. LiveIsTracked'
    BY DEF TrackInv, LiveIsTracked, InHand, TypeOK, Leaves
  <1> QED BY <1>1, <1>2, <1>3 DEF TrackInv

LEMMA EnterTracked ==
    ASSUME TrackInv, TypeOK', Poised', NEW c \in Clicks, NEW ch \in Channels, Enter(c, ch)
    PROVE  TrackInv'
  <1>1. PICK pc \in {"checking", "posting"} : At(c, pc, ch, record, None, None)
    BY EnterMoves DEF TrackInv
  <1>2. UNCHANGED <<live, used, record, slash, excused>> /\ LockFree(c)
    BY DEF Enter, discord, stored
  <1>3. HandsOf(c)' /\ CareOf(c)' /\ Sent'
    BY <1>1, <1>2, PanelConstants DEF At, HandsOf, CareOf, Sent, TrackInv
  <1>4. \A m \in Messages : m \in live' => m = record' \/ m \in excused'
    <2>1. \A d \in Clicks : click[d].new = None /\ click[d].stuck = None
      BY <1>2 DEF TrackInv, Hands, HandsOf, LockFree, NoClick
    <2> QED BY <1>2, <2>1, PanelConstants DEF TrackInv, LiveIsTracked, InHand
  <1> QED BY <1>1, <1>2, <1>3, <1>4, ClickTracked DEF At

\* A click that ends lets its messages go.
LEMMA EndTracked ==
    ASSUME TrackInv, TypeOK', Poised', NEW c \in Clicks, click[c].pc # "idle", End(c),
           UNCHANGED <<used, slash>>, Leaves, Sent', live' \subseteq live,
           \A m \in Messages : m \in {click[c].new, click[c].stuck} =>
             Kept(m) \/ m = record' \/ m \in excused' \/ m \notin live'
    PROVE  TrackInv'
  <1>1. At(c, "idle", None, None, None, None) /\ click'[c] = NoClick
    BY EndIsIdle DEF TrackInv
  <1>2. HandsOf(c)' /\ CareOf(c)'
    BY <1>1, PanelConstants DEF At, HandsOf, CareOf, NoClick
  <1>3. \A d \in Clicks \ {c} : click[d] = NoClick
    BY DEF TrackInv, OneClick, Hands, HandsOf
  <1>4. ASSUME NEW m \in Messages, m \in live' PROVE m = record' \/ m \in excused'
    <2>1. Kept(m) \/ m \in {click[c].new, click[c].stuck}
      BY <1>3, <1>4, PanelConstants DEF TrackInv, LiveIsTracked, InHand, Kept, NoClick
    <2> QED BY <1>4, <2>1 DEF Kept, Leaves
  <1> QED BY <1>1, <1>2, <1>4, ClickTracked DEF At

LEMMA CheckTracked ==
    ASSUME TrackInv, TypeOK', Poised', NEW c \in Clicks, Check(c)
    PROVE  TrackInv'
  <1>1. /\ UNCHANGED <<live, used, record, slash, excused>>
        /\ click[c].pc = "checking" /\ click[c].new = None /\ click[c].stuck = None
    BY DEF Check, discord, stored, TrackInv, Hands, HandsOf
  <1>2. Sent' /\ Leaves
    BY <1>1 DEF TrackInv, Sent, Leaves
  <1>3. CASE End(c)
    BY <1>1, <1>2, <1>3, EndTracked, PanelConstants
  <1>4. \A m \in Messages : m \in live => m = record \/ m \in excused
    BY <1>1, PanelConstants DEF TrackInv, LiveIsTracked, InHand, OneClick, Hands, HandsOf, NoClick
  <1>5. CASE /\ click[c].seen = Legacy /\ Legacy \in live
             /\ At(c, "posting", click[c].ch, None, Legacy, click[c].new)
    <2>1. HandsOf(c)'
      BY <1>1, <1>5 DEF At, HandsOf
    <2>2. CareOf(c)'
      BY <1>1, <1>4, <1>5 DEF At, CareOf, Kept, TrackInv, Care
    <2> QED BY <1>1, <1>2, <1>4, <1>5, <2>1, <2>2, ClickTracked DEF At
  <1>6. CASE At(c, "probing", click[c].ch, click[c].seen, click[c].stuck, click[c].new)
    <2>1. HandsOf(c)'
      BY <1>1, <1>6 DEF At, HandsOf
    <2>2. CareOf(c)'
      BY <1>1, <1>6, PanelConstants DEF At, CareOf, TrackInv, Care
    <2> QED BY <1>1, <1>2, <1>4, <1>6, <2>1, <2>2, ClickTracked DEF At
  <1> QED BY <1>3, <1>5, <1>6, CheckMoves DEF TrackInv

LEMMA ProbeTracked ==
    ASSUME TrackInv, TypeOK', Poised', NEW c \in Clicks, Probe(c)
    PROVE  TrackInv'
  <1>1. /\ UNCHANGED <<used, slash, live>>
        /\ click[c].pc = "probing" /\ click[c].new = None /\ click[c].stuck = None
    BY DEF Probe, TrackInv, Hands, HandsOf
  <1>2. UNCHANGED <<record, excused>> \/ Forget
    BY DEF Probe, stored
  <1>3. Sent' /\ Leaves
    BY <1>1, <1>2, ForgetLeaves DEF TrackInv, Sent, Leaves, Forget
  <1>4. CASE End(c)
    BY <1>1, <1>3, <1>4, EndTracked, PanelConstants
  <1>5. CASE /\ Forget /\ At(c, "posting", click[c].ch, None, click[c].stuck, click[c].new)
    <2>1. HandsOf(c)'
      BY <1>1, <1>5 DEF At, HandsOf
    <2>2. CareOf(c)'
      BY <1>1, <1>5, PanelConstants DEF At, CareOf, Forget
    <2>3. \A m \in Messages : m \in live => m = record \/ m \in excused
      BY <1>1, PanelConstants DEF TrackInv, LiveIsTracked, InHand, OneClick, Hands, HandsOf, NoClick
    <2> QED BY <1>1, <1>3, <1>5, <2>1, <2>2, <2>3, ClickTracked DEF At, Leaves
  <1> QED BY <1>4, <1>5, ProbeMoves DEF TrackInv

LEMMA PostTracked ==
    ASSUME TrackInv, TypeOK', Poised', NEW c \in Clicks, Post(c)
    PROVE  TrackInv'
  <1>1. /\ UNCHANGED <<record, slash, excused>>
        /\ click[c].pc = "posting" /\ click[c].new = None
        /\ \A m \in Messages : m = click[c].stuck => Kept(m)
    BY DEF Post, stored, TrackInv, Hands, HandsOf, Care, CareOf
  <1>2. CASE End(c) /\ UNCHANGED discord
    BY <1>1, <1>2, EndTracked, PanelConstants DEF discord, Leaves, Sent, TrackInv
  <1>3. ASSUME NEW m \in Posts, Send(m, click[c].ch),
               At(c, "sent", click[c].ch, click[c].seen, click[c].stuck, m)
        PROVE  TrackInv'
    <2>1. m \notin used /\ used' = used \cup {m} /\ live' = live \cup {m}
      BY <1>3 DEF Send
    <2>2. HandsOf(c)' /\ Sent'
      BY <1>1, <1>3, <2>1 DEF At, HandsOf, TrackInv, Hands, Sent
    <2>3. CareOf(c)'
      <3>1. m # record /\ m # click[c].stuck
        BY <2>1, PanelConstants DEF TrackInv, Sent, Hands, HandsOf, Messages
      <3> QED BY <1>1, <1>3, <2>1, <3>1 DEF At, CareOf, TrackInv, Care, Kept
    <2>4. ASSUME NEW n \in Messages, n \in live'
          PROVE  n = record' \/ n \in {click'[c].new, click'[c].stuck} \/ n \in excused'
      <3>1. \A d \in Clicks \ {c} : click[d] = NoClick
        BY <1>1 DEF TrackInv, OneClick, Hands, HandsOf
      <3> QED BY <1>1, <1>3, <2>1, <2>4, <3>1, PanelConstants
              DEF At, TrackInv, LiveIsTracked, InHand, NoClick
    <2> QED BY <1>1, <1>3, <2>1, <2>2, <2>3, <2>4, ClickTracked DEF At
  <1> QED BY <1>2, <1>3, PostMoves DEF TrackInv

LEMMA RecordTracked ==
    ASSUME TrackInv, TypeOK', Poised', NEW c \in Clicks, Record(c)
    PROVE  TrackInv'
  <1>1. /\ UNCHANGED <<live, used, slash>> /\ click[c].pc = "sent"
        /\ click[c].new \in used /\ click[c].stuck \in {None, Legacy}
        /\ \A d \in Clicks \ {c} : click[d] = NoClick
    BY PanelConstants
       DEF Record, discord, TrackInv, Poised, OneClick, Hands, HandsOf, TypeOK
  <1>2. \A m \in Messages :
          /\ m \in live => m = record \/ m \in {click[c].new, click[c].stuck} \/ m \in excused
          /\ m \in live /\ m = record => m = click[c].seen \/ m = click[c].stuck \/ m \in excused
          /\ m = click[c].stuck => Kept(m)
    BY <1>1, PanelConstants DEF TrackInv, LiveIsTracked, InHand, NoClick, Care, CareOf
  <1>3. CASE /\ record' = click[c].new
             /\ excused' = IF click[c].seen # None THEN excused \cup {click[c].seen} ELSE excused
             /\ IF click[c].stuck = None THEN End(c) ELSE Set(c, "replacing")
    <2>1. /\ Sent' /\ excused \subseteq excused'
          /\ \A m \in Messages : m = click[c].seen => m \in excused'
      BY <1>1, <1>3, PanelConstants DEF TrackInv, Sent
    <2>2. \A m \in Messages : m \in live' => m = record' \/ m = click[c].stuck \/ m \in excused'
      BY <1>1, <1>2, <1>3, <2>1
    <2>3. CASE click[c].stuck = None
      <3>1. At(c, "idle", None, None, None, None) /\ click'[c] = NoClick
        BY <1>3, <2>3, EndIsIdle DEF TrackInv
      <3>2. HandsOf(c)' /\ CareOf(c)'
        BY <3>1, PanelConstants DEF At, HandsOf, CareOf, NoClick
      <3> QED BY <1>1, <2>1, <2>2, <2>3, <3>1, <3>2, ClickTracked, PanelConstants DEF At
    <2>4. CASE click[c].stuck # None
      <3>1. At(c, "replacing", click[c].ch, click[c].seen, click[c].stuck, click[c].new)
        BY <1>3, <2>4, SetMoves DEF TrackInv, Stage
      <3>2. HandsOf(c)' /\ CareOf(c)'
        BY <1>1, <1>3, <3>1 DEF At, HandsOf, CareOf, Kept
      <3> QED BY <1>1, <2>1, <2>2, <3>1, <3>2, ClickTracked DEF At
    <2> QED BY <2>3, <2>4
  <1>4. CASE Set(c, "undoing") /\ UNCHANGED <<record, excused>>
    <2>1. At(c, "undoing", click[c].ch, click[c].seen, click[c].stuck, click[c].new)
      BY <1>4, SetMoves DEF TrackInv, Stage
    <2>2. HandsOf(c)' /\ CareOf(c)' /\ Sent'
      BY <1>1, <1>2, <1>4, <2>1 DEF At, HandsOf, CareOf, Kept, Sent, TrackInv
    <2> QED BY <1>1, <1>2, <1>4, <2>1, <2>2, ClickTracked DEF At
  <1> QED BY <1>3, <1>4 DEF Record, stored

LEMMA UndoTracked ==
    ASSUME TrackInv, TypeOK', Poised', NEW c \in Clicks, Undo(c) \/ Replace(c)
    PROVE  TrackInv'
  <1>1. /\ UNCHANGED <<used, slash, record>> /\ End(c) /\ click[c].pc # "idle"
    BY DEF Undo, Replace, stored
  <1>2. live' \subseteq live /\ excused \subseteq excused'
    BY DEF Undo, Replace, Delete
  <1>3. Sent' /\ Leaves
    BY <1>1, <1>2 DEF TrackInv, Sent, Leaves
  <1>4. CASE Undo(c)
    <2>1. click[c].new \notin live' \/ click[c].new \in excused'
      BY <1>4 DEF Undo, Delete
    <2>2. \A m \in Messages : m = click[c].stuck => Kept(m)
      BY <1>4 DEF Undo, TrackInv, Care, CareOf
    <2> QED BY <1>1, <1>2, <1>3, <2>1, <2>2, EndTracked
  <1>5. CASE Replace(c)
    <2>1. click[c].stuck \notin live' \/ click[c].stuck \in excused'
      BY <1>5 DEF Replace, Delete
    <2>2. \A m \in Messages : m = click[c].new => Kept(m)
      BY <1>5 DEF Replace, TrackInv, Care, CareOf
    <2> QED BY <1>1, <1>2, <1>3, <2>1, <2>2, EndTracked
  <1> QED BY <1>4, <1>5

LEMMA OthersTracked ==
    ASSUME TrackInv, TypeOK', Poised', Other
    PROVE  TrackInv'
  <1>1. UNCHANGED click
    BY OtherKeepsClicks
  <1>2. ASSUME UNCHANGED <<used, slash>>, live' \subseteq live,
               UNCHANGED <<record, excused>> \/ (Forget /\ UNCHANGED live)
        PROVE  TrackInv'
    <2>1. Leaves /\ Sent'
      BY <1>2, ForgetLeaves DEF TrackInv, Sent, Leaves, Forget
    <2>2. \A m \in Messages : m = record' => m = record
      BY <1>2, PanelConstants DEF Forget
    <2> QED BY <1>1, <1>2, <2>1, <2>2, OtherTracked
  <1>3. ASSUME NEW m \in Posts, NEW ch \in Channels, SlashPost(m, ch) PROVE TrackInv'
    <2>1. /\ used' = used \cup {m} /\ live' = live \cup {m} /\ slash' = m
          /\ excused' = excused \cup {m} /\ UNCHANGED record
      BY <1>3 DEF SlashPost, Send, stored
    <2>2. Leaves /\ Sent'
      BY <2>1 DEF Leaves, Sent, TrackInv
    <2> QED BY <1>1, <2>1, <2>2, OtherTracked
  <1>4. CASE SlashRecord
    <2>1. /\ UNCHANGED <<live, used>> /\ slash # None /\ slash' = None
          /\ \/ /\ record' = slash
                /\ excused' = IF record # None THEN excused \cup {record} ELSE excused
             \/ UNCHANGED <<record, excused>>
      BY <1>4 DEF SlashRecord, discord, stored
    <2>2. Leaves /\ Sent'
      BY <2>1, PanelConstants DEF Leaves, Sent, TrackInv
    <2>3. \A m \in Messages : m = record' => m = record \/ m \in excused'
      BY <2>1, PanelConstants DEF Sent, TrackInv
    <2> QED BY <1>1, <2>1, <2>2, <2>3, OtherTracked
  <1>5. ASSUME NEW r \in Refreshes, LoadPanel(r) \/ EditOk(r) \/ EditGone(r) \/ EditRefused(r)
        PROVE  TrackInv'
    BY <1>2, <1>5 DEF LoadPanel, EditOk, EditGone, EditRefused, discord, stored
  <1>6. ASSUME NEW m \in Messages, AdminDeletes(m) PROVE TrackInv'
    BY <1>2, <1>6 DEF AdminDeletes, stored
  <1>7. CASE BotRemoved
    BY <1>2, <1>7 DEF BotRemoved, discord
  <1> QED BY <1>3, <1>4, <1>5, <1>6, <1>7 DEF Other

LEMMA RestartTracked ==
    ASSUME TrackInv, TypeOK', Poised', NEW v \in Versions, Restart(v)
    PROVE  TrackInv'
  <1>1. /\ UNCHANGED <<live, used, record>> /\ slash' = None
        /\ click' = [c \in Clicks |-> NoClick]
        /\ excused' = excused \cup {m \in Messages : InHand(m)}
    BY DEF Restart, discord, stored
  <1>2. OneClick' /\ Hands' /\ Care'
    BY <1>1, PanelConstants DEF OneClick, Hands, HandsOf, Care, CareOf, NoClick
  <1>3. Sent'
    BY <1>1 DEF TrackInv, Sent
  <1>4. LiveIsTracked'
    BY <1>1 DEF TrackInv, LiveIsTracked, TypeOK
  <1> QED BY <1>2, <1>3, <1>4 DEF TrackInv

LEMMA TrackNext == TrackInv /\ [Next]_vars => TrackInv'
  <1> SUFFICES ASSUME TrackInv, [Next]_vars PROVE TrackInv'
    OBVIOUS
  <1>1. TypeOK' /\ Poised'
    BY TypeNext DEF TrackInv
  <1>2. CASE UNCHANGED vars
    <2>1. UNCHANGED <<live, used, record, click, slash, excused>>
      BY <1>2 DEF vars, discord, stored
    <2> QED BY <1>1, <2>1, OtherTracked DEF TrackInv, Sent, Leaves
  <1>3. ASSUME NEW v \in Versions, Restart(v) PROVE TrackInv'
    BY <1>1, <1>3, RestartTracked
  <1>4. CASE Other
    BY <1>1, <1>4, OthersTracked
  <1>5. ASSUME NEW c \in Clicks, NEW ch \in Channels, Enter(c, ch) PROVE TrackInv'
    BY <1>1, <1>5, EnterTracked
  <1>6. ASSUME NEW c \in Clicks, Check(c) PROVE TrackInv'
    BY <1>1, <1>6, CheckTracked
  <1>7. ASSUME NEW c \in Clicks, Probe(c) PROVE TrackInv'
    BY <1>1, <1>7, ProbeTracked
  <1>8. ASSUME NEW c \in Clicks, Post(c) PROVE TrackInv'
    BY <1>1, <1>8, PostTracked
  <1>9. ASSUME NEW c \in Clicks, Record(c) PROVE TrackInv'
    BY <1>1, <1>9, RecordTracked
  <1>10. ASSUME NEW c \in Clicks, Undo(c) \/ Replace(c) PROVE TrackInv'
    BY <1>1, <1>10, UndoTracked
  <1> QED BY <1>2, <1>3, <1>4, <1>5, <1>6, <1>7, <1>8, <1>9, <1>10 DEF Next, Other

(***************************************************************************)
(* A panel that is skipped is routable.                                    *)
(***************************************************************************)
\* The buttons of a message are those of the process that runs.
Own(m) == buttons[m] = version

\* If another panel than m is recorded, this process has posted it: its write
\* of the version is as true of that panel as of m.
Known(m) == \A n \in Messages : n = record /\ n \in live /\ n # m => Own(n)

Matched ==
    \A m \in Messages : ~slip /\ m = record /\ m \in live /\ viewrow # 0 => buttons[m] = viewrow

\* What holds of every message that is looked at, sent or being edited.
Seen ==
    \A m \in Messages :
      /\ \A c \in Clicks : /\ click[c].seen = m => Known(m)
                           /\ click[c].new = m => Own(m)
      /\ slash = m => Own(m)
      /\ \A r \in Refreshes : refresh[r].id = m =>
           Known(m) /\ (refresh[r].ver = version => viewrow \in {0, version})

SkipInv == TrackInv /\ Matched /\ Seen

LEMMA SkipInit == Init => SkipInv
  <1> SUFFICES ASSUME Init PROVE SkipInv
    OBVIOUS
  <1>1. Matched
    BY DEF Init, Matched
  <1>2. Seen
    BY PanelConstants DEF Init, Seen, NoClick, NoRefresh
  <1> QED BY <1>1, <1>2, TrackInit DEF SkipInv

\* While a process runs, buttons become its own, and so is what it records.
Runs ==
    /\ UNCHANGED version
    /\ \A m \in Messages : buttons'[m] \in {buttons[m], version}
    /\ \A m \in Messages : m = record' /\ m \in live' =>
         (m = record /\ m \in live) \/ buttons'[m] = version
    /\ viewrow' \in {viewrow, 0, version}

LEMMA SeenKept ==
    ASSUME SkipInv, Runs,
           \A c \in Clicks, m \in Messages :
             /\ click'[c].seen = m => click[c].seen = m \/ m = record'
             /\ click'[c].new = m => click[c].new = m \/ buttons'[m] = version,
           \A m \in Messages : slash' = m => slash = m \/ buttons'[m] = version,
           \A r \in Refreshes, m \in Messages : refresh'[r].id = m =>
             \/ refresh'[r] = refresh[r]
             \/ m = record' /\ (refresh'[r].ver = version => viewrow' \in {0, version})
    PROVE  Seen'
  <1>1. \A m \in Messages : Own(m) => buttons'[m] = version'
    BY DEF Runs, Own
  <1>2. \A m \in Messages : Known(m) \/ m = record' => Known(m)'
    BY <1>1 DEF Runs, Known, Own
  <1> QED BY <1>1, <1>2 DEF SkipInv, Seen, Runs, Own

LEMMA MatchedKept ==
    ASSUME SkipInv, slip \in BOOLEAN,
           \A m \in Messages : m = record' /\ m \in live' /\ ~slip' =>
             \/ viewrow' = 0
             \/ viewrow' = version /\ buttons'[m] = version
             \/ /\ m = record /\ m \in live /\ ~slip
                /\ viewrow' = viewrow /\ buttons'[m] = buttons[m]
    PROVE  Matched'
  BY DEF SkipInv, Matched

\* A step that edits no message, and forgets the recorded panel if any.
LEMMA StillSkips ==
    ASSUME SkipInv, TrackInv', UNCHANGED <<version, buttons>>, slip' = slip,
           live' \subseteq live,
           UNCHANGED <<record, viewrow>> \/ Forget,
           \A c \in Clicks, m \in Messages :
             /\ click'[c].seen = m => click[c].seen = m \/ m = record'
             /\ click'[c].new = m => click[c].new = m,
           slash' \in {slash, None},
           \A r \in Refreshes, m \in Messages : refresh'[r].id = m =>
             \/ refresh'[r] = refresh[r]
             \/ m = record' /\ (refresh'[r].ver = version => viewrow' \in {0, version})
    PROVE  SkipInv'
  <1>1. slip \in BOOLEAN /\ slip' \in BOOLEAN
    BY DEF SkipInv, TrackInv, TypeOK
  <1>2. Matched'
    BY <1>1, PanelConstants, MatchedKept DEF Forget
  <1>3. Runs
    BY PanelConstants DEF Runs, Forget
  <1>4. Seen'
    BY <1>3, PanelConstants, SeenKept
  <1> QED BY <1>2, <1>4 DEF SkipInv

\* A version write says of the recorded panel that its buttons are the
\* process's own.
LEMMA VersionWritten ==
    ASSUME SkipInv, TrackInv', RecordVersion, Runs,
           \A m \in Messages : m = record' /\ m \in live' => buttons'[m] = version
    PROVE  Matched'
  <1>1. slip \in BOOLEAN
    BY DEF SkipInv, TrackInv, TypeOK
  <1>2. slip' \/ viewrow' = version
    BY DEF RecordVersion
  <1> QED BY <1>1, <1>2, MatchedKept

LEMMA QuietClickSkips ==
    ASSUME SkipInv, TrackInv', NEW c \in Clicks,
           (\E ch \in Channels : Enter(c, ch)) \/ Check(c) \/ Undo(c) \/ Replace(c)
    PROVE  SkipInv'
  <1>1. UNCHANGED <<version, buttons, record, viewrow, slash, refresh, slip>> /\ live' \subseteq live
    BY DEF Enter, Check, Undo, Replace, Delete, discord, stored
  <1>2. \A d \in Clicks, m \in Messages :
          /\ click'[d].seen = m => click[d].seen = m \/ m = record'
          /\ click'[d].new = m => click[d].new = m
    <2>1. ASSUME End(c) PROVE <1>2
      BY <2>1, EndIsIdle, PanelConstants DEF SkipInv, TrackInv, At
    <2>2. ASSUME NEW ch \in Channels, Enter(c, ch) PROVE <1>2
      BY <1>1, <2>2, EnterMoves, PanelConstants DEF SkipInv, TrackInv, At
    <2>3. ASSUME Check(c) PROVE <1>2
      BY <2>1, <2>3, CheckMoves, PanelConstants DEF SkipInv, TrackInv, At
    <2> QED BY <2>1, <2>2, <2>3 DEF Undo, Replace
  <1> QED BY <1>1, <1>2, StillSkips

LEMMA ProbeSkips ==
    ASSUME SkipInv, TrackInv', NEW c \in Clicks, Probe(c)
    PROVE  SkipInv'
  <1> DEFINE m == click[c].seen
  <1>1. UNCHANGED <<version, slash, refresh, live>>
    BY DEF Probe
  <1>2. \A d \in Clicks, n \in Messages :
          /\ click'[d].seen = n => click[d].seen = n
          /\ click'[d].new = n => click[d].new = n
    BY ProbeMoves, EndIsIdle, PanelConstants DEF SkipInv, TrackInv, At
  <1>3. CASE /\ m \in live /\ buttons' = [buttons EXCEPT ![m] = version]
             /\ RecordVersion /\ UNCHANGED record
    <2>1. m \in Messages /\ buttons \in [Messages -> Versions]
      BY <1>3 DEF SkipInv, TrackInv, TypeOK
    <2>2. /\ buttons'[m] = version
          /\ \A n \in Messages \ {m} : buttons'[n] = buttons[n]
      BY <1>3, <2>1
    <2>3. \A n \in Messages : n = record /\ n \in live => buttons'[n] = version
      BY <2>1, <2>2 DEF SkipInv, Seen, Known, Own
    <2>4. Runs
      BY <1>1, <1>3, <2>2 DEF Runs, RecordVersion
    <2>5. Matched'
      BY <1>1, <1>3, <2>3, <2>4, VersionWritten
    <2>6. Seen'
      BY <1>1, <1>2, <2>4, SeenKept
    <2> QED BY <2>5, <2>6 DEF SkipInv
  <1>4. CASE UNCHANGED <<buttons, slip>> /\ (UNCHANGED <<record, viewrow>> \/ Forget)
    BY <1>1, <1>2, <1>4, StillSkips
  <1> QED BY <1>3, <1>4 DEF Probe, stored

\* A message that is sent now has never been recorded, nor in anyone's hands.
LEMMA SendSkips ==
    ASSUME SkipInv, TrackInv', NEW m \in Posts, NEW ch, Send(m, ch),
           UNCHANGED <<version, record, viewrow, refresh>>, slip' = slip,
           \A c \in Clicks, n \in Messages :
             /\ click'[c].seen = n => click[c].seen = n
             /\ click'[c].new = n => click[c].new = n \/ n = m,
           slash' \in {slash, m}
    PROVE  SkipInv'
  <1>1. m \in Messages /\ m # record
    BY PanelConstants DEF Messages, SkipInv, TrackInv, Sent, Send
  <1>2. /\ buttons'[m] = version /\ live' = live \cup {m}
        /\ \A n \in Messages \ {m} : buttons'[n] = buttons[n]
    BY <1>1 DEF SkipInv, TrackInv, TypeOK, Send
  <1>3. Runs
    BY <1>1, <1>2 DEF Runs
  <1>4. Matched'
    BY <1>1, <1>2, MatchedKept DEF SkipInv, TrackInv, TypeOK
  <1>5. Seen'
    BY <1>2, <1>3, SeenKept
  <1> QED BY <1>4, <1>5 DEF SkipInv

LEMMA PostSkips ==
    ASSUME SkipInv, TrackInv', NEW c \in Clicks, Post(c)
    PROVE  SkipInv'
  <1>1. UNCHANGED <<version, record, viewrow, slash, refresh, slip>>
    BY DEF Post, stored
  <1>2. CASE End(c) /\ UNCHANGED discord
    <2>1. \A d \in Clicks, m \in Messages :
            /\ click'[d].seen = m => click[d].seen = m
            /\ click'[d].new = m => click[d].new = m
      BY <1>2, EndIsIdle, PanelConstants DEF SkipInv, TrackInv, At
    <2> QED BY <1>1, <1>2, <2>1, StillSkips DEF discord
  <1>3. ASSUME NEW m \in Posts, Send(m, click[c].ch),
               At(c, "sent", click[c].ch, click[c].seen, click[c].stuck, m)
        PROVE  SkipInv'
    BY <1>1, <1>3, SendSkips DEF At
  <1> QED BY <1>2, <1>3, PostMoves DEF SkipInv, TrackInv

\* The panel that is recorded is one this process has sent.
LEMMA RecordSkips ==
    ASSUME SkipInv, TrackInv', UNCHANGED <<version, buttons, live, refresh>>,
           \A c \in Clicks, m \in Messages :
             /\ click'[c].seen = m => click[c].seen = m
             /\ click'[c].new = m => click[c].new = m,
           slash' \in {slash, None}, RecordVersion,
           \A m \in Messages : m = record' => Own(m)
    PROVE  SkipInv'
  <1>1. Runs
    BY DEF Runs, RecordVersion, Own
  <1>2. Matched'
    BY <1>1, VersionWritten DEF Own
  <1>3. Seen'
    BY <1>1, SeenKept, PanelConstants
  <1> QED BY <1>2, <1>3 DEF SkipInv

LEMMA ClickRecordSkips ==
    ASSUME SkipInv, TrackInv', NEW c \in Clicks, Record(c)
    PROVE  SkipInv'
  <1>1. UNCHANGED <<version, buttons, live, slash, refresh>>
    BY DEF Record, discord
  <1>2. End(c) \/ Set(c, "replacing") \/ Set(c, "undoing")
    BY DEF Record
  <1>3. \A d \in Clicks, m \in Messages :
          /\ click'[d].seen = m => click[d].seen = m
          /\ click'[d].new = m => click[d].new = m
    BY <1>2, EndIsIdle, SetMoves, PanelConstants DEF SkipInv, TrackInv, At, Stage
  <1>4. CASE record' = click[c].new /\ RecordVersion
    <2>1. \A m \in Messages : m = record' => Own(m)
      BY <1>4 DEF SkipInv, Seen
    <2> QED BY <1>1, <1>3, <1>4, <2>1, RecordSkips
  <1>5. CASE UNCHANGED <<record, viewrow, slip>>
    BY <1>1, <1>3, <1>5, StillSkips
  <1> QED BY <1>4, <1>5 DEF Record, stored

LEMMA EditSkips ==
    ASSUME SkipInv, TrackInv', NEW r \in Refreshes, EditOk(r)
    PROVE  SkipInv'
  <1> DEFINE m == refresh[r].id
  <1>1. /\ m \in live /\ UNCHANGED <<version, live, record, click, slash>>
        /\ buttons' = [buttons EXCEPT ![m] = version]
        /\ IF refresh[r].ver # version THEN RecordVersion ELSE UNCHANGED <<viewrow, slip>>
        /\ refresh' = [refresh EXCEPT ![r] = NoRefresh]
    BY DEF EditOk
  <1>2. m \in Messages
    BY <1>1 DEF SkipInv, TrackInv, TypeOK
  <1>3. /\ buttons'[m] = version
        /\ \A n \in Messages \ {m} : buttons'[n] = buttons[n]
    BY <1>1, <1>2 DEF SkipInv, TrackInv, TypeOK
  <1>4. Runs
    BY <1>1, <1>3 DEF Runs, RecordVersion
  <1>5. Known(m) /\ (refresh[r].ver = version => viewrow \in {0, version})
    BY <1>2 DEF SkipInv, Seen
  <1>6. Matched'
    <2>1. CASE refresh[r].ver # version
      <3>1. \A n \in Messages : n = record /\ n \in live => buttons'[n] = version
        BY <1>3, <1>5 DEF Known, Own
      <3> QED BY <1>1, <1>4, <2>1, <3>1, VersionWritten
    <2>2. CASE refresh[r].ver = version
      BY <1>1, <1>3, <1>5, <2>2, MatchedKept DEF SkipInv, TrackInv, TypeOK
    <2> QED BY <2>1, <2>2
  <1>7. \A q \in Refreshes, n \in Messages : refresh'[q].id = n => refresh'[q] = refresh[q]
    BY <1>1, PanelConstants DEF SkipInv, TrackInv, TypeOK, NoRefresh
  <1>8. Seen'
    BY <1>1, <1>4, <1>7, SeenKept
  <1> QED BY <1>6, <1>8 DEF SkipInv

LEMMA OthersSkip ==
    ASSUME SkipInv, TrackInv', Other
    PROVE  SkipInv'
  <1>1. UNCHANGED <<click, version>>
    BY OtherKeepsClicks
  <1>2. ASSUME NEW m \in Posts, NEW ch \in Channels, SlashPost(m, ch) PROVE SkipInv'
    BY <1>1, <1>2, SendSkips DEF SlashPost, stored
  <1>3. CASE SlashRecord
    <2>1. /\ UNCHANGED <<buttons, live, refresh>> /\ slash' = None
          /\ (record' = slash /\ RecordVersion) \/ UNCHANGED <<record, viewrow, slip>>
      BY <1>3 DEF SlashRecord, discord, stored
    <2>2. CASE record' = slash /\ RecordVersion
      <3>1. \A m \in Messages : m = record' => Own(m)
        BY <2>2 DEF SkipInv, Seen
      <3> QED BY <1>1, <2>1, <2>2, <3>1, RecordSkips
    <2>3. CASE UNCHANGED <<record, viewrow, slip>>
      BY <1>1, <2>1, <2>3, StillSkips
    <2> QED BY <2>1, <2>2, <2>3
  <1>4. ASSUME NEW r \in Refreshes, LoadPanel(r) PROVE SkipInv'
    <2>1. /\ UNCHANGED <<buttons, live, record, viewrow, slash, slip>>
          /\ refresh' = [refresh EXCEPT ![r] = [id |-> record, ver |-> viewrow]]
      BY <1>4 DEF LoadPanel, discord, stored
    <2>2. /\ refresh'[r] = [id |-> record, ver |-> viewrow]
          /\ \A q \in Refreshes \ {r} : refresh'[q] = refresh[q]
      BY <2>1 DEF SkipInv, TrackInv, TypeOK
    <2>3. \A q \in Refreshes, m \in Messages : refresh'[q].id = m =>
            \/ refresh'[q] = refresh[q]
            \/ m = record' /\ (refresh'[q].ver = version => viewrow' \in {0, version})
      BY <2>1, <2>2
    <2> QED BY <1>1, <2>1, <2>3, StillSkips
  <1>5. ASSUME NEW r \in Refreshes, EditOk(r) PROVE SkipInv'
    BY <1>5, EditSkips
  <1>6. ASSUME NEW r \in Refreshes, EditGone(r) \/ EditRefused(r) PROVE SkipInv'
    <2>1. /\ UNCHANGED <<buttons, live, slash, slip>>
          /\ refresh' = [refresh EXCEPT ![r] = NoRefresh]
          /\ UNCHANGED <<record, viewrow>> \/ Forget
      BY <1>6 DEF EditGone, EditRefused, discord, stored
    <2>2. \A q \in Refreshes, m \in Messages : refresh'[q].id = m => refresh'[q] = refresh[q]
      BY <2>1, PanelConstants DEF SkipInv, TrackInv, TypeOK, NoRefresh
    <2> QED BY <1>1, <2>1, <2>2, StillSkips
  <1>7. ASSUME NEW m \in Messages, AdminDeletes(m) PROVE SkipInv'
    BY <1>1, <1>7, StillSkips DEF AdminDeletes, stored
  <1>8. CASE BotRemoved
    BY <1>1, <1>8, StillSkips DEF BotRemoved, discord
  <1> QED BY <1>2, <1>3, <1>4, <1>5, <1>6, <1>7, <1>8 DEF Other

LEMMA RestartSkips ==
    ASSUME SkipInv, TrackInv', NEW v \in Versions, Restart(v)
    PROVE  SkipInv'
  <1>1. /\ UNCHANGED <<buttons, live, record, viewrow, slip>> /\ slash' = None
        /\ click' = [c \in Clicks |-> NoClick]
        /\ refresh' = [r \in Refreshes |-> NoRefresh]
    BY DEF Restart, discord, stored
  <1>2. Matched'
    BY <1>1 DEF SkipInv, Matched
  <1>3. Seen'
    BY <1>1, PanelConstants DEF Seen, NoClick, NoRefresh
  <1> QED BY <1>2, <1>3 DEF SkipInv

LEMMA SkipNext == SkipInv /\ [Next]_vars => SkipInv'
  <1> SUFFICES ASSUME SkipInv, [Next]_vars PROVE SkipInv'
    OBVIOUS
  <1>1. TrackInv'
    BY TrackNext DEF SkipInv
  <1>2. CASE UNCHANGED vars
    <2>1. UNCHANGED <<version, buttons, live, record, viewrow, click, slash, refresh, slip>>
      BY <1>2 DEF vars, discord, stored
    <2> QED BY <1>1, <2>1, StillSkips
  <1>3. ASSUME NEW v \in Versions, Restart(v) PROVE SkipInv'
    BY <1>1, <1>3, RestartSkips
  <1>4. CASE Other
    BY <1>1, <1>4, OthersSkip
  <1>5. ASSUME NEW c \in Clicks,
               (\E ch \in Channels : Enter(c, ch)) \/ Check(c) \/ Undo(c) \/ Replace(c)
        PROVE  SkipInv'
    BY <1>1, <1>5, QuietClickSkips
  <1>6. ASSUME NEW c \in Clicks, Probe(c) PROVE SkipInv'
    BY <1>1, <1>6, ProbeSkips
  <1>7. ASSUME NEW c \in Clicks, Post(c) PROVE SkipInv'
    BY <1>1, <1>7, PostSkips
  <1>8. ASSUME NEW c \in Clicks, Record(c) PROVE SkipInv'
    BY <1>1, <1>8, ClickRecordSkips
  <1> QED BY <1>2, <1>3, <1>4, <1>5, <1>6, <1>7, <1>8 DEF Next, Other

LEMMA SkipInvAlways == Spec => []SkipInv
  BY SkipInit, SkipNext, PTL DEF Spec

(***************************************************************************)
(* Every variable keeps its type; in particular a click never records or   *)
(* deletes a message it does not have.                                     *)
(***************************************************************************)
THEOREM PanelsTypeCorrect == Spec => []TypeOK
  BY SkipInvAlways, PTL DEF SkipInv, TrackInv

(***************************************************************************)
(* For any number of clicks, refreshes, slash commands, deletions and      *)
(* restarts: a live message of the bot's is the recorded panel, in the     *)
(* hands of a click, or left for a reason (post_dashboard_panel).          *)
(***************************************************************************)
THEOREM PanelsAreTracked == Spec => []LiveIsTracked
  BY SkipInvAlways, PTL DEF SkipInv, TrackInv

(***************************************************************************)
(* Whatever releases follow one another: as long as no version write was   *)
(* lost, a boot that skips a live panel finds its own buttons on it        *)
(* (record_panel_view_version, probe_instruction_panel).                   *)
(***************************************************************************)
THEOREM SkippedPanelsRoute == Spec => []SkippedIsRoutable
  <1>1. SkipInv => SkippedIsRoutable
    <2> SUFFICES ASSUME SkipInv, ~slip, record \in live, viewrow = version
                 PROVE  buttons[record] = version
      BY DEF SkippedIsRoutable, Skips
    <2>1. record \in Messages /\ viewrow # 0
      BY PanelConstants DEF SkipInv, TrackInv, TypeOK
    <2> QED BY <2>1 DEF SkipInv, Matched
  <1>2. QED
    BY <1>1, SkipInvAlways, PTL

----------------------------------------------------------------------------
(***************************************************************************)
(* The nudge for a missing panel.  Unless the mark of a DM was lost, every  *)
(* clock that runs, and every DM on its way, has a start of its own behind  *)
(* it; a list loaded long ago holds none whose start was spent.             *)
(***************************************************************************)
Running(g) == clock[g] \in {"open", "due"}

Paid(g) ==
    /\ g \in todo => owed[g] >= 1
    /\ Running(g) => owed[g] >= 1
    /\ to = g => owed[g] >= 1
    /\ to = g /\ Running(g) => owed[g] >= 2

NudgeInv == NudgeTypeOK /\ (~unmarked => \A g \in Guilds : Paid(g))

\* A row that goes to the end of the order, or out of it, leaves the others as
\* they were.
Ordering ==
    /\ older \subseteq Rows \X Rows
    /\ \A g, h \in Rows : g # h => (<<g, h>> \in older <=> <<h, g>> \notin older)

LEMMA KeptRows ==
    ASSUME Ordering, UNCHANGED older, Rows' = Rows
    PROVE  Ordering'
  BY DEF Ordering

LEMMA LastRow ==
    ASSUME Ordering, NEW g \in Guilds, clock' = [clock EXCEPT ![g] = "open"],
           clock \in [Guilds -> {"none", "open", "due", "sent"}],
           older' = Without(g) \cup ((Rows \ {g}) \X {g})
    PROVE  Ordering'
  <1>1. Rows' = Rows \cup {g}
    BY DEF Rows
  <1>2. \A a, b \in Rows' : <<a, b>> \in older' <=>
           \/ a # g /\ b # g /\ <<a, b>> \in older
           \/ b = g /\ a # g
    BY <1>1 DEF Without
  <1>3. older' \subseteq Rows' \X Rows'
    BY <1>1 DEF Ordering, Without
  <1>4. ASSUME NEW a \in Rows', NEW b \in Rows', a # b
        PROVE  <<a, b>> \in older' <=> <<b, a>> \notin older'
    <2>1. CASE a # g /\ b # g
      BY <1>1, <1>2, <1>4, <2>1 DEF Ordering
    <2>2. CASE a = g \/ b = g
      BY <1>2, <1>4, <2>2
    <2> QED BY <2>1, <2>2
  <1> QED BY <1>3, <1>4 DEF Ordering

LEMMA NoRow ==
    ASSUME Ordering, NEW g \in Guilds, Forgotten(g),
           clock \in [Guilds -> {"none", "open", "due", "sent"}]
    PROVE  Ordering'
  <1>1. Rows' = Rows \ {g} /\ older' = Without(g)
    BY DEF Rows, Forgotten
  <1>2. \A a, b \in Rows' : <<a, b>> \in older' <=> <<a, b>> \in older
    BY <1>1 DEF Without
  <1>3. older' \subseteq Rows' \X Rows'
    BY <1>1 DEF Ordering, Without
  <1>4. ASSUME NEW a \in Rows', NEW b \in Rows', a # b
        PROVE  <<a, b>> \in older' <=> <<b, a>> \notin older'
    BY <1>1, <1>2, <1>4 DEF Ordering
  <1> QED BY <1>3, <1>4 DEF Ordering

\* A list that only gets shorter stays short.
LEMMA ShorterList ==
    ASSUME NEW S \in SUBSET Guilds, NEW T \in SUBSET S, Cardinality(S) <= Limit
    PROVE  Cardinality(T) <= Limit
  <1>1. IsFiniteSet(S)
    BY NudgeAssumption, FS_Subset
  <1>2. IsFiniteSet(T) /\ Cardinality(T) <= Cardinality(S)
    BY <1>1, FS_Subset
  <1> QED BY <1>1, <1>2, NudgeAssumption, FS_CardinalityType

LEMMA NudgeInvInit == NudgeInit => NudgeInv
  <1> SUFFICES ASSUME NudgeInit PROVE NudgeInv
    OBVIOUS
  <1>1. Cardinality({}) <= Limit
    BY FS_EmptySet, NudgeAssumption
  <1>2. Rows = {}
    BY DEF NudgeInit, Rows
  <1>3. NudgeTypeOK
    <2>1. /\ clock \in [Guilds -> {"none", "open", "due", "sent"}]
          /\ owed \in [Guilds -> 0..2] /\ unmarked \in BOOLEAN
      <3>1. clock \in [Guilds -> {"none", "open", "due", "sent"}]
        BY DEF NudgeInit
      <3>2. owed \in [Guilds -> 0..2]
        BY DEF NudgeInit
      <3>3. unmarked \in BOOLEAN
        BY DEF NudgeInit
      <3> QED BY <3>1, <3>2, <3>3
    <2>2. /\ older \subseteq Rows \X Rows
          /\ \A g, h \in Rows : g # h => (<<g, h>> \in older <=> <<h, g>> \notin older)
      BY <1>2 DEF NudgeInit
    <2>3. /\ present \subseteq Guilds /\ panel \subseteq Guilds
          /\ todo \subseteq Guilds /\ Cardinality(todo) <= Limit
          /\ to \in Guilds \cup {Nobody} /\ to \notin todo
      BY <1>1 DEF NudgeInit
    <2> QED BY <2>1, <2>2, <2>3 DEF NudgeTypeOK
  <1>4. \A g \in Guilds : Paid(g)
    BY NudgeAssumption DEF NudgeInit, Paid, Running
  <1> QED BY <1>3, <1>4 DEF NudgeInv

LEMMA NudgeInvNext == NudgeInv /\ [NudgeNext]_nudgeVars => NudgeInv'
  <1> SUFFICES ASSUME NudgeInv, [NudgeNext]_nudgeVars PROVE NudgeInv'
    OBVIOUS
  <1> DEFINE Clocks == {"none", "open", "due", "sent"}
             PaidAll == ~unmarked => \A g \in Guilds : Paid(g)
  <1>1. NudgeTypeOK /\ Ordering /\ PaidAll
    BY DEF NudgeInv, NudgeTypeOK, Ordering
  <1>2. ASSUME NEW g \in Guilds, Setup(g) PROVE NudgeInv'
    <2>1. Ordering'
      BY <1>1, <1>2, LastRow DEF Setup, NudgeTypeOK
    <2>2. NudgeTypeOK'
      BY <1>1, <1>2, <2>1 DEF Setup, NudgeTypeOK, Ordering, sweep
    <2>3. PaidAll'
      BY <1>1, <1>2 DEF Setup, NudgeTypeOK, Paid, Running, sweep
    <2> QED BY <2>2, <2>3 DEF NudgeInv
  <1>3. ASSUME NEW g \in Guilds, Grace(g) PROVE NudgeInv'
    <2>1. Rows' = Rows
      BY <1>1, <1>3 DEF Grace, Rows, NudgeTypeOK
    <2>2. Ordering'
      BY <1>1, <1>3, <2>1, KeptRows DEF Grace
    <2>3. NudgeTypeOK'
      BY <1>1, <1>3, <2>2 DEF Grace, NudgeTypeOK, Ordering, sweep
    <2>4. PaidAll'
      BY <1>1, <1>3 DEF Grace, NudgeTypeOK, Paid, Running, sweep
    <2> QED BY <2>3, <2>4 DEF NudgeInv
  <1>4. ASSUME NEW g \in Guilds, PanelUp(g) PROVE NudgeInv'
    <2>1. clock' \in [Guilds -> Clocks] /\ Rows' = Rows
      BY <1>1, <1>4 DEF PanelUp, Completed, Rows, NudgeTypeOK
    <2>2. Ordering'
      BY <1>1, <1>4, <2>1, KeptRows DEF PanelUp
    <2>3. NudgeTypeOK'
      BY <1>1, <1>4, <2>1, <2>2 DEF PanelUp, NudgeTypeOK, Ordering, sweep
    <2>4. PaidAll'
      BY <1>1, <1>4 DEF PanelUp, Completed, NudgeTypeOK, Paid, Running, sweep
    <2> QED BY <2>3, <2>4 DEF NudgeInv
  <1>5. ASSUME NEW g \in Guilds, PanelGone(g) \/ Added(g) PROVE NudgeInv'
    <2>1. Ordering'
      BY <1>1, <1>5, KeptRows DEF PanelGone, Added, Rows
    <2>2. NudgeTypeOK'
      BY <1>1, <1>5, <2>1 DEF PanelGone, Added, NudgeTypeOK, Ordering, sweep
    <2>3. PaidAll'
      BY <1>1, <1>5 DEF PanelGone, Added, Paid, Running, sweep
    <2> QED BY <2>2, <2>3 DEF NudgeInv
  <1>6. ASSUME NEW g \in Guilds, Removed(g) PROVE NudgeInv'
    <2>1. Ordering'
      BY <1>1, <1>6, KeptRows, NoRow DEF Removed, Rows, NudgeTypeOK
    <2>2. NudgeTypeOK'
      BY <1>1, <1>6, <2>1 DEF Removed, Forgotten, NudgeTypeOK, Ordering, sweep
    <2>3. PaidAll'
      BY <1>1, <1>6 DEF Removed, Forgotten, NudgeTypeOK, Paid, Running, sweep
    <2> QED BY <2>2, <2>3 DEF NudgeInv
  <1>7. ASSUME Load PROVE NudgeInv'
    <2>1. PICK T \in SUBSET Due : /\ Oldest(T) /\ todo' = T \ panel
                                  /\ clock' = [g \in Guilds |-> IF g \in T \cap panel THEN "sent" ELSE clock[g]]
      BY <1>7 DEF Load, Retired
    <2>2. UNCHANGED <<present, panel, older, to, owed, unmarked>> /\ to = Nobody /\ todo = {}
      BY <1>7 DEF Load
    <2>3. clock' \in [Guilds -> Clocks] /\ Rows' = Rows
      BY <1>1, <2>1 DEF Rows, Due, NudgeTypeOK
    <2>4. Ordering'
      BY <1>1, <2>2, <2>3, KeptRows
    <2>5. todo' \subseteq Guilds /\ Cardinality(todo') <= Limit
      BY <2>1, ShorterList DEF Oldest, Due
    <2>6. NudgeTypeOK'
      BY <1>1, <2>2, <2>3, <2>4, <2>5, NudgeAssumption DEF NudgeTypeOK, Ordering
    <2>7. PaidAll'
      BY <1>1, <2>1, <2>2, NudgeAssumption DEF NudgeTypeOK, Paid, Running, Due
    <2> QED BY <2>6, <2>7 DEF NudgeInv
  <1>8. ASSUME NEW g \in Guilds, Drop(g) PROVE NudgeInv'
    <2>1. Ordering'
      BY <1>1, <1>8, KeptRows, NoRow DEF Drop, Rows, NudgeTypeOK
    <2>2. todo' \subseteq Guilds /\ Cardinality(todo') <= Limit
      BY <1>1, <1>8, ShorterList DEF Drop, NudgeTypeOK
    <2>3. NudgeTypeOK'
      BY <1>1, <1>8, <2>1, <2>2 DEF Drop, Forgotten, NudgeTypeOK, Ordering
    <2>4. PaidAll'
      BY <1>1, <1>8 DEF Drop, Forgotten, NudgeTypeOK, Paid, Running
    <2> QED BY <2>3, <2>4 DEF NudgeInv
  <1>9. ASSUME NEW g \in Guilds, Mark(g) PROVE NudgeInv'
    <2>1. clock' \in [Guilds -> Clocks] /\ Rows' = Rows
      BY <1>1, <1>9 DEF Mark, Completed, Rows, NudgeTypeOK
    <2>2. Ordering'
      BY <1>1, <1>9, <2>1, KeptRows DEF Mark
    <2>3. todo' \subseteq Guilds /\ Cardinality(todo') <= Limit
      BY <1>1, <1>9, ShorterList DEF Mark, NudgeTypeOK
    <2>4. NudgeTypeOK'
      BY <1>1, <1>9, <2>1, <2>2, <2>3 DEF Mark, NudgeTypeOK, Ordering
    <2>5. PaidAll'
      BY <1>1, <1>9, NudgeAssumption DEF Mark, Completed, NudgeTypeOK, Paid, Running
    <2> QED BY <2>4, <2>5 DEF NudgeInv
  <1>10. ASSUME Deliver \/ NotDelivered PROVE NudgeInv'
    <2>1. Ordering'
      BY <1>1, <1>10, KeptRows DEF Deliver, NotDelivered, Rows
    <2>2. NudgeTypeOK'
      BY <1>1, <1>10, <2>1, NudgeAssumption DEF Deliver, NotDelivered, NudgeTypeOK, Ordering
    <2>3. PaidAll'
      BY <1>1, <1>10, NudgeAssumption DEF Deliver, NotDelivered, NudgeTypeOK, Paid, Running
    <2> QED BY <2>2, <2>3 DEF NudgeInv
  <1>11. ASSUME Crash PROVE NudgeInv'
    <2>1. Ordering'
      BY <1>1, <1>11, KeptRows DEF Crash, Rows
    <2>2. Cardinality({}) <= Limit
      BY FS_EmptySet, NudgeAssumption
    <2>3. NudgeTypeOK'
      BY <1>1, <1>11, <2>1, <2>2 DEF Crash, NudgeTypeOK, Ordering
    <2>4. PaidAll'
      BY <1>1, <1>11, NudgeAssumption DEF Crash, Paid, Running
    <2> QED BY <2>3, <2>4 DEF NudgeInv
  <1>12. CASE UNCHANGED nudgeVars
    BY <1>12 DEF nudgeVars, sweep, NudgeInv, NudgeTypeOK, Rows, Paid, Running
  <1> QED BY <1>2, <1>3, <1>4, <1>5, <1>6, <1>7, <1>8, <1>9, <1>10, <1>11, <1>12
          DEF NudgeNext, Sweep

LEMMA NudgeInvAlways == NudgeSpec => []NudgeInv
  BY NudgeInvInit, NudgeInvNext, PTL DEF NudgeSpec

\* The rows of the nudge stay in one order, and no sweep holds more of them
\* than it may send.
THEOREM NudgeTypeCorrect == NudgeSpec => []NudgeTypeOK
  <1>1. NudgeInv => NudgeTypeOK
    BY DEF NudgeInv
  <1> QED BY <1>1, NudgeInvAlways, PTL

\* A clock that the setup command started costs the admin one DM at most, whatever
\* fails, is restarted, or is sent from a list that has gone stale.  (Not a gap
\* without a panel: a setup command run after the DM starts another clock in it.)
THEOREM ClocksAreSpentOnce == NudgeSpec => ClockSpentOnce
  <1>1. NudgeInv => (Deliver => owed[to] > 0 \/ unmarked)
    <2> SUFFICES ASSUME NudgeInv, Deliver, ~unmarked PROVE owed[to] > 0
      OBVIOUS
    <2>1. to \in Guilds /\ owed[to] \in 0..2
      BY DEF NudgeInv, NudgeTypeOK, Deliver
    <2> QED BY <2>1 DEF NudgeInv, Paid
  <1>2. NudgeInv /\ [NudgeNext]_nudgeVars => [Deliver => owed[to] > 0 \/ unmarked]_nudgeVars
    BY <1>1
  <1> QED BY <1>2, NudgeInvAlways, PTL DEF NudgeSpec, ClockSpentOnce

\* The query of a sweep has one answer: the limit leaves no choice between
\* rows, which is what lets a retired row make room for the next one.
THEOREM OldestIsOne ==
    ASSUME NudgeTypeOK, NEW T, NEW U, Oldest(T), Oldest(U)
    PROVE  T = U
  <1>1. IsFiniteSet(Due)
    BY NudgeAssumption, FS_Subset DEF Due
  <1>2. ASSUME NEW A, NEW B, Oldest(A), Oldest(B), A \subseteq B
        PROVE  A = B
    <2>1. A \subseteq Due /\ B \subseteq Due /\ Cardinality(B) <= Limit
      BY <1>2 DEF Oldest
    <2>2. IsFiniteSet(B) /\ Cardinality(B) \in Nat
      BY <1>1, <2>1, FS_Subset, FS_CardinalityType
    <2>3. CASE A = Due
      BY <1>2, <2>1, <2>3
    <2>4. CASE Cardinality(A) = Limit
      <3>1. Cardinality(A) <= Cardinality(B) /\ (Cardinality(A) = Cardinality(B) => A = B)
        BY <1>2, <2>2, FS_Subset
      <3> QED BY <2>1, <2>2, <2>4, <3>1, NudgeAssumption
    <2> QED BY <1>2, <2>3, <2>4 DEF Oldest
  <1>3. CASE T \subseteq U \/ U \subseteq T
    BY <1>2, <1>3
  <1>4. CASE ~(T \subseteq U) /\ ~(U \subseteq T)
    <2>1. PICK x \in T \ U, y \in U \ T : TRUE
      BY <1>4
    <2>2. x \in Due \ U /\ y \in Due \ T /\ x # y
      BY <2>1 DEF Oldest
    <2>3. <<x, y>> \in older /\ <<y, x>> \in older
      BY <2>1, <2>2 DEF Oldest
    <2>4. x \in Rows /\ y \in Rows
      BY <2>2 DEF Due, Rows
    <2> QED BY <2>2, <2>3, <2>4 DEF NudgeTypeOK
  <1> QED BY <1>3, <1>4
=============================================================================
