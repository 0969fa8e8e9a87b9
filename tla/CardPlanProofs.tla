--------------------------- MODULE CardPlanProofs ---------------------------
(***************************************************************************)
(* The card plan, for any number of subscriptions, changes and deliveries:  *)
(* in whatever order and however often Stripe's events come in, the mirror  *)
(* catches up with what it can record, the cache is the mirror's, and no    *)
(* trial is given to a server known to have paid.                           *)
(***************************************************************************)
EXTENDS CardPlan, FiniteSetTheorems, TLAPS

State == [copy : Copies, sec : Nat]

\* The states of a subscription begin one after the other, and are few enough
\* for each to have an event.
Ordered ==
    \A s \in Subs :
      /\ Len(life[s]) <= MaxStates
      /\ \A k \in 1 .. Len(life[s]) : life[s][k].sec >= 1
      /\ \A j, k \in 1 .. Len(life[s]) : j <= k => life[s][j].sec <= life[s][k].sec

\* From its event on, a subscription has had a state that was not to be recorded.
Blurred(e) == \E k \in e[2] .. Len(life[e[1]]) : ~Plain(e[1], k)

\* No event that was recorded or answered is newer than its row, unless such a
\* state came, or the row is another server's, ...
Reflected ==
    \A e \in ledger \cup acked :
      Stamp(e) <= row[e[1]].stamp \/ row[e[1]].server = "theirs" \/ Blurred(e)

\* ... and a row has the stamp of an event and the state of that event or a
\* later one, and is another server's only where a state has named it.
WitnessOf(s, w) == row[s].stamp = life[s][w].sec /\ row[s].state \in w .. Len(life[s])
NamedIn(s) == \E k \in 1 .. Len(life[s]) : life[s][k].copy.server = "theirs"

Witnessed ==
    \A s \in Subs :
      \/ row[s] = NoRow
      \/ /\ \E w \in 1 .. Len(life[s]) : WitnessOf(s, w)
         /\ row[s].server = "ours" \/ (row[s].server = "theirs" /\ NamedIn(s))

\* What is on its way to the bot names a server.
Routed == \A m \in handling : life[m.event[1]][m.event[2]].copy.server # "none"

Mirrored == MirrorTypeOK /\ Ordered /\ Reflected /\ Witnessed /\ Routed

LEMMA StatesTyped ==
    ASSUME NEW q \in Seq(State)
    PROVE  \A k \in 1 .. Len(q) : q[k] \in State /\ q[k].sec \in Nat /\ q[k].copy \in Copies
  <1>1. \A k \in 1 .. Len(q) : q[k] \in State
    OBVIOUS
  <1> QED BY <1>1 DEF State

LEMMA LifeTyped ==
    ASSUME MirrorTypeOK
    PROVE  /\ life \in [Subs -> Seq(State)]
           /\ \A s \in Subs : life[s] \in Seq(State) /\ Len(life[s]) \in Nat
  <1>1. life \in [Subs -> Seq(State)]
    BY DEF MirrorTypeOK, State
  <1> QED BY <1>1

LEMMA FewerThanMax ==
    ASSUME MirrorTypeOK, NEW s \in Subs, Len(life[s]) <= MaxStates,
           Cardinality(Sent) < MaxStates
    PROVE  Len(life[s]) < MaxStates
  <1>1. MaxStates \in Nat /\ Len(life[s]) \in Nat /\ life \in [Subs -> Seq(State)]
    BY LifeTyped, MirrorConstants
  <1> SUFFICES ASSUME Len(life[s]) = MaxStates PROVE FALSE
    BY <1>1
  <1>2. IsFiniteSet(1 .. MaxStates) /\ Cardinality(1 .. MaxStates) = MaxStates
    BY <1>1, FS_Interval
  <1>3. IsFiniteSet(Subs \X (1 .. MaxStates))
    BY <1>2, MirrorConstants, FS_Product
  <1>4. Sent \subseteq Subs \X (1 .. MaxStates)
    BY DEF Sent, Events
  <1>5. IsFiniteSet(Sent)
    BY <1>3, <1>4, FS_Subset
  <1> DEFINE f == [k \in 1 .. MaxStates |-> <<s, k>>]
  <1>6. f \in Injection(1 .. MaxStates, Sent)
    <2>1. \A k \in 1 .. MaxStates : <<s, k>> \in Sent
      BY <1>1 DEF Sent, Events
    <2>2. f \in [1 .. MaxStates -> Sent]
      BY <2>1
    <2>3. \A j, k \in 1 .. MaxStates : f[j] = f[k] => j = k
      OBVIOUS
    <2> QED BY <2>2, <2>3 DEF Injection, IsInjective
  <1>7. Cardinality(1 .. MaxStates) <= Cardinality(Sent)
    BY <1>5, <1>6, FS_Injection
  <1>8. Cardinality(Sent) \in Nat
    BY <1>5, FS_CardinalityType
  <1> QED BY <1>1, <1>2, <1>7, <1>8

\* What Stripe has said stays said.
LEMMA LifeGrows ==
    ASSUME Mirrored, NEW s \in Subs, NEW copy \in Copies, NEW same \in BOOLEAN,
           Change(s, copy, same)
    PROVE  /\ life' \in [Subs -> Seq(State)]
           /\ Len(life'[s]) = Len(life[s]) + 1 /\ Len(life'[s]) <= MaxStates
           /\ \A t \in Subs : /\ Len(life[t]) \in Nat /\ Len(life'[t]) \in Nat
                              /\ Len(life[t]) <= Len(life'[t])
                              /\ \A k \in 1 .. Len(life[t]) : life'[t][k] = life[t][k]
           /\ \A t \in Subs \ {s} : life'[t] = life[t]
           /\ life'[s][Len(life[s]) + 1].sec >= 1
           /\ \A k \in 1 .. Len(life[s]) : life[s][k].sec <= life'[s][Len(life[s]) + 1].sec
           /\ Ordered'
  <1> DEFINE last == IF life[s] = <<>> THEN 0 ELSE life[s][Len(life[s])].sec
             next == [copy |-> copy, sec |-> IF same THEN last ELSE last + 1]
             n == Len(life[s])
  <1>1. life \in [Subs -> Seq(State)] /\ n \in Nat /\ MaxStates \in Nat
    BY LifeTyped, MirrorConstants DEF Mirrored
  <1>0. life[s] \in Seq(State) /\ n \in Nat
    BY <1>1
  <1>15. \A k \in 1 .. n : life[s][k] \in State /\ life[s][k].sec \in Nat
    BY <1>0, StatesTyped
  <1>2. life[s] # <<>> => n >= 1 /\ n \in 1 .. n
    BY <1>1
  <1>3. last \in Nat /\ (life[s] # <<>> => last >= 1)
    <2>1. CASE life[s] = <<>>
      BY <2>1
    <2>2. CASE life[s] # <<>>
      <3>1. n \in 1 .. n
        BY <1>2, <2>2
      <3>2. life[s][n].sec \in Nat /\ life[s][n].sec >= 1
        BY <1>15, <3>1 DEF Mirrored, Ordered
      <3> QED BY <2>2, <3>2
    <2> QED BY <2>1, <2>2
  <1>4. \A k \in 1 .. n : life[s][k].sec <= last
    BY <1>1, <1>2 DEF Mirrored, Ordered
  <1>5. (life[s] = <<>> => ~same) /\ life' = [life EXCEPT ![s] = Append(@, next)]
        /\ Cardinality(Sent) < MaxStates
    BY DEF Change
  <1>6. next \in State /\ next.sec >= 1 /\ next.sec >= last
    BY <1>3, <1>5 DEF State
  <1> HIDE DEF last, next
  <1>7. life'[s] = Append(life[s], next) /\ \A t \in Subs \ {s} : life'[t] = life[t]
    BY <1>1, <1>5
  <1>8. /\ Len(life'[s]) = n + 1 /\ life'[s][n + 1] = next
        /\ \A k \in 1 .. n : life'[s][k] = life[s][k]
    BY <1>1, <1>7
  <1>9. life' \in [Subs -> Seq(State)]
    BY <1>1, <1>5, <1>6
  <1>10. n + 1 <= MaxStates
    <2>1. n <= MaxStates
      BY DEF Mirrored, Ordered
    <2> QED BY <1>1, <1>5, <2>1, FewerThanMax DEF Mirrored
  <1>12. \A k \in 1 .. n : life[s][k].sec <= next.sec
    BY <1>3, <1>4, <1>6, <1>15 DEF State
  <1>13. Ordered'
    <2>1. \A t \in Subs \ {s} :
             /\ Len(life'[t]) <= MaxStates
             /\ \A k \in 1 .. Len(life'[t]) : life'[t][k].sec >= 1
             /\ \A j, k \in 1 .. Len(life'[t]) : j <= k => life'[t][j].sec <= life'[t][k].sec
      BY <1>7 DEF Mirrored, Ordered
    <2>2. \A k \in 1 .. n + 1 : life'[s][k].sec >= 1
      BY <1>1, <1>6, <1>8 DEF Mirrored, Ordered
    <2>3. ASSUME NEW j \in 1 .. n + 1, NEW k \in 1 .. n + 1, j <= k
          PROVE  life'[s][j].sec <= life'[s][k].sec
      <3>1. CASE k \in 1 .. n
        <4>1. j \in 1 .. n
          BY <1>0, <2>3, <3>1
        <4>2. life[s][j].sec <= life[s][k].sec
          BY <2>3, <3>1, <4>1 DEF Mirrored, Ordered
        <4>3. life'[s][j] = life[s][j] /\ life'[s][k] = life[s][k]
          BY <1>8, <3>1, <4>1
        <4> QED BY <4>2, <4>3
      <3>2. CASE k = n + 1 /\ j \in 1 .. n
        BY <1>8, <1>12, <3>2
      <3>3. CASE k = n + 1 /\ j = n + 1
        BY <1>6, <1>8, <3>3 DEF State
      <3> QED BY <1>1, <2>3, <3>1, <3>2, <3>3
    <2>4. \A t \in Subs : t = s \/ t \in Subs \ {s}
      OBVIOUS
    <2> QED BY <1>8, <1>10, <2>1, <2>2, <2>3, <2>4 DEF Ordered
  <1> HIDE DEF n
  <1>14. \A t \in Subs : /\ Len(life[t]) \in Nat /\ Len(life'[t]) \in Nat
                         /\ Len(life[t]) <= Len(life'[t])
                         /\ \A k \in 1 .. Len(life[t]) : life'[t][k] = life[t][k]
    <2>1. \A t \in Subs : Len(life[t]) \in Nat /\ Len(life'[t]) \in Nat
      BY <1>1, <1>9
    <2>2. \A t \in Subs \ {s} : /\ Len(life[t]) <= Len(life'[t])
                             /\ \A k \in 1 .. Len(life[t]) : life'[t][k] = life[t][k]
      BY <1>7, <2>1
    <2>3. n <= Len(life'[s]) /\ \A k \in 1 .. n : life'[s][k] = life[s][k]
      BY <1>0, <1>8
    <2> QED BY <2>1, <2>2, <2>3 DEF n
  <1> QED BY <1>6, <1>7, <1>8, <1>9, <1>10, <1>12, <1>13, <1>14 DEF n

-----------------------------------------------------------------------------
\* The mirror keeps up.

LEMMA StampsAreNats ==
    ASSUME MirrorTypeOK, Ordered
    PROVE  \A e \in Sent : /\ e[1] \in Subs /\ e[2] \in 1 .. Len(life[e[1]])
                           /\ Stamp(e) \in Nat /\ Stamp(e) >= 1
  <1> SUFFICES ASSUME NEW e \in Sent
               PROVE  /\ e[1] \in Subs /\ e[2] \in 1 .. Len(life[e[1]])
                      /\ Stamp(e) \in Nat /\ Stamp(e) >= 1
    OBVIOUS
  <1>1. e[1] \in Subs /\ e[2] \in 1 .. MaxStates /\ e[2] <= Len(life[e[1]])
    BY DEF Sent, Events
  <1>2. life[e[1]] \in Seq(State)
    BY <1>1 DEF MirrorTypeOK, State
  <1>3. e[2] \in 1 .. Len(life[e[1]])
    BY <1>1, <1>2, MirrorConstants
  <1>4. life[e[1]][e[2]] \in State
    BY <1>2, <1>3
  <1> QED BY <1>1, <1>3, <1>4 DEF Stamp, Ordered, State

LEMMA ChangeKeeps ==
    ASSUME Mirrored, NEW s \in Subs, NEW copy \in Copies, NEW same \in BOOLEAN,
           Change(s, copy, same)
    PROVE  Mirrored' /\ Sent \subseteq Sent'
  <1>1. /\ life' \in [Subs -> Seq(State)] /\ Ordered'
        /\ \A t \in Subs : /\ Len(life[t]) \in Nat /\ Len(life'[t]) \in Nat
                           /\ Len(life[t]) <= Len(life'[t])
                           /\ \A k \in 1 .. Len(life[t]) : life'[t][k] = life[t][k]
    BY LifeGrows
  <1>2. UNCHANGED <<lapsed, acked, handling, ledger, row>>
    BY DEF Change, mirror
  <1>3. Sent \subseteq Sent'
    BY <1>1, MirrorConstants DEF Sent, Events
  <1>4. \A e \in Sent : Stamp(e)' = Stamp(e)
    BY <1>1, StampsAreNats DEF Mirrored, Stamp
  <1>5. MirrorTypeOK'
    <2>1. \A m \in handling : m.event \in Sent' /\ m.state \in m.event[2] .. Len(life'[m.event[1]])
      <3> SUFFICES ASSUME NEW m \in handling
                   PROVE  m.event \in Sent' /\ m.state \in m.event[2] .. Len(life'[m.event[1]])
        OBVIOUS
      <3>1. m.event \in Sent /\ m.state \in m.event[2] .. Len(life[m.event[1]])
        BY DEF Mirrored, MirrorTypeOK
      <3>2. m.event[1] \in Subs /\ m.event[2] \in 1 .. Len(life[m.event[1]])
        BY <3>1, StampsAreNats DEF Mirrored
      <3> QED BY <1>1, <1>3, <3>1, <3>2
    <2>2. \A t \in Subs : row[t].state <= Len(life'[t])
      BY <1>1 DEF Mirrored, MirrorTypeOK
    <2> QED BY <1>1, <1>2, <1>3, <2>1, <2>2 DEF Mirrored, MirrorTypeOK, State
  <1>6. Reflected'
    <2> SUFFICES ASSUME NEW e \in ledger \cup acked
                 PROVE  Stamp(e)' <= row[e[1]].stamp \/ row[e[1]].server = "theirs" \/ Blurred(e)'
      BY <1>2 DEF Reflected
    <2>1. e \in Sent /\ (Stamp(e) <= row[e[1]].stamp \/ row[e[1]].server = "theirs" \/ Blurred(e))
      BY DEF Mirrored, MirrorTypeOK, Reflected
    <2>2. ASSUME Blurred(e) PROVE Blurred(e)'
      <3>1. e[1] \in Subs /\ e[2] \in 1 .. Len(life[e[1]])
        BY <2>1, StampsAreNats DEF Mirrored
      <3>2. PICK k \in e[2] .. Len(life[e[1]]) : ~Plain(e[1], k)
        BY <2>2 DEF Blurred
      <3>3. k \in 1 .. Len(life[e[1]]) /\ k \in e[2] .. Len(life'[e[1]])
        BY <1>1, <3>1
      <3>4. life'[e[1]][k] = life[e[1]][k]
        BY <1>1, <3>1, <3>3
      <3> QED BY <3>2, <3>3, <3>4 DEF Blurred, Plain
    <2> QED BY <1>4, <2>1, <2>2
  <1>7. Witnessed'
    <2> SUFFICES ASSUME NEW t \in Subs, row[t] # NoRow
                 PROVE  /\ \E w \in 1 .. Len(life'[t]) : WitnessOf(t, w)'
                        /\ row[t].server = "ours" \/ (row[t].server = "theirs" /\ NamedIn(t)')
      BY <1>2 DEF Witnessed
    <2>1. PICK w \in 1 .. Len(life[t]) :
            row[t].stamp = life[t][w].sec /\ row[t].state \in w .. Len(life[t])
      BY DEF Mirrored, Witnessed, WitnessOf
    <2>2. w \in 1 .. Len(life'[t]) /\ life'[t][w] = life[t][w]
          /\ w .. Len(life[t]) \subseteq w .. Len(life'[t])
      BY <1>1
    <2>3. WitnessOf(t, w)'
      BY <1>2, <2>1, <2>2 DEF WitnessOf
    <2>4. NamedIn(t) => NamedIn(t)'
      <3> SUFFICES ASSUME NEW k \in 1 .. Len(life[t]), life[t][k].copy.server = "theirs"
                   PROVE  NamedIn(t)'
        BY DEF NamedIn
      <3>1. k \in 1 .. Len(life'[t]) /\ life'[t][k] = life[t][k]
        BY <1>1
      <3> QED BY <3>1 DEF NamedIn
    <2>5. row[t].server = "ours" \/ (row[t].server = "theirs" /\ NamedIn(t))
      BY DEF Mirrored, Witnessed
    <2> QED BY <2>2, <2>3, <2>4, <2>5
  <1>8. Routed'
    <2> SUFFICES ASSUME NEW m \in handling
                 PROVE  life'[m.event[1]][m.event[2]].copy.server # "none"
      BY <1>2 DEF Routed
    <2>1. m.event[1] \in Subs /\ m.event[2] \in 1 .. Len(life[m.event[1]])
      BY StampsAreNats DEF Mirrored, MirrorTypeOK
    <2>2. life'[m.event[1]][m.event[2]] = life[m.event[1]][m.event[2]]
      BY <1>1, <2>1
    <2> QED BY <2>2 DEF Mirrored, Routed
  <1> QED BY <1>1, <1>3, <1>5, <1>6, <1>7, <1>8 DEF Mirrored

\* Nothing is to be shown of the past where nothing of it changes.
LEMMA SameHistory ==
    ASSUME Mirrored, UNCHANGED <<life, row>>, ledger' \cup acked' \subseteq ledger \cup acked
    PROVE  Ordered' /\ Reflected' /\ Witnessed'
  <1>1. Ordered'
    BY DEF Mirrored, Ordered
  <1>2. Reflected'
    BY DEF Mirrored, Reflected, Stamp, Blurred, Plain
  <1>3. Witnessed'
    BY DEF Mirrored, Witnessed, WitnessOf, NamedIn
  <1> QED BY <1>1, <1>2, <1>3

LEMMA SameTypes ==
    ASSUME MirrorTypeOK, UNCHANGED <<life, acked, ledger, row>>, lapsed' \in [Subs -> Nat],
           handling' \subseteq handling
    PROVE  MirrorTypeOK'
  <1>1. Sent' = Sent
    BY DEF Sent, Events
  <1> QED BY <1>1 DEF MirrorTypeOK

LEMMA SameMirror ==
    ASSUME Mirrored, UNCHANGED mirrorVars
    PROVE  Mirrored'
  <1>1. UNCHANGED <<life, lapsed, acked, handling, ledger, row>>
    BY DEF mirrorVars, stripe, mirror
  <1>2. Ordered' /\ Reflected' /\ Witnessed'
    BY <1>1, SameHistory
  <1>3. MirrorTypeOK'
    <2>1. lapsed' \in [Subs -> Nat] /\ MirrorTypeOK
      BY <1>1 DEF Mirrored, MirrorTypeOK
    <2> QED BY <1>1, <2>1, SameTypes
  <1>4. Routed'
    BY <1>1 DEF Mirrored, Routed
  <1> QED BY <1>2, <1>3, <1>4 DEF Mirrored

LEMMA DeliverKeeps ==
    ASSUME Mirrored, NEW e \in Events, Deliver(e)
    PROVE  Mirrored'
  <1>1. e \in Sent /\ UNCHANGED <<life, lapsed, acked, ledger, row>>
        /\ handling' = handling \cup {[event |-> e, state |-> Len(life[e[1]])]}
    BY DEF Deliver, Fetched, stripe, mirror
  <1>2. e[1] \in Subs /\ e[2] \in 1 .. Len(life[e[1]]) /\ Len(life[e[1]]) \in Nat
    BY <1>1, StampsAreNats, LifeTyped DEF Mirrored
  <1>3. Len(life[e[1]]) \in e[2] .. Len(life[e[1]])
    BY <1>2
  <1>7. Sent' = Sent
    BY <1>1 DEF Sent, Events
  <1>4. MirrorTypeOK'
    <2> DEFINE d == [event |-> e, state |-> Len(life[e[1]])]
    <2>1. \A m \in handling : m.event \in Sent /\ m.state \in m.event[2] .. Len(life[m.event[1]])
      BY DEF Mirrored, MirrorTypeOK
    <2>2. d.event \in Sent /\ d.state \in d.event[2] .. Len(life[d.event[1]])
      BY <1>1, <1>3
    <2>3. handling' = handling \cup {d}
      BY <1>1
    <2> HIDE DEF d
    <2>4. \A m \in handling' : m.event \in Sent /\ m.state \in m.event[2] .. Len(life[m.event[1]])
      BY <2>1, <2>2, <2>3
    <2> QED BY <1>1, <1>7, <2>4 DEF Mirrored, MirrorTypeOK
  <1>5. Ordered' /\ Reflected' /\ Witnessed'
    BY <1>1, SameHistory
  <1>6. Routed'
    <2>1. life[e[1]][e[2]].copy.server # "none"
      BY DEF Deliver, Unroutable
    <2>2. \A m \in handling' : m \in handling \/ m.event = e
      BY <1>1
    <2> QED BY <1>1, <2>1, <2>2 DEF Mirrored, Routed
  <1> QED BY <1>4, <1>5, <1>6 DEF Mirrored

\* What is answered and not stored has a state that could not be.
LEMMA IgnoreKeeps ==
    ASSUME Mirrored, NEW e \in Events, Ignore(e)
    PROVE  Mirrored'
  <1>1. e \in Sent /\ acked' = acked \cup {e}
        /\ UNCHANGED <<life, lapsed, handling, ledger, row>>
    BY DEF Ignore, stripe, mirror
  <1>2. e[1] \in Subs /\ e[2] \in 1 .. Len(life[e[1]]) /\ Len(life[e[1]]) \in Nat
    BY <1>1, StampsAreNats, LifeTyped DEF Mirrored
  <1>3. Blurred(e)
    <2>1. e[2] \in e[2] .. Len(life[e[1]]) /\ Len(life[e[1]]) \in e[2] .. Len(life[e[1]])
      BY <1>2
    <2>2. CASE Unroutable(e)
      BY <2>1, <2>2 DEF Unroutable, Blurred, Plain
    <2>3. CASE Incomplete(e)
      BY <2>1, <2>3 DEF Incomplete, Fetched, Blurred, Plain
    <2> QED BY <2>2, <2>3 DEF Ignore
  <1>6. Sent' = Sent
    BY <1>1 DEF Sent, Events
  <1>7. MirrorTypeOK'
    BY <1>1, <1>6 DEF Mirrored, MirrorTypeOK
  <1>4. Ordered' /\ Witnessed' /\ Routed'
    BY <1>1 DEF Mirrored, Ordered, Witnessed, WitnessOf, NamedIn, Routed
  <1>5. Reflected'
    BY <1>1, <1>3 DEF Mirrored, Reflected, Stamp, Blurred, Plain
  <1> QED BY <1>4, <1>5, <1>7 DEF Mirrored

\* A write that fails is not answered, and leaves nothing.
LEMMA FailureKeeps ==
    ASSUME Mirrored, NEW m \in handling, WriteFails(m)
    PROVE  Mirrored'
  <1>1. UNCHANGED <<life, lapsed, acked, ledger, row>> /\ handling' \subseteq handling
    BY DEF WriteFails, Answer2xx, ApiStatus, LedgerAfterFailure, stripe
  <1>2. Ordered' /\ Reflected' /\ Witnessed'
    BY <1>1, SameHistory
  <1>3. MirrorTypeOK'
    <2>1. lapsed' \in [Subs -> Nat] /\ MirrorTypeOK
      BY <1>1 DEF Mirrored, MirrorTypeOK
    <2> QED BY <1>1, <2>1, SameTypes
  <1>4. Routed'
    BY <1>1 DEF Mirrored, Routed
  <1> QED BY <1>2, <1>3, <1>4 DEF Mirrored

\* The server a delivery is written for has been named since its event.
LEMMA NamedServer ==
    ASSUME Mirrored, NEW m \in handling
    PROVE  /\ m.event[1] \in Subs /\ m.event[2] \in 1 .. Len(life[m.event[1]])
           /\ m.state \in m.event[2] .. Len(life[m.event[1]])
           /\ ServerFor(m.event, m.state) \in {"ours", "theirs"}
           /\ ServerFor(m.event, m.state) = "theirs" =>
                NamedIn(m.event[1]) /\ Blurred(m.event)
  <1> DEFINE s == m.event[1]
             n == m.event[2]
             st == m.state
  <1>1. m.event \in Sent /\ st \in n .. Len(life[s])
    BY DEF Mirrored, MirrorTypeOK
  <1>2. s \in Subs /\ n \in 1 .. Len(life[s]) /\ Len(life[s]) \in Nat
    BY <1>1, StampsAreNats, LifeTyped DEF Mirrored
  <1>3. st \in 1 .. Len(life[s]) /\ n \in n .. Len(life[s])
    BY <1>1, <1>2
  <1>4. life[s] \in Seq(State)
    BY <1>2 DEF Mirrored, MirrorTypeOK, State
  <1>5. \A k \in 1 .. Len(life[s]) : life[s][k].copy.server \in Servers
    BY <1>4, StatesTyped, MirrorConstants
  <1>6. life[s][n].copy.server # "none"
    BY DEF Mirrored, Routed
  <1>7. ServerFor(m.event, m.state) = IF life[s][st].copy.server = "none"
                                      THEN life[s][n].copy.server ELSE life[s][st].copy.server
    BY DEF ServerFor
  <1>8. ServerFor(m.event, m.state) \in {"ours", "theirs"}
    BY <1>2, <1>3, <1>5, <1>6, <1>7 DEF Servers
  <1>9. ASSUME ServerFor(m.event, m.state) = "theirs" PROVE NamedIn(s) /\ Blurred(m.event)
    <2>1. PICK k \in {st, n} : life[s][k].copy.server = "theirs"
      BY <1>7, <1>9
    <2>2. k \in 1 .. Len(life[s]) /\ k \in n .. Len(life[s])
      BY <1>1, <1>2, <1>3
    <2> QED BY <2>1, <2>2 DEF NamedIn, Blurred, Plain
  <1> QED BY <1>1, <1>2, <1>8, <1>9

\* A write that completes brings the row up to its event, or finds it there, or
\* could not.
LEMMA WriteKeeps ==
    ASSUME Mirrored, NEW m \in handling, NEW heard \in BOOLEAN,
           NEW old \in SUBSET Settled, Write(m, heard, old)
    PROVE  Mirrored'
  <1> DEFINE s == m.event[1]
             server == ServerFor(m.event, m.state)
  <1>1. m.event \in Sent /\ m.state \in m.event[2] .. Len(life[s])
    BY DEF Mirrored, MirrorTypeOK
  <1>2. s \in Subs /\ m.event[2] \in 1 .. Len(life[s]) /\ Stamp(m.event) \in Nat
        /\ Stamp(m.event) = life[s][m.event[2]].sec /\ Len(life[s]) \in Nat
    BY <1>1, StampsAreNats, LifeTyped DEF Mirrored, Stamp
  <1>3. /\ UNCHANGED <<life, lapsed>> /\ handling' \subseteq handling
        /\ ledger' \subseteq ledger \cup {m.event} /\ acked' \subseteq acked \cup {m.event}
        /\ row' = IF Applies(m) THEN [row EXCEPT ![s] = Stored(m)] ELSE row
    BY DEF Write, stripe
  <1>4. row \in [Subs -> [state : Nat, stamp : Nat, server : Servers]]
    BY DEF Mirrored, MirrorTypeOK
  <1>5. m.state \in Nat /\ m.state \in 1 .. Len(life[s])
    BY <1>1, <1>2
  <1>15. server \in {"ours", "theirs"} /\ (server = "theirs" => NamedIn(s) /\ Blurred(m.event))
    BY NamedServer
  <1>6. Stored(m) \in [state : Nat, stamp : Nat, server : Servers] /\ Stored(m).state = m.state
        /\ Stored(m).stamp = Stamp(m.event) /\ Stored(m).server = server
    BY <1>2, <1>5, <1>15 DEF Stored, Servers
  <1> HIDE DEF server
  <1>7. \A t \in Subs : /\ row[t].stamp <= row'[t].stamp
                        /\ row[t].server = "theirs" => row'[t].server = "theirs"
    <2>1. CASE Applies(m)
      <3>1. row[s].stamp < Stamp(m.event) /\ row[s].stamp \in Nat
            /\ row[s].server \in {"none", server}
        BY <1>2, <1>4, <2>1 DEF Applies, Newer, OwnRow, server
      <3>2. row'[s].stamp = Stamp(m.event) /\ row'[s].server = server
            /\ \A t \in Subs \ {s} : row'[t] = row[t]
        BY <1>2, <1>3, <1>4, <1>6, <2>1
      <3>3. \A t \in Subs : row[t].stamp \in Nat
        BY <1>4
      <3>4. row[s].stamp <= row'[s].stamp
            /\ (row[s].server = "theirs" => row'[s].server = "theirs")
        BY <1>2, <3>1, <3>2
      <3>5. \A t \in Subs \ {s} : /\ row[t].stamp <= row'[t].stamp
                                  /\ row[t].server = "theirs" => row'[t].server = "theirs"
        BY <3>2, <3>3
      <3> QED BY <3>4, <3>5
    <2>2. CASE ~Applies(m)
      BY <1>3, <1>4, <2>2
    <2> QED BY <2>1, <2>2
  <1>8. Stamp(m.event) <= row'[s].stamp \/ row'[s].server = "theirs" \/ Blurred(m.event)
    <2>1. CASE Applies(m)
      BY <1>2, <1>3, <1>4, <1>6, <2>1
    <2>2. CASE m.event \in ledger
      <3>1. Stamp(m.event) <= row[s].stamp \/ row[s].server = "theirs" \/ Blurred(m.event)
        BY <2>2 DEF Mirrored, Reflected
      <3>2. row'[s] = row[s]
        BY <1>3, <2>2 DEF Applies
      <3> QED BY <3>1, <3>2
    <2>3. CASE ~Newer(m) /\ ~Applies(m)
      <3>1. row[s].stamp \in Nat /\ row'[s] = row[s] /\ ~(Stamp(m.event) > row[s].stamp)
        BY <1>2, <1>3, <1>4, <2>3 DEF Newer
      <3> QED BY <1>2, <3>1
    <2>4. CASE ~OwnRow(m) /\ ~Applies(m)
      <3>1. row'[s] = row[s] /\ row[s].server \in {"ours", "theirs"} /\ row[s].server # server
        BY <1>2, <1>3, <1>4, <2>4 DEF OwnRow, server, Servers
      <3> QED BY <1>15, <3>1
    <2> QED BY <2>1, <2>2, <2>3, <2>4 DEF Applies
  <1>9. Sent' = Sent /\ (\A e \in Sent : Stamp(e)' = Stamp(e)) /\ \A e \in Sent : Blurred(e)' = Blurred(e)
    BY <1>3 DEF Sent, Events, Stamp, Blurred, Plain
  <1>10. row' \in [Subs -> [state : Nat, stamp : Nat, server : Servers]]
    BY <1>3, <1>4, <1>6
  <1>11. MirrorTypeOK'
    <2>1. \A t \in Subs : row'[t].state <= Len(life[t])
      <3>1. \A t \in Subs : row[t].state <= Len(life[t])
        BY DEF Mirrored, MirrorTypeOK
      <3> QED BY <1>2, <1>3, <1>4, <1>5, <1>6, <3>1
    <2> QED BY <1>1, <1>3, <1>9, <1>10, <2>1 DEF Mirrored, MirrorTypeOK
  <1>12. Reflected'
    <2> SUFFICES ASSUME NEW e \in ledger' \cup acked'
                 PROVE  Stamp(e)' <= row'[e[1]].stamp \/ row'[e[1]].server = "theirs" \/ Blurred(e)'
      BY DEF Reflected
    <2>1. CASE e = m.event
      BY <1>1, <1>8, <1>9, <2>1
    <2>2. CASE e \in ledger \cup acked
      <3>1. e \in Sent /\ (Stamp(e) <= row[e[1]].stamp \/ row[e[1]].server = "theirs" \/ Blurred(e))
        BY <2>2 DEF Mirrored, MirrorTypeOK, Reflected
      <3>2. e[1] \in Subs /\ Stamp(e) \in Nat
        BY <3>1, StampsAreNats DEF Mirrored
      <3>3. row[e[1]].stamp \in Nat /\ row'[e[1]].stamp \in Nat
        BY <1>4, <1>10, <3>2
      <3>4. /\ row[e[1]].stamp <= row'[e[1]].stamp
            /\ row[e[1]].server = "theirs" => row'[e[1]].server = "theirs"
        BY <1>7, <3>2
      <3>5. Stamp(e) <= row[e[1]].stamp => Stamp(e)' <= row'[e[1]].stamp
        BY <1>9, <3>1, <3>2, <3>3, <3>4
      <3> QED BY <1>9, <3>1, <3>4, <3>5
    <2> QED BY <1>3, <2>1, <2>2
  <1>13. Witnessed'
    <2>1. CASE Applies(m)
      <3>1. row'[s] = Stored(m) /\ \A t \in Subs \ {s} : row'[t] = row[t]
        BY <1>2, <1>3, <1>4, <2>1
      <3>2. WitnessOf(s, m.event[2])'
        BY <1>1, <1>2, <1>3, <1>6, <3>1 DEF WitnessOf
      <3>3. row'[s].server = "ours" \/ (row'[s].server = "theirs" /\ NamedIn(s)')
        BY <1>3, <1>6, <1>15, <3>1 DEF NamedIn
      <3>4. \E w \in 1 .. Len(life'[s]) : WitnessOf(s, w)'
        BY <1>2, <1>3, <3>2
      <3>5. ASSUME NEW t \in Subs \ {s}, row'[t] # NoRow
            PROVE  /\ \E w \in 1 .. Len(life'[t]) : WitnessOf(t, w)'
                   /\ row'[t].server = "ours" \/ (row'[t].server = "theirs" /\ NamedIn(t)')
        BY <1>3, <3>1, <3>5 DEF Mirrored, Witnessed, WitnessOf, NamedIn
      <3> HIDE DEF s
      <3> QED BY <3>3, <3>4, <3>5 DEF Witnessed
    <2>2. CASE ~Applies(m)
      BY <1>3, <2>2 DEF Mirrored, Witnessed, WitnessOf, NamedIn
    <2> QED BY <2>1, <2>2
  <1>14. Ordered' /\ Routed'
    BY <1>3 DEF Mirrored, Ordered, Routed
  <1> QED BY <1>11, <1>12, <1>13, <1>14 DEF Mirrored

\* The row a subscription has when its last event is answered.
LEMMA MirroredCatchesUp == Mirrored => MirrorCatchesUp
  <1> SUFFICES ASSUME Mirrored, NEW s \in Subs, Len(life[s]) > 0,
                      <<s, Len(life[s])>> \in acked, Plain(s, Len(life[s])),
                      \A k \in 1 .. Len(life[s]) : life[s][k].copy.server # "theirs"
               PROVE  /\ row[s].state \in 1 .. Len(life[s])
                      /\ life[s][row[s].state].sec = life[s][Len(life[s])].sec
    BY DEF MirrorCatchesUp
  <1> DEFINE n == Len(life[s])
  <1>1. /\ life[s] \in Seq(State) /\ n \in Nat
        /\ row[s] \in [state : Nat, stamp : Nat, server : Servers]
    BY LifeTyped DEF Mirrored, MirrorTypeOK
  <1>2. \A k \in 1 .. n : life[s][k].sec \in Nat
    BY <1>1, StatesTyped
  <1>3. life[s][n].sec >= 1 /\ life[s][n].sec \in Nat /\ n \in 1 .. n
    BY <1>1, <1>2 DEF Mirrored, Ordered
  <1>4. ~Blurred(<<s, n>>)
    BY <1>1 DEF Blurred
  <1>5. row[s].server # "theirs"
    BY DEF Mirrored, Witnessed, NamedIn, NoRow
  <1>6. life[s][n].sec <= row[s].stamp
    BY <1>4, <1>5 DEF Mirrored, Reflected, Stamp
  <1>7. row[s] # NoRow
    BY <1>1, <1>3, <1>6 DEF NoRow
  <1>8. PICK w \in 1 .. n : row[s].stamp = life[s][w].sec /\ row[s].state \in w .. n
    BY <1>7 DEF Mirrored, Witnessed, WitnessOf
  <1>9. row[s].state \in 1 .. n
    BY <1>1, <1>8
  <1>10. life[s][w].sec <= life[s][row[s].state].sec /\ life[s][row[s].state].sec <= life[s][n].sec
    BY <1>1, <1>3, <1>8, <1>9 DEF Mirrored, Ordered
  <1>11. life[s][row[s].state].sec \in Nat /\ life[s][w].sec \in Nat
    BY <1>2, <1>8, <1>9
  <1> QED BY <1>3, <1>6, <1>8, <1>9, <1>10, <1>11

-----------------------------------------------------------------------------
\* The bot's view.

PlanTypes ==
    /\ card \in Caches
    /\ guessed \in BOOLEAN /\ held \in BOOLEAN /\ seen \in BOOLEAN
    /\ deal \in [Subs -> {"none", "trial", "full"}]

Inv == Mirrored /\ PlanTypes /\ CardCacheIsRow

LEMMA InvInit == Init => Inv
  <1> SUFFICES ASSUME Init PROVE Inv
    OBVIOUS
  <1>1. \A s \in Subs : life[s] = <<>> /\ Len(life[s]) = 0 /\ row[s] = NoRow
    BY DEF Init, MirrorInit
  <1>2. life \in [Subs -> Seq([copy : Copies, sec : Nat])]
    BY DEF Init, MirrorInit
  <1>3. MirrorTypeOK
    BY <1>1, <1>2 DEF Init, MirrorInit, MirrorTypeOK, NoRow, Servers
  <1>4. Ordered /\ Reflected /\ Witnessed /\ Routed
    BY <1>1, MirrorConstants DEF Init, MirrorInit, Ordered, Reflected, Witnessed, Routed
  <1>5. PlanTypes
    BY DEF Init, PlanTypes, Caches, Empty
  <1>6. CardCacheIsRow
    BY DEF Init, CardCacheIsRow, Empty
  <1> QED BY <1>3, <1>4, <1>5, <1>6 DEF Inv, Mirrored

\* What the bot finds paid is found in states Stripe has made.
LEMMA PaidStates ==
    ASSUME Mirrored
    PROVE  \A s \in Subs : /\ row[s].state \in Nat /\ lapsed[s] \in Nat
                           /\ Len(life[s]) \in Nat /\ row[s].state <= Len(life[s])
                           /\ RowPaid(s) => row[s].state \in 1 .. Len(life[s])
  BY DEF Mirrored, MirrorTypeOK, RowPaid

LEMMA ChangeLeavesPaid ==
    ASSUME Inv, NEW s \in Subs, NEW copy \in Copies, NEW same \in BOOLEAN,
           Change(s, copy, same), UNCHANGED planVars
    PROVE  Inv'
  <1>1. Mirrored'
    BY ChangeKeeps DEF Inv
  <1>2. UNCHANGED <<lapsed, row>>
    BY DEF Change, mirror
  <1>3. \A t \in Subs : /\ Len(life[t]) \in Nat
                        /\ \A k \in 1 .. Len(life[t]) : life'[t][k] = life[t][k]
    BY LifeGrows DEF Inv
  <1>4. \A t \in Subs : RowPaid(t)' = RowPaid(t)
    <2> SUFFICES ASSUME NEW t \in Subs PROVE RowPaid(t)' = RowPaid(t)
      OBVIOUS
    <2>1. row[t].state \in Nat /\ lapsed[t] \in Nat /\ row[t].state <= Len(life[t])
          /\ Len(life[t]) \in Nat
      BY PaidStates DEF Inv
    <2>2. row[t].state > lapsed[t] => life'[t][row[t].state] = life[t][row[t].state]
      BY <1>3, <2>1
    <2> QED BY <1>2, <2>2 DEF RowPaid
  <1>5. CardPaid' = CardPaid
    BY <1>4 DEF CardPaid
  <1>6. CardCacheIsRow'
    BY <1>2, <1>5 DEF Inv, CardCacheIsRow, Overdue, planVars
  <1> QED BY <1>1, <1>6 DEF Inv, PlanTypes, planVars

LEMMA LapseKeeps ==
    ASSUME Inv, NEW s \in Subs, Lapse(s), UNCHANGED planVars
    PROVE  Inv'
  <1>1. /\ lapsed' = [lapsed EXCEPT ![s] = Len(life[s])] /\ lapsed[s] < Len(life[s])
        /\ UNCHANGED <<life, acked, handling, ledger, row>>
    BY DEF Lapse, mirror
  <1>2. \A t \in Subs : /\ row[t].state \in Nat /\ lapsed[t] \in Nat /\ Len(life[t]) \in Nat
                        /\ row[t].state <= Len(life[t])
    BY PaidStates DEF Inv
  <1>3. lapsed' \in [Subs -> Nat]
    BY <1>1, <1>2 DEF Inv, Mirrored, MirrorTypeOK
  <1>4. Mirrored'
    <2>1. MirrorTypeOK' /\ Routed'
      <3>1. MirrorTypeOK
        BY DEF Inv, Mirrored
      <3>2. MirrorTypeOK'
        BY <1>1, <1>3, <3>1, SameTypes
      <3> QED BY <1>1, <3>2 DEF Inv, Mirrored, Routed
    <2>2. Ordered' /\ Reflected' /\ Witnessed'
      BY <1>1, SameHistory DEF Inv
    <2> QED BY <2>1, <2>2 DEF Mirrored
  <1>5. \A t \in Subs : lapsed[t] <= lapsed'[t] /\ lapsed'[t] \in Nat
    BY <1>1, <1>2, <1>3 DEF Inv, Mirrored, MirrorTypeOK
  <1>6. \A t \in Subs : RowPaid(t)' => RowPaid(t)
    BY <1>1, <1>2, <1>5 DEF RowPaid
  <1>7. \A t \in Subs : RowPaid(t) /\ ~RowPaid(t)' => Overdue(t)'
    BY <1>1, <1>2, <1>5 DEF RowPaid, Overdue
  <1>8. \A t \in Subs : Overdue(t) => Overdue(t)'
    BY <1>1, <1>2, <1>5 DEF Overdue
  <1>9. CardCacheIsRow'
    <2> SUFFICES ASSUME card.fresh # None, ~guessed
                 PROVE  \/ card.fresh = CardPaid'
                        \/ card.fresh /\ \E t \in Subs : Overdue(t)'
      BY <1>1 DEF CardCacheIsRow, planVars
    <2>1. card.fresh \in BOOLEAN
      BY DEF Inv, PlanTypes, Caches
    <2>2. CASE card.fresh /\ \E t \in Subs : Overdue(t)
      BY <1>8, <2>2
    <2>3. CASE card.fresh = CardPaid
      <3>1. CASE ~CardPaid
        BY <1>6, <2>3, <3>1 DEF CardPaid
      <3>2. CASE CardPaid
        <4>1. PICK t \in Subs : RowPaid(t)
          BY <3>2 DEF CardPaid
        <4>2. CASE RowPaid(t)'
          <5>1. CardPaid'
            BY <4>2 DEF CardPaid
          <5> QED BY <2>3, <3>2, <5>1 DEF CardPaid
        <4>3. CASE ~RowPaid(t)'
          <5>1. Overdue(t)'
            BY <1>7, <4>1, <4>3
          <5> QED BY <2>3, <3>2, <5>1
        <4> QED BY <4>2, <4>3
      <3> QED BY <3>1, <3>2
    <2> QED BY <2>2, <2>3 DEF Inv, CardCacheIsRow
  <1> QED BY <1>4, <1>9 DEF Inv, PlanTypes, planVars

\* A write that changes a row empties the answer in front of it.
LEMMA WriteEventKeeps ==
    ASSUME Inv, NEW m \in handling, NEW heard \in BOOLEAN, NEW old \in SUBSET Settled,
           WriteEvent(m, heard, old)
    PROVE  Inv'
  <1>1. Mirrored'
    BY WriteKeeps DEF Inv, WriteEvent
  <1>2. card \in Caches
    BY DEF Inv, PlanTypes
  <1>3. CASE Applies(m) /\ ServerFor(m.event, m.state) = "ours"
    <2>1. card' = [card EXCEPT !.fresh = None] /\ guessed' = FALSE
          /\ UNCHANGED <<held, seen, deal>>
      BY <1>3 DEF WriteEvent, Invalidate
    <2>2. card' \in Caches /\ card'.fresh = None
      BY <1>2, <2>1 DEF Caches
    <2> QED BY <1>1, <2>1, <2>2 DEF Inv, PlanTypes, CardCacheIsRow
  <1>4. CASE ~Applies(m)
    <2>1. UNCHANGED <<life, lapsed, row, card, guessed, held, seen, deal>>
      BY <1>4 DEF WriteEvent, Write, stripe
    <2> QED BY <1>1, <2>1 DEF Inv, PlanTypes, CardCacheIsRow, CardPaid, RowPaid, Overdue
  \* Another server's row comes or changes: this server's are what they were.
  <1>5. CASE Applies(m) /\ ServerFor(m.event, m.state) = "theirs"
    <2>1. /\ UNCHANGED <<life, lapsed, card, guessed, held, seen, deal>>
          /\ row' = [row EXCEPT ![m.event[1]] = Stored(m)]
      BY <1>5 DEF WriteEvent, Write, stripe
    <2>2. m.event[1] \in Subs /\ row[m.event[1]].server # "ours" /\ Stored(m).server = "theirs"
      BY <1>5, NamedServer DEF Inv, Applies, OwnRow, Stored
    <2>3. \A t \in Subs : row'[t] = row[t] \/ (row[t].server # "ours" /\ row'[t].server # "ours")
      BY <2>1, <2>2 DEF Inv, Mirrored, MirrorTypeOK
    <2>4. \A t \in Subs : RowPaid(t)' = RowPaid(t) /\ Overdue(t)' = Overdue(t)
      BY <2>1, <2>3 DEF RowPaid, Overdue
    <2>5. CardPaid' = CardPaid
      BY <2>4 DEF CardPaid
    <2> QED BY <1>1, <2>1, <2>4, <2>5 DEF Inv, PlanTypes, CardCacheIsRow
  <1> QED BY <1>3, <1>4, <1>5, NamedServer DEF Inv

LEMMA ReadKeeps ==
    ASSUME Inv, NEW ok \in BOOLEAN, ReadCard(ok)
    PROVE  Inv'
  <1>1. UNCHANGED <<mirrorVars, held, seen, deal>> /\ guessed' = ~ok
    BY DEF ReadCard
  <1>2. Mirrored'
    BY <1>1, SameMirror DEF Inv
  <1>3. CASE ok
    <2>1. card' = [fresh |-> CardPaid, known |-> CardPaid]
      BY <1>3 DEF ReadCard, Known
    <2>2. CardPaid \in BOOLEAN /\ CardPaid' = CardPaid
      BY <1>1 DEF CardPaid, RowPaid, mirrorVars, stripe, mirror
    <2>3. card' \in Caches /\ card'.fresh = CardPaid
      BY <2>1, <2>2 DEF Caches
    <2> QED BY <1>1, <1>2, <2>2, <2>3 DEF Inv, PlanTypes, CardCacheIsRow
  <1>4. CASE ~ok
    <2>1. card' = [card EXCEPT !.fresh = IF card.known = None THEN FALSE ELSE card.known]
      BY <1>4 DEF ReadCard, Provisional, Guess
    <2>2. card' \in Caches
      BY <2>1 DEF Inv, PlanTypes, Caches
    <2> QED BY <1>1, <1>2, <1>4, <2>2 DEF Inv, PlanTypes, CardCacheIsRow
  <1> QED BY <1>3, <1>4

LEMMA InvNext == Inv /\ [Next]_vars => Inv'
  <1> SUFFICES ASSUME Inv, [Next]_vars PROVE Inv'
    OBVIOUS
  <1>1. ASSUME NEW s \in Subs, Lapse(s), UNCHANGED planVars PROVE Inv'
    BY <1>1, LapseKeeps
  <1>2. ASSUME NEW s \in Subs, NEW copy \in Copies, NEW same \in BOOLEAN,
               Change(s, copy, same), UNCHANGED planVars PROVE Inv'
    BY <1>2, ChangeLeavesPaid
  <1>3. ASSUME Mirrored', UNCHANGED <<life, lapsed, row, planVars>> PROVE Inv'
    BY <1>3 DEF Inv, planVars, PlanTypes, CardCacheIsRow, CardPaid, RowPaid, Overdue
  <1>4. ASSUME NEW e \in Events, Deliver(e), UNCHANGED planVars PROVE Inv'
    BY <1>3, <1>4, DeliverKeeps DEF Deliver, Inv, stripe, mirror
  <1>15. ASSUME NEW e \in Events, Ignore(e), UNCHANGED planVars PROVE Inv'
    BY <1>3, <1>15, IgnoreKeeps DEF Ignore, Inv, stripe, mirror
  <1>5. ASSUME NEW m \in handling, WriteFails(m), UNCHANGED planVars PROVE Inv'
    BY <1>3, <1>5, FailureKeeps DEF WriteFails, Inv, stripe
  <1>6. ASSUME NEW m \in handling, NEW heard \in BOOLEAN, NEW old \in SUBSET Settled,
               WriteEvent(m, heard, old) PROVE Inv'
    BY <1>6, WriteEventKeeps
  <1>7. ASSUME NEW ok \in BOOLEAN, ReadCard(ok) PROVE Inv'
    BY <1>7, ReadKeeps
  \* What leaves Stripe and the mirror alone, and empties the card's answer or
  \* leaves it too.
  <1>8. ASSUME UNCHANGED mirrorVars, PlanTypes',
               UNCHANGED <<card, guessed>> \/ card'.fresh = None
        PROVE  Inv'
    <2>0. UNCHANGED <<life, lapsed, acked, handling, ledger, row>>
      BY <1>8 DEF mirrorVars, stripe, mirror
    <2>1. Mirrored'
      BY <1>8, SameMirror DEF Inv
    <2>2. CASE UNCHANGED <<card, guessed>>
      BY <1>8, <2>0, <2>1, <2>2 DEF Inv, CardCacheIsRow, CardPaid, RowPaid, Overdue
    <2>3. CASE card'.fresh = None
      BY <1>8, <2>1, <2>3 DEF Inv, CardCacheIsRow
    <2> QED BY <1>8, <2>2, <2>3
  <1>9. ASSUME NEW written \in BOOLEAN, EntitlementEvent(written) PROVE Inv'
    <2>1. PlanTypes'
      BY <1>9 DEF EntitlementEvent, Recorded, Inv, PlanTypes
    <2> QED BY <1>8, <1>9, <2>1 DEF EntitlementEvent
  <1>10. CASE Sweep
    <2>1. PlanTypes'
      BY <1>10 DEF Sweep, Recorded, Inv, PlanTypes
    <2> QED BY <1>8, <1>10, <2>1 DEF Sweep
  <1>11. CASE Expire
    <2>1. PlanTypes' /\ card'.fresh = None
      BY <1>11 DEF Expire, Inv, PlanTypes, Caches
    <2> QED BY <1>8, <1>11, <2>1 DEF Expire
  <1>12. CASE Restart
    <2>1. PlanTypes' /\ card'.fresh = None
      BY <1>12 DEF Restart, Inv, PlanTypes, Caches, Empty
    <2> QED BY <1>8, <1>12, <2>1 DEF Restart
  <1>13. ASSUME NEW s \in Subs, NEW discord \in BOOLEAN, NEW read \in BOOLEAN,
                Checkout(s, discord, read) PROVE Inv'
    <2>1. UNCHANGED <<mirrorVars, card, guessed, held, seen>>
          /\ deal' = [deal EXCEPT ![s] = DealFor(Settings(discord, read))]
      BY <1>13 DEF Checkout
    <2>2. DealFor(Settings(discord, read)) \in {"trial", "full"}
      BY DEF DealFor
    <2>3. PlanTypes'
      BY <2>1, <2>2 DEF Inv, PlanTypes
    <2> QED BY <1>8, <2>1, <2>3
  <1>14. CASE UNCHANGED vars
    BY <1>8, <1>14 DEF vars, planVars, Inv, PlanTypes
  <1> QED BY <1>1, <1>2, <1>4, <1>5, <1>6, <1>7, <1>9, <1>10, <1>11, <1>12, <1>13, <1>14, <1>15 DEF Next

LEMMA InvHolds == Spec => []Inv
  BY InvInit, InvNext, PTL DEF Spec

\* Every variable of the mirror, the cache and the checkouts keeps its type;
\* no row, ledger or answer is about a state Stripe has not made.
THEOREM PlanTypeCorrect == Spec => []TypeOK
  <1>1. Inv => TypeOK
    BY DEF Inv, Mirrored, PlanTypes, TypeOK
  <1> QED BY <1>1, InvHolds, PTL

\* stripe_webhook and write_dashboard_stripe_subscription: with every event of
\* a subscription answered, its row is where Stripe is.
THEOREM MirrorIsCurrent == Spec => []MirrorCatchesUp
  <1>1. Inv => MirrorCatchesUp
    BY MirroredCatchesUp DEF Inv
  <1> QED BY <1>1, InvHolds, PTL

\* stripe_active never keeps, as an answer, what a webhook has overwritten.
THEOREM CacheFollowsRows == Spec => []CardCacheIsRow
  <1>1. Inv => CardCacheIsRow
    BY DEF Inv
  <1> QED BY <1>1, InvHolds, PTL

\* trial_eligible: an answered event of a subscription that could be recorded
\* throughout has left a row, and rows stay.
THEOREM TrialsAreForTheNew == Spec => NoTrialOncePaid
  <1> DEFINE New == \A s \in Subs : deal[s] = "none" /\ deal'[s] = "trial" =>
                      /\ ~seen
                      /\ \A e \in acked : \E k \in 1 .. Len(life[e[1]]) : ~Plain(e[1], k)
  <1>1. Inv /\ [Next]_vars => [New]_vars
    <2> SUFFICES ASSUME Inv, Next PROVE New
      OBVIOUS
    <2>1. CASE UNCHANGED deal
      BY <2>1
    <2>2. ASSUME NEW s \in Subs, NEW discord \in BOOLEAN, NEW read \in BOOLEAN,
                 Checkout(s, discord, read) PROVE New
      <3> DEFINE page == Settings(discord, read)
      <3>1. deal' = [deal EXCEPT ![s] = DealFor(page)]
        BY <2>2 DEF Checkout
      <3>0. page.trial = TrialEligible(read)
        BY DEF Settings
      <3> HIDE DEF page
      <3>2. CASE ~TrialEligible(read)
        <4>1. DealFor(page) = "full"
          BY <3>0, <3>2 DEF DealFor
        <4> QED BY <3>1, <4>1 DEF Inv, PlanTypes
      <3>3. CASE TrialEligible(read)
        <4>1. ~seen /\ \A t \in Subs : row[t].server # "ours"
          BY <3>3 DEF TrialEligible, HasEverPaid
        <4>2. ASSUME NEW e \in acked PROVE \E k \in 1 .. Len(life[e[1]]) : ~Plain(e[1], k)
          <5>1. e \in Sent /\ (Stamp(e) <= row[e[1]].stamp \/ row[e[1]].server = "theirs" \/ Blurred(e))
            BY DEF Inv, Mirrored, MirrorTypeOK, Reflected
          <5>2. e[1] \in Subs /\ Stamp(e) \in Nat /\ Stamp(e) >= 1 /\ e[2] \in 1 .. Len(life[e[1]])
            BY <5>1, StampsAreNats DEF Inv, Mirrored
          <5>3. CASE Blurred(e)
            BY <5>2, <5>3 DEF Blurred
          <5>4. CASE ~Blurred(e)
            <6>1. row[e[1]] # NoRow
              BY <5>1, <5>2, <5>4 DEF NoRow
            <6>2. NamedIn(e[1])
              BY <4>1, <5>2, <6>1 DEF Inv, Mirrored, Witnessed
            <6> QED BY <6>2 DEF NamedIn, Plain
          <5> QED BY <5>3, <5>4
        <4> QED BY <4>1, <4>2
      <3> QED BY <3>2, <3>3
    <2> QED BY <2>1, <2>2
            DEF Next, planVars, WriteEvent, ReadCard, EntitlementEvent, Sweep, Expire, Restart
  <1> QED BY <1>1, InvHolds, PTL DEF Spec, NoTrialOncePaid
=============================================================================
