------------------------- MODULE VerificationProofs -------------------------
(***************************************************************************)
(* What holds of Verification for every set of members, servers, accounts   *)
(* and codes, and for any number of requests and results under way; and of  *)
(* VerifiedRole, whose steps are Verification's or leave it alone.          *)
(***************************************************************************)
EXTENDS VerifiedRole, TLAPS

(***************************************************************************)
(* The inductive invariant.  Whatever is on its way through the queues was  *)
(* true of the member when it was asked, and stays true: a code is drawn    *)
(* once and for one member, server and account, an account that has shown   *)
(* it has shown it for ever, and an account VRChat has called 18+ has been  *)
(* called that for ever.                                                    *)
(***************************************************************************)
Proven(m, a) ==
    \E c \in Codes : /\ issued[c] # None
                     /\ issued[c].member = m /\ issued[c].account = a
                     /\ <<a, c>> \in bio

\* A request carries the code drawn for it, or asks about a proven account.
Sound(q) ==
    /\ q.code = None => Proven(q.member, q.account)
    /\ q.code # None => /\ issued[q.code] # None
                        /\ issued[q.code].member = q.member
                        /\ issued[q.code].guild = q.guild
                        /\ issued[q.code].account = q.account

\* A result says what the bio and VRChat have said at some time.
True(r) ==
    /\ Sound(r.request)
    /\ r.found => r.request.code # None /\ <<r.request.account, r.request.code>> \in bio
    /\ r.verdict = "18+" => r.request.account \in seen18

\* A pending row is the row its code was drawn for, and has not been used.
Standing(m, g, c) ==
    c # None => /\ issued[c] # None
                /\ issued[c].member = m /\ issued[c].guild = g
                /\ c \notin spent

LinkInv == \A m \in Members :
             /\ user[m] # None => Proven(m, user[m].account)
             /\ Adult(m) => user[m].account \in seen18
RowInv == /\ \A m \in Members, g \in Guilds : Standing(m, g, pending[<<m, g>>])
          /\ \A c \in spent : issued[c] # None
FlowInv == (\A q \in requests : Sound(q)) /\ (\A r \in results : True(r))

Inv == TypeOK /\ LinkInv /\ RowInv /\ FlowInv

LEMMA InvInit == Init => Inv
  BY DEF Init, Inv, TypeOK, LinkInv, RowInv, FlowInv, Adult, Standing

(***************************************************************************)
(* Nothing that happens takes back what was proven, drawn or said.          *)
(***************************************************************************)
Grows ==
    /\ bio \subseteq bio' /\ seen18 \subseteq seen18'
    /\ \A c \in Codes : issued[c] # None => issued'[c] = issued[c]

LEMMA GrowsIfUnchanged == UNCHANGED <<issued, bio, seen18>> => Grows
  BY DEF Grows

LEMMA ProvenStays ==
    ASSUME Grows, NEW m, NEW a, Proven(m, a)
    PROVE  Proven(m, a)'
  BY DEF Proven, Grows

LEMMA SoundStays ==
    ASSUME Grows, NEW q \in Request, Sound(q)
    PROVE  Sound(q)'
  <1>1. q.code = None => Proven(q.member, q.account)'
    BY ProvenStays DEF Sound
  <1>2. q.code # None => issued'[q.code] = issued[q.code]
    BY DEF Sound, Grows, Request
  <1> QED BY <1>1, <1>2 DEF Sound

LEMMA TrueStays ==
    ASSUME Grows, NEW r \in Result, True(r)
    PROVE  True(r)'
  BY SoundStays DEF True, Grows, Result

\* A step that leaves the links alone keeps them proven.
LEMMA LinkFrame ==
    ASSUME Inv, Grows, user' = user
    PROVE  LinkInv'
  <1> SUFFICES ASSUME NEW m \in Members
               PROVE  /\ user[m] # None => Proven(m, user[m].account)'
                      /\ Adult(m)' => user[m].account \in seen18'
    BY DEF LinkInv, Proven
  <1>1. user[m] # None => Proven(m, user[m].account)'
    BY ProvenStays DEF Inv, LinkInv
  <1>2. Adult(m)' = Adult(m)
    BY DEF Adult
  <1> QED BY <1>1, <1>2 DEF Inv, LinkInv, Grows

\* So does a step that only removes rows.
LEMMA RowFrame ==
    ASSUME Inv, Grows, spent' = spent,
           \A m \in Members, g \in Guilds : pending'[<<m, g>>] \in {None, pending[<<m, g>>]}
    PROVE  RowInv'
  <1>1. \A m \in Members, g \in Guilds : pending[<<m, g>>] \in Codes \cup {None}
    BY DEF Inv, TypeOK
  <1>2. spent \subseteq Codes
    BY DEF Inv, TypeOK
  <1> QED BY <1>1, <1>2 DEF Inv, RowInv, Standing, Grows

\* The queues stay sound when what is added to them is.
LEMMA FlowFrame ==
    ASSUME Inv, Grows,
           \A q \in requests' : q \in requests \/ Sound(q)',
           \A r \in results' : r \in results \/ True(r)'
    PROVE  FlowInv'
  <1>1. requests \subseteq Request /\ results \subseteq Result
    BY DEF Inv, TypeOK
  <1> QED BY <1>1, SoundStays, TrueStays DEF Inv, FlowInv

----------------------------------------------------------------------------
LEMMA InvRecheck ==
    ASSUME Inv, NEW m \in Members, NEW g \in Guilds, BeginRecheck(m, g)
    PROVE  Inv'
  <1> DEFINE q == [member |-> m, guild |-> g, account |-> user[m].account, code |-> None]
  <1>1. /\ user[m] # None /\ user[m] \in User
        /\ UNCHANGED <<rows, modals, results, world, spent>>
        /\ Publishes(q)
    BY DEF BeginRecheck, Inv, TypeOK
  <1>2. Grows
    BY <1>1, GrowsIfUnchanged DEF rows, world
  <1>3. q \in Request
    BY <1>1 DEF User, Request
  <1>4. Sound(q)
    BY <1>1 DEF Sound, Inv, LinkInv
  <1>5. requests' \subseteq requests \cup {q}
    BY <1>1 DEF Publishes
  <1> HIDE DEF q
  <1>6. \A p \in requests' : p \in requests \/ Sound(p)'
    BY <1>2, <1>3, <1>4, <1>5, SoundStays
  <1>7. FlowInv'
    BY <1>1, <1>2, <1>6, FlowFrame
  <1>8. TypeOK'
    BY <1>1, <1>3, <1>5 DEF Inv, TypeOK, rows, world
  <1> QED BY <1>1, <1>2, <1>7, <1>8, LinkFrame, RowFrame DEF Inv, rows

LEMMA InvSubmit ==
    ASSUME Inv, NEW m \in Members, NEW g \in Guilds, NEW a \in Accounts, Submit(m, g, a)
    PROVE  Inv'
  <1>u. /\ UNCHANGED <<user, expired, requests, results, world, spent>>
        /\ modals' \subseteq modals
    BY DEF Submit
  <1>1. CASE UNCHANGED <<issued, pending>>
    <2>1. Grows
      BY <1>1, <1>u, GrowsIfUnchanged DEF world
    <2>2. TypeOK'
      BY <1>1, <1>u DEF Inv, TypeOK, world
    <2> QED BY <1>1, <1>u, <2>1, <2>2, LinkFrame, RowFrame, FlowFrame DEF Inv
  <1>2. ASSUME NEW c \in Codes, issued[c] = None,
               issued' = [issued EXCEPT ![c] = [member |-> m, guild |-> g, account |-> a]],
               pending' = [pending EXCEPT ![<<m, g>>] = c]
        PROVE  Inv'
    <2>0. /\ [member |-> m, guild |-> g, account |-> a] \in Issue
          /\ [member |-> m, guild |-> g, account |-> a] # None
      BY NoneIsNoRecord DEF Issue
    <2>1. Grows
      BY <1>2, <1>u DEF Grows, Inv, TypeOK, world
    <2>2. TypeOK'
      BY <1>2, <1>u, <2>0 DEF Inv, TypeOK, world
    <2>3. ASSUME NEW n \in Members, NEW h \in Guilds
          PROVE  Standing(n, h, pending[<<n, h>>])'
      <3>1. CASE n = m /\ h = g
        <4>1. /\ pending'[<<n, h>>] = c
              /\ issued'[c] = [member |-> m, guild |-> g, account |-> a]
              /\ c \notin spent'
          BY <1>2, <1>u, <3>1 DEF Inv, TypeOK, RowInv
        <4> QED BY <2>0, <3>1, <4>1 DEF Standing
      <3>2. CASE <<n, h>> # <<m, g>>
        <4>1. /\ pending'[<<n, h>>] = pending[<<n, h>>]
              /\ pending[<<n, h>>] \in Codes \cup {None}
              /\ Standing(n, h, pending[<<n, h>>])
          BY <1>2, <3>2 DEF Inv, TypeOK, RowInv
        <4> QED BY <1>u, <2>1, <4>1 DEF Standing, Grows
      <3> QED BY <3>1, <3>2
    <2>4. \A d \in spent' : issued'[d] # None
      BY <1>u, <2>1 DEF Grows, Inv, TypeOK, RowInv
    <2>5. RowInv'
      BY <2>3, <2>4 DEF RowInv
    <2> QED BY <1>u, <2>1, <2>2, <2>5, LinkFrame, FlowFrame DEF Inv
  <1> QED BY <1>1, <1>2 DEF Submit

LEMMA InvVerify ==
    ASSUME Inv, NEW m \in Members, NEW g \in Guilds, PressVerify(m, g)
    PROVE  Inv'
  <1> DEFINE c == pending[<<m, g>>]
             q == [member |-> m, guild |-> g, account |-> issued[c].account, code |-> c]
  <1>1. /\ c # None /\ Publishes(q)
        /\ UNCHANGED <<rows, modals, results, world, spent>>
    BY DEF PressVerify
  <1>2. /\ c \in Codes /\ issued[c] # None
        /\ issued[c].member = m /\ issued[c].guild = g
    BY <1>1 DEF Inv, TypeOK, RowInv, Standing
  <1>3. Grows
    BY <1>1, GrowsIfUnchanged DEF rows, world
  <1>4. issued[c] \in Issue
    BY <1>2 DEF Inv, TypeOK
  <1>5. q \in Request
    BY <1>2, <1>4 DEF Request, Issue
  <1>6. Sound(q)
    BY <1>1, <1>2 DEF Sound
  <1>7. requests' \subseteq requests \cup {q}
    BY <1>1 DEF Publishes
  <1> HIDE DEF q, c
  <1>8. \A p \in requests' : p \in requests \/ Sound(p)'
    BY <1>3, <1>5, <1>6, <1>7, SoundStays
  <1>9. FlowInv'
    BY <1>1, <1>3, <1>8, FlowFrame
  <1>10. TypeOK'
    BY <1>1, <1>5, <1>7 DEF Inv, TypeOK, rows, world
  <1> QED BY <1>1, <1>3, <1>9, <1>10, LinkFrame, RowFrame DEF Inv, rows

LEMMA InvChecker ==
    ASSUME Inv, NEW q \in requests, CheckerAnswers(q)
    PROVE  Inv'
  <1> PICK r \in Answers(q) :
        /\ results' = results \cup {r}
        /\ seen18' = IF r.verdict = "18+" THEN seen18 \cup {q.account} ELSE seen18
    BY DEF CheckerAnswers
  <1>1. /\ q \in Request /\ Sound(q) /\ requests' \subseteq requests
        /\ UNCHANGED <<rows, modals, bio, spent>>
    BY DEF CheckerAnswers, Leaves, Inv, TypeOK, FlowInv
  <1>2. /\ r \in Result /\ r.request = q
        /\ r.found => <<q.account, q.code>> \in bio
    BY <1>1 DEF Answers, bio_contains_code, Result
  <1>3. r.found => q.code # None
    BY <1>1, <1>2, CodesAreNotNone DEF Inv, TypeOK
  <1>4. seen18' \subseteq Accounts /\ Grows
    BY <1>1 DEF Inv, TypeOK, Request, Grows, rows
  <1>5. TypeOK'
    BY <1>1, <1>2, <1>4 DEF Inv, TypeOK, rows
  <1>6. True(r)'
    <2>1. Sound(q)'
      BY <1>1, <1>4, SoundStays
    <2> QED BY <1>1, <1>2, <1>3, <2>1 DEF True
  <1>7. FlowInv'
    BY <1>1, <1>4, <1>6, FlowFrame
  <1> QED BY <1>1, <1>4, <1>5, <1>7, LinkFrame, RowFrame DEF Inv, rows

\* Storing a result: the row is proven and the verdict is on its account.
LEMMA StoresSound ==
    ASSUME Inv, NEW r \in results, r.request.code = None \/ r.found, Stores(r),
           UNCHANGED <<issued, bio, seen18>>
    PROVE  user' \in [Members -> User \cup {None}] /\ LinkInv'
  <1> DEFINE q == r.request
             u == [account |-> q.account, adult |-> r.verdict = "18+"]
  <1>1. q \in Request /\ r \in Result /\ True(r)
    BY DEF Inv, TypeOK, FlowInv, Result
  <1>2. u \in User /\ q.member \in Members
    BY <1>1 DEF Request, User
  <1>3. user' = [user EXCEPT ![q.member] = u]
    BY DEF Stores
  <1>4. Proven(q.member, q.account)
    BY <1>1 DEF True, Sound, Proven, Request
  <1>5. r.verdict = "18+" => q.account \in seen18
    BY <1>1 DEF True
  <1>6. user' \in [Members -> User \cup {None}]
    BY <1>2, <1>3 DEF Inv, TypeOK
  <1>7. ASSUME NEW m \in Members
        PROVE  /\ user'[m] # None => Proven(m, user[m].account)'
               /\ Adult(m)' => user'[m].account \in seen18'
    <2>1. CASE m = q.member
      <3>1. user'[m] = u
        BY <1>2, <1>3, <2>1 DEF Inv, TypeOK
      <3>2. u.account = q.account /\ u.adult = (r.verdict = "18+")
        OBVIOUS
      <3> HIDE DEF u, q
      <3>3. Proven(m, user[m].account)'
        BY <1>4, <2>1, <3>1, <3>2 DEF Proven
      <3> QED BY <1>5, <2>1, <3>1, <3>2, <3>3 DEF Adult
    <2>2. CASE m # q.member
      <3>1. user'[m] = user[m]
        BY <1>3, <2>2 DEF Inv, TypeOK
      <3> QED BY <3>1 DEF Inv, LinkInv, Adult, Proven
    <2> QED BY <2>1, <2>2
  <1> QED BY <1>6, <1>7 DEF LinkInv

LEMMA InvStoreRecheck ==
    ASSUME Inv, NEW r \in results, StoreRecheck(r)
    PROVE  Inv'
  <1>1. /\ UNCHANGED <<pending, issued, expired, modals, requests, bio, seen18, spent>>
        /\ results' \subseteq results
    BY DEF StoreRecheck, Taken, world
  <1>2. user' \in [Members -> User \cup {None}] /\ LinkInv'
    BY <1>1, StoresSound DEF StoreRecheck
  <1>3. TypeOK'
    BY <1>1, <1>2 DEF Inv, TypeOK
  <1>4. Grows
    BY <1>1, GrowsIfUnchanged
  <1>5. RowInv' /\ FlowInv'
    BY <1>1, <1>4, RowFrame, FlowFrame
  <1> QED BY <1>2, <1>3, <1>5 DEF Inv

LEMMA InvStoreCode ==
    ASSUME Inv, NEW r \in results, StoreCode(r)
    PROVE  Inv'
  <1> DEFINE q == r.request
  <1>1. /\ UNCHANGED <<issued, expired, modals, requests, bio, seen18>>
        /\ results' \subseteq results
    BY DEF StoreCode, Taken, world
  <1>2. user' \in [Members -> User \cup {None}] /\ LinkInv'
    BY <1>1, StoresSound DEF StoreCode
  <1>3. /\ q.member \in Members /\ q.guild \in Guilds /\ q.code \in Codes
        /\ pending[<<q.member, q.guild>>] = q.code
        /\ issued[q.code] # None
        /\ issued[q.code].member = q.member /\ issued[q.code].guild = q.guild
    <2>1. q \in Request /\ Sound(q)
      BY DEF Inv, TypeOK, FlowInv, True, Result
    <2>2. q.code # None /\ pending[<<q.member, q.guild>>] = q.code
      BY DEF StoreCode, Awaited
    <2> QED BY <2>1, <2>2 DEF Sound, Request
  <1>4. /\ pending' = [pending EXCEPT ![<<q.member, q.guild>>] = None]
        /\ spent' = spent \cup {q.code}
    BY DEF StoreCode, AfterSuccess
  <1> HIDE DEF q
  <1>5. TypeOK'
    BY <1>1, <1>2, <1>3, <1>4 DEF Inv, TypeOK
  <1>6. ASSUME NEW m \in Members, NEW g \in Guilds
        PROVE  Standing(m, g, pending[<<m, g>>])'
    <2>1. CASE <<m, g>> = <<q.member, q.guild>>
      BY <1>4, <2>1 DEF Standing, Inv, TypeOK
    <2>2. CASE <<m, g>> # <<q.member, q.guild>>
      <3>1. /\ pending'[<<m, g>>] = pending[<<m, g>>]
            /\ Standing(m, g, pending[<<m, g>>])
        BY <1>4, <2>2 DEF Inv, TypeOK, RowInv
      <3>2. pending[<<m, g>>] # q.code
        BY <1>3, <2>2, <3>1, CodesAreNotNone DEF Standing
      <3> QED BY <1>1, <1>4, <3>1, <3>2 DEF Standing
    <2> QED BY <2>1, <2>2
  <1>7. RowInv'
    BY <1>1, <1>3, <1>4, <1>6 DEF RowInv, Inv
  <1>8. FlowInv'
    BY <1>1, GrowsIfUnchanged, FlowFrame
  <1> QED BY <1>2, <1>5, <1>7, <1>8 DEF Inv

LEMMA InvDropExpired ==
    ASSUME Inv, NEW r \in results, DropExpired(r)
    PROVE  Inv'
  <1>1. /\ UNCHANGED <<user, issued, expired, modals, requests, bio, seen18, spent>>
        /\ results' \subseteq results
        /\ pending' = [pending EXCEPT ![<<r.request.member, r.request.guild>>] = None]
    BY DEF DropExpired, Taken, world
  <1>2. TypeOK'
    BY <1>1 DEF Inv, TypeOK
  <1>3. Grows
    BY <1>1, GrowsIfUnchanged
  <1>4. \A m \in Members, g \in Guilds : pending'[<<m, g>>] \in {None, pending[<<m, g>>]}
    BY <1>1 DEF Inv, TypeOK
  <1> QED BY <1>1, <1>2, <1>3, <1>4, LinkFrame, RowFrame, FlowFrame DEF Inv

\* The other steps change nothing the invariant speaks of, or only add to it.
LEMMA InvElse ==
    ASSUME Inv, TypeOK', Grows, UNCHANGED <<user, spent>>,
           requests' \subseteq requests, results' \subseteq results,
           \A m \in Members, g \in Guilds : pending'[<<m, g>>] \in {None, pending[<<m, g>>]}
    PROVE  Inv'
  BY LinkFrame, RowFrame, FlowFrame DEF Inv

LEMMA InvNext == Inv /\ [Next]_vars => Inv'
  <1> SUFFICES ASSUME Inv, [Next]_vars PROVE Inv'
    OBVIOUS
  <1>1. ASSUME NEW m \in Members, NEW g \in Guilds, BeginNew(m, g) PROVE Inv'
    <2>1. TypeOK'
      BY <1>1 DEF BeginNew, Inv, TypeOK, rows, world
    <2> QED BY <1>1, <2>1, InvElse, GrowsIfUnchanged DEF BeginNew, rows, world
  <1>2. ASSUME NEW a \in Accounts, NEW c \in Codes, ShowCode(a, c) PROVE Inv'
    <2>1. TypeOK' /\ Grows
      BY <1>2 DEF ShowCode, Inv, TypeOK, Grows, rows
    <2> QED BY <1>2, <2>1, InvElse DEF ShowCode, rows
  <1>3. ASSUME NEW c \in Codes, Lapse(c) PROVE Inv'
    <2>1. TypeOK'
      BY <1>3 DEF Lapse, Inv, TypeOK, world
    <2> QED BY <1>3, <2>1, InvElse, GrowsIfUnchanged DEF Lapse, world
  <1>4. CASE Sweep
    <2>1. TypeOK'
      BY <1>4 DEF Sweep, Inv, TypeOK, world
    <2>2. \A m \in Members, g \in Guilds : pending'[<<m, g>>] \in {None, pending[<<m, g>>]}
      BY <1>4 DEF Sweep
    <2> QED BY <1>4, <2>1, <2>2, InvElse, GrowsIfUnchanged DEF Sweep, world
  <1>5. ASSUME NEW q \in requests, CheckerGivesUp(q) PROVE Inv'
    <2>1. requests' \subseteq requests
      BY <1>5 DEF CheckerGivesUp, Leaves
    <2>2. TypeOK'
      BY <1>5, <2>1 DEF CheckerGivesUp, Inv, TypeOK, rows, world
    <2> QED BY <1>5, <2>1, <2>2, InvElse, GrowsIfUnchanged DEF CheckerGivesUp, rows, world
  <1>6. ASSUME NEW r \in results, DropResult(r) PROVE Inv'
    <2>1. TypeOK'
      BY <1>6 DEF DropResult, Inv, TypeOK, rows, world
    <2> QED BY <1>6, <2>1, InvElse, GrowsIfUnchanged DEF DropResult, rows, world
  <1>7. CASE UNCHANGED vars
    <2>1. TypeOK'
      BY <1>7 DEF vars, Inv, TypeOK, rows, world
    <2> QED BY <1>7, <2>1, InvElse, GrowsIfUnchanged DEF vars, rows, world
  <1> QED BY <1>1, <1>2, <1>3, <1>4, <1>5, <1>6, <1>7, InvRecheck, InvSubmit, InvVerify,
             InvChecker, InvStoreRecheck, InvStoreCode, InvDropExpired
          DEF Next, MemberStep, ResultStep

LEMMA Invariant == Spec => []Inv
  BY InvInit, InvNext, PTL DEF Spec
----------------------------------------------------------------------------
\* Every row, request and result keeps its type.
THEOREM TypeCorrect == Spec => []TypeOK
  <1>1. Inv => TypeOK
    BY DEF Inv
  <1> QED BY <1>1, Invariant, PTL

\* Every link was proven by a code drawn for this member and this account,
\* whatever order results and re-checks are stored in
\* (handle_verification_result, bio_contains_code).
THEOREM LinksAreProven == Spec => []LinkProven
  <1>1. Inv => LinkProven
    BY DEF Inv, LinkInv, LinkProven, Proven
  <1> QED BY <1>1, Invariant, PTL

\* verification_status is always a verdict on the account linked beside it.
THEOREM VerdictsAreAboutLinks == Spec => []VerdictIsAboutLink
  <1>1. Inv => VerdictIsAboutLink
    BY DEF Inv, LinkInv, VerdictIsAboutLink
  <1> QED BY <1>1, Invariant, PTL

\* A code that has expired, has been used or has been replaced changes nobody's
\* row, though its result may come at any time and any number of times.
THEOREM OldCodesAreDead == Spec => OldCodesLinkNothing
  <1>1. ASSUME Inv, [Next]_vars, NEW m \in Members, user'[m] # user[m]
        PROVE  \E r \in results :
                 /\ r.request.member = m
                 /\ \/ r.request.code = None
                    \/ /\ r.request.code \notin expired \cup spent
                       /\ pending[<<m, r.request.guild>>] = r.request.code
    <2>1. PICK r \in results : StoreRecheck(r) \/ StoreCode(r)
      BY <1>1 DEF Next, vars, rows, MemberStep, BeginRecheck, BeginNew, Submit, PressVerify,
           ShowCode, Lapse, Sweep, CheckerAnswers, CheckerGivesUp, ResultStep,
           DropExpired, DropResult
    <2>2. Stores(r)
      BY <2>1 DEF StoreRecheck, StoreCode
    <2>3. r.request.member = m
      BY <1>1, <2>2 DEF Stores, Inv, TypeOK
    <2>4. CASE StoreRecheck(r)
      BY <2>3, <2>4 DEF StoreRecheck
    <2>5. CASE StoreCode(r)
      <3>1. /\ r.request.code \notin expired /\ r.request.code # None
            /\ pending[<<m, r.request.guild>>] = r.request.code
        BY <2>3, <2>5 DEF StoreCode, Awaited
      <3>2. r.request.guild \in Guilds
        BY <1>1 DEF Inv, TypeOK, Result, Request
      <3>3. r.request.code \notin spent
        BY <1>1, <3>1, <3>2 DEF Inv, RowInv, Standing
      <3> QED BY <2>3, <3>1, <3>3
    <2> QED BY <2>1, <2>4, <2>5
  <1>2. Inv /\ [Next]_vars =>
          [\A m \in Members : user'[m] # user[m] =>
             \E r \in results :
               /\ r.request.member = m
               /\ \/ r.request.code = None
                  \/ /\ r.request.code \notin expired \cup spent
                     /\ pending[<<m, r.request.guild>>] = r.request.code]_user
    BY <1>1
  <1> QED BY <1>2, InvInit, InvNext, PTL DEF Spec, OldCodesLinkNothing

----------------------------------------------------------------------------
\* The verified role: what assign_role hands out was proven, whatever it was
\* overtaken by.

\* A coroutine that will hand the role out was started by a verdict of 18+ about
\* an account its member has shown, or by a row that had one.
RoleInv ==
    /\ RoleTypeOK
    /\ Inv
    /\ RoleProven
    /\ \A x \in assigning : x[3] => ProvenAdult(x[1])

LEMMA RoleInvInit == RoleInit => RoleInv
  <1> SUFFICES ASSUME RoleInit PROVE RoleInv
    OBVIOUS
  <1>1. Inv
    BY InvInit DEF RoleInit
  <1> QED BY <1>1 DEF RoleInit, RoleInv, RoleTypeOK, RoleProven, Inv

\* Every step of the role module is a step of Verification, or none of it.
LEMMA RoleStepIsStep == [RoleNext]_<<vars, role>> => [Next]_vars
  <1> SUFFICES ASSUME [RoleNext]_<<vars, role>> PROVE [Next]_vars
    OBVIOUS
  <1>1. CASE UNCHANGED <<vars, role>>
    BY <1>1
  <1>2. ASSUME NEW r \in results, Verdict(r) PROVE Next
    BY <1>2 DEF Verdict, Next, ResultStep
  <1>3. ASSUME NEW m \in Members, NEW g \in Guilds, Reassign(m, g) PROVE UNCHANGED vars
    BY <1>3 DEF Reassign
  <1>4. ASSUME NEW m \in Members, NEW g \in Guilds, NEW o \in BOOLEAN,
               AssignRole(m, g, o) PROVE UNCHANGED vars
    BY <1>4 DEF AssignRole
  <1>5. CASE Crash
    BY <1>5 DEF Crash
  <1>6. CASE Elsewhere
    BY <1>6 DEF Elsewhere, Next, ResultStep
  <1> QED BY <1>1, <1>2, <1>3, <1>4, <1>5, <1>6 DEF RoleNext

\* No step of Verification takes back what was proven, drawn or said.
LEMMA StepGrows ==
    ASSUME Inv, [Next]_vars
    PROVE  Grows
  <1>1. ASSUME NEW m \in Members, NEW g \in Guilds, NEW a \in Accounts, Submit(m, g, a)
        PROVE  Grows
    BY <1>1 DEF Submit, Grows, world, Inv, TypeOK
  <1>2. ASSUME NEW a \in Accounts, NEW c \in Codes, ShowCode(a, c) PROVE Grows
    BY <1>2 DEF ShowCode, Grows, rows
  <1>3. ASSUME NEW q \in requests, CheckerAnswers(q) PROVE Grows
    BY <1>3 DEF CheckerAnswers, Grows, rows
  <1>4. CASE UNCHANGED <<issued, world>>
    BY <1>4, GrowsIfUnchanged DEF world
  <1> QED BY <1>1, <1>2, <1>3, <1>4
          DEF Next, vars, rows, MemberStep, BeginRecheck, BeginNew, PressVerify, Lapse, Sweep,
              CheckerGivesUp, ResultStep, StoreRecheck, StoreCode, DropExpired, DropResult

\* An adult row has all that is asked of a role: its link is proven, and its
\* verdict is about that link.
LEMMA AdultIsProven ==
    ASSUME Inv, NEW m \in Members, Adult(m)
    PROVE  ProvenAdult(m)
  <1>1. user[m] # None /\ user[m].account \in seen18
    BY DEF Adult, Inv, LinkInv
  <1>2. Proven(m, user[m].account)
    BY <1>1 DEF Inv, LinkInv
  <1> QED BY <1>1, <1>2 DEF Proven, ProvenAdult

\* What was proven stays proven.
LEMMA ProvenAdultStays ==
    ASSUME Grows, NEW m, ProvenAdult(m)
    PROVE  ProvenAdult(m)'
  <1>1. PICK c \in Codes :
          /\ issued[c] # None /\ issued[c].member = m
          /\ <<issued[c].account, c>> \in bio /\ issued[c].account \in seen18
    BY DEF ProvenAdult
  <1>2. issued'[c] = issued[c] /\ bio \subseteq bio' /\ seen18 \subseteq seen18'
    BY <1>1 DEF Grows
  <1> QED BY <1>1, <1>2 DEF ProvenAdult

\* Who holds the role, and who will, has proven it after a step as before it.
LEMMA RoleKept ==
    ASSUME RoleInv, Inv',
           assigning' \subseteq Members \X Guilds \X BOOLEAN,
           \A x \in assigning' : x[3] => ProvenAdult(x[1])',
           roles' \subseteq Members \X Guilds,
           \A mg \in roles' : ProvenAdult(mg[1])'
    PROVE  RoleInv'
  BY DEF RoleInv, RoleTypeOK, RoleProven, Inv

LEMMA RoleInvNext == RoleInv /\ [RoleNext]_<<vars, role>> => RoleInv'
  <1> SUFFICES ASSUME RoleInv, [RoleNext]_<<vars, role>> PROVE RoleInv'
    OBVIOUS
  <1>1. Inv' /\ Grows
    BY RoleStepIsStep, InvNext, StepGrows DEF RoleInv
  <1>2. /\ \A x \in assigning : x[3] => ProvenAdult(x[1])'
        /\ \A mg \in roles : ProvenAdult(mg[1])'
    BY <1>1, ProvenAdultStays DEF RoleInv, RoleProven
  <1>3. assigning \subseteq Members \X Guilds \X BOOLEAN /\ roles \subseteq Members \X Guilds
    BY DEF RoleInv, RoleTypeOK
  <1>4. ASSUME NEW r \in results, Verdict(r) PROVE RoleInv'
    <2> DEFINE m == r.request.member
               x == <<m, r.request.guild, r.verdict = "18+">>
    <2>1. /\ m \in Members /\ r.request.guild \in Guilds
          /\ user \in [Members -> User \cup {None}]
          /\ r.request.account \in Accounts
      BY DEF RoleInv, Inv, TypeOK, Result, Request
    <2>2. Stores(r)
      BY <1>4 DEF Verdict, StoreRecheck, StoreCode
    <2>3. r.verdict = "18+" => ProvenAdult(m)'
      <3> SUFFICES ASSUME r.verdict = "18+" PROVE ProvenAdult(m)'
        OBVIOUS
      <3>1. user'[m] = [account |-> r.request.account, adult |-> TRUE]
        BY <2>1, <2>2 DEF Stores
      <3>2. user'[m] \in User
        BY <2>1, <3>1 DEF User
      <3>3. user'[m] # None
        BY <3>2, NoneIsNoRecord
      <3>4. Proven(m, user[m].account)' /\ user'[m].account \in seen18'
        <4>1. user'[m].adult
          BY <3>1
        <4> QED BY <1>1, <2>1, <3>3, <4>1 DEF Inv, LinkInv, Adult
      <3> QED BY <3>4 DEF Proven, ProvenAdult
    <2>4. assigning' = assigning \cup {x} /\ UNCHANGED roles
      BY <1>4 DEF Verdict
    <2>5. x \in Members \X Guilds \X BOOLEAN /\ x[1] = m /\ x[3] = (r.verdict = "18+")
      BY <2>1
    <2> HIDE DEF x
    <2>6. assigning' \subseteq Members \X Guilds \X BOOLEAN
      BY <1>3, <2>4, <2>5
    <2>7. \A y \in assigning' : y[3] => ProvenAdult(y[1])'
      BY <1>2, <2>3, <2>4, <2>5
    <2> QED BY <1>1, <1>2, <1>3, <2>4, <2>6, <2>7, RoleKept
  <1>5. ASSUME NEW m \in Members, NEW g \in Guilds, Reassign(m, g) PROVE RoleInv'
    <2> DEFINE x == <<m, g, TRUE>>
    <2>1. ProvenAdult(m)' /\ assigning' = assigning \cup {x} /\ UNCHANGED roles
      <3>1. ProvenAdult(m)
        BY <1>5, AdultIsProven DEF Reassign, RoleInv
      <3> QED BY <1>1, <1>5, <3>1, ProvenAdultStays DEF Reassign
    <2>2. x \in Members \X Guilds \X BOOLEAN /\ x[1] = m
      OBVIOUS
    <2> HIDE DEF x
    <2>3. assigning' \subseteq Members \X Guilds \X BOOLEAN
      BY <1>3, <2>1, <2>2
    <2>4. \A y \in assigning' : y[3] => ProvenAdult(y[1])'
      BY <1>2, <2>1, <2>2
    <2> QED BY <1>1, <1>2, <1>3, <2>1, <2>3, <2>4, RoleKept
  <1>6. ASSUME NEW m \in Members, NEW g \in Guilds, NEW o \in BOOLEAN, AssignRole(m, g, o)
        PROVE  RoleInv'
    <2>1. /\ <<m, g, o>> \in assigning /\ assigning' \subseteq assigning
          /\ \/ o /\ roles' = roles \cup {<<m, g>>}
             \/ UNCHANGED roles
      BY <1>6 DEF AssignRole, Grants
    <2>2. o => ProvenAdult(m)'
      BY <1>2, <2>1
    <2>3. roles' \subseteq Members \X Guilds /\ \A mg \in roles' : ProvenAdult(mg[1])'
      BY <1>2, <1>3, <2>1, <2>2
    <2> QED BY <1>1, <1>2, <1>3, <2>1, <2>3, RoleKept
  <1>7. CASE Crash \/ Elsewhere \/ UNCHANGED <<vars, role>>
    <2>1. assigning' \subseteq assigning /\ UNCHANGED roles
      BY <1>7 DEF Crash, Elsewhere, role
    <2> QED BY <1>1, <1>2, <1>3, <2>1, RoleKept
  <1> QED BY <1>4, <1>5, <1>6, <1>7 DEF RoleNext
-----------------------------------------------------------------------------
\* The role is only ever given to somebody who has shown, by a code drawn for
\* them, an account that VRChat has called 18+, for all that assign_role awaits
\* between its verdict and the role.  (Whether they are 18+ now is not said.)
THEOREM RolesAreProven == RoleSpec => []RoleProven
  <1>1. RoleInv => RoleProven
    BY DEF RoleInv
  <1> QED BY <1>1, RoleInvInit, RoleInvNext, PTL DEF RoleSpec

\* Verification with its roles implements Verification without: assign_role,
\* which reads the row and writes only roles, adds no step of its own, so
\* LinkProven, VerdictIsAboutLink and OldCodesLinkNothing hold beside it too.
THEOREM RoleImplementsVerification == RoleSpec => Spec
  <1>1. RoleInit => Init
    BY DEF RoleInit
  <1> QED BY <1>1, RoleStepIsStep, PTL DEF RoleSpec, Spec

\* What the results and the coroutines under way are made of, with the roles.
THEOREM RoleTypeCorrect == RoleSpec => []RoleTypeOK
  <1>1. RoleInv => RoleTypeOK
    BY DEF RoleInv
  <1> QED BY <1>1, RoleInvInit, RoleInvNext, PTL DEF RoleSpec
=============================================================================
