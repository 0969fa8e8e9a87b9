---------------------------- MODULE VerifiedRole ----------------------------
(***************************************************************************)
(* Verification and what follows it: assign_role, a coroutine that awaits   *)
(* Discord and the plan between the verdict it was given and the role it    *)
(* hands out.  A bot crash loses it, and the result that started it has     *)
(* been acked.                                                              *)
(***************************************************************************)
EXTENDS Verification

VARIABLES
    assigning,  \* assign_role coroutines: <<member, guild, is_18_plus>>
    roles       \* who holds the verified role where

role == <<assigning, roles>>

RoleTypeOK ==
    /\ TypeOK
    /\ assigning \subseteq Members \X Guilds \X BOOLEAN
    /\ roles \subseteq Members \X Guilds

RoleInit == Init /\ assigning = {} /\ roles = {}

\* Defect: assign_role is handed no verdict at all.
Defect_NoVerdict(r) ==
    /\ StoreRecheck(r) \/ StoreCode(r)
    /\ assigning' = assigning \cup
         {<<r.request.member, r.request.guild, None>>}
    /\ UNCHANGED roles

\* A stored result goes on to assign_role with the verdict it carried.
Verdict(r) ==
    /\ StoreRecheck(r) \/ StoreCode(r)
    /\ assigning' = assigning \cup
         {<<r.request.member, r.request.guild, r.verdict = "18+">>}
    /\ UNCHANGED roles

\* process_verification of a member already 18+, and on_member_join.
Reassign(m, g) ==
    /\ Adult(m)
    /\ assigning' = assigning \cup {<<m, g, TRUE>>}
    /\ UNCHANGED <<vars, roles>>

\* Defect: the role goes to whoever was checked.
Defect_GrantsAll(over18) == TRUE

Grants(over18) == over18

\* The role is added, or Discord refuses it or has no such member or role.
\* A verdict that is not 18+ is told to the member and changes nothing: a role
\* held from before is not taken away.
AssignRole(m, g, over18) ==
    /\ <<m, g, over18>> \in assigning
    /\ assigning' = assigning \ {<<m, g, over18>>}
    /\ \/ Grants(over18) /\ roles' = roles \cup {<<m, g>>}
       \/ UNCHANGED roles
    /\ UNCHANGED vars

Crash ==
    /\ assigning' = {}
    /\ UNCHANGED <<vars, roles>>

\* Everything of Verification that stores no verdict.
Elsewhere ==
    /\ \/ \E m \in Members, g \in Guilds : MemberStep(m, g)
       \/ \E a \in Accounts, c \in Codes : ShowCode(a, c)
       \/ \E c \in Codes : Lapse(c)
       \/ Sweep
       \/ \E q \in requests : CheckerAnswers(q) \/ CheckerGivesUp(q)
       \/ \E r \in results : DropExpired(r) \/ DropResult(r)
    /\ UNCHANGED role

RoleNext ==
    \/ \E r \in results : Verdict(r)
    \/ \E m \in Members, g \in Guilds :
         Reassign(m, g) \/ \E over18 \in BOOLEAN : AssignRole(m, g, over18)
    \/ Crash \/ Elsewhere

RoleSpec == RoleInit /\ [][RoleNext]_<<vars, role>>

\* A member has shown, by a code drawn for it and for them, that they hold an
\* account VRChat has called 18+.
ProvenAdult(m) ==
    \E c \in Codes :
      /\ issued[c] # None /\ issued[c].member = m
      /\ <<issued[c].account, c>> \in bio /\ issued[c].account \in seen18

\* assign_role hands the role only to a member who has proven one and the same
\* account both theirs and 18+, whatever results and coroutines overtook each
\* other, and whoever else's account or code they came with.  (Not "who is 18+
\* now": a coroutine acts on its own verdict though a later one is stored, and no
\* step takes a role away.)
RoleProven == \A mg \in roles : ProvenAdult(mg[1])
=============================================================================
