---------------------------- MODULE OneTimeCode ----------------------------
(***************************************************************************)
(* What a one-time code promises: it is spent while it is open, by one     *)
(* request, and takes effect after that at most once.  A code can always   *)
(* be withdrawn, and a spent one lost before it took effect.               *)
(*                                                                         *)
(* Who holds a code and how often it took effect are told beside its       *)
(* status, so that a second request that spends it, or a second effect,    *)
(* is a step, and one that no action here allows.                          *)
(***************************************************************************)
EXTENDS Naturals

CONSTANT Request

VARIABLES
    status,     \* of every code: a function
    holders,    \* of every code: the requests that have spent and not yet used it
    effects     \* of every code: how often it took effect

oneTimeVars == <<status, holders, effects>>

Move(i, from, to) == status[i] = from /\ status' = [status EXCEPT ![i] = to]

Issue(i) == Move(i, "none", "open") /\ UNCHANGED <<holders, effects>>

Spend(i, r) ==
    /\ Move(i, "open", "spent")
    /\ holders' = [holders EXCEPT ![i] = {r}]
    /\ UNCHANGED effects

Apply(i) ==
    /\ Move(i, "spent", "applied")
    /\ holders' = [holders EXCEPT ![i] = {}]
    /\ effects' = [effects EXCEPT ![i] = @ + 1]

\* An email address is marked verified in the transaction that spends the code.
SpendAndApply(i) ==
    /\ Move(i, "open", "applied")
    /\ effects' = [effects EXCEPT ![i] = @ + 1]
    /\ UNCHANGED holders

Withdraw(ids) ==
    /\ \A i \in ids : status[i] \in {"open", "spent"}
    /\ status' = [i \in DOMAIN status |-> IF i \in ids THEN "void" ELSE status[i]]
    /\ holders' = [i \in DOMAIN holders |-> IF i \in ids THEN {} ELSE holders[i]]
    /\ UNCHANGED effects

CodeInit == \A i \in DOMAIN status : status[i] = "none" /\ holders[i] = {} /\ effects[i] = 0

CodeNext ==
    \/ \E i \in DOMAIN status :
         Issue(i) \/ Apply(i) \/ SpendAndApply(i) \/ \E r \in Request : Spend(i, r)
    \/ \E ids \in SUBSET DOMAIN status : Withdraw(ids)

CodeSpec == CodeInit /\ [][CodeNext]_oneTimeVars
=============================================================================
