---------------------------- MODULE Credentials ----------------------------
(***************************************************************************)
(* What the handlers of accounts share: the user documents, reduced to the *)
(* fields those handlers decide on, and the requests in flight.  A request *)
(* is a record with a label "pc", the step it takes next, and the locals   *)
(* it keeps until then; several are in flight at a time.                   *)
(***************************************************************************)
EXTENDS Naturals, FiniteSets

CONSTANTS
    User,       \* the registered users; each has an email address of his own
    Call,       \* the requests that can be in flight at a time
    Bounds      \* the bounds a behaviour can be explored under

\* What a code is for.
Purpose == {"EMAIL_VERIFICATION", "PASSWORD_RESET", "PIN_RESET"}

ASSUME CallAssumption == IsFiniteSet(Call)

\* A behaviour has codes for these purposes only, and at most so many codes,
\* sessions, revocations and PINs.
ASSUME BoundsAssumption ==
    Bounds \subseteq [purpose : SUBSET Purpose,
                      code : Nat, session : Nat, revocation : Nat, pin : Nat]

VARIABLES
    bound,      \* the bounds of this behaviour; no step changes them
    user,       \* the user documents
    call        \* the state of every request

Free == [pc |-> "free"]

\* pin is 0 as long as there is none, and else which of his PINs it is.
\* revocations is history: how often all his sessions were revoked.
UserType == [User -> [active : BOOLEAN, verified : BOOLEAN, pin : Nat, stage : 1..2,
                      revocations : Nat]]

CredentialsInit ==
    /\ bound \in Bounds
    /\ user = [u \in User |-> [active |-> TRUE, verified |-> FALSE, pin |-> 0, stage |-> 1,
                               revocations |-> 0]]
    /\ call = [c \in Call |-> Free]

Goto(c, job) == call' = [call EXCEPT ![c] = job]

End(c) == Goto(c, Free)

\* AdminsService.toggleUserStatus; DepositProcessing has it in two steps.
ToggleUserStatus(u) ==
    /\ user' = [user EXCEPT ![u].active = ~@]
    /\ UNCHANGED <<bound, call>>

\* The process dies and starts again: what was in flight is gone.
Restart == /\ call' = [c \in Call |-> Free]
           /\ UNCHANGED <<bound, user>>
=============================================================================
