------------------------------ MODULE Accounts ------------------------------
(***************************************************************************)
(* Codes and sessions on the same users, and what joins them: the password *)
(* reset, whose code is spent before its transaction and not in it, and    *)
(* the transaction PIN, written after checks on an earlier read.           *)
(***************************************************************************)
EXTENDS Otp, Sessions

accountVars == <<bound, user, call, codeVars, session>>

PinJob == [pc : {"pin"}, user : User, creates : BOOLEAN]

AccountsTypeOK ==
    /\ bound \in Bounds
    /\ user \in UserType
    /\ call \in [Call -> {Free} \cup CodeJob \cup SessionJob \cup PinJob]
    /\ OtpTypeOK
    /\ SessionTypeOK

AccountsInit == CredentialsInit /\ OtpInit /\ SessionInit

-----------------------------------------------------------------------------
Took(c) == used' = [used EXCEPT ![call[c].id] = @ + 1]

\* The transaction of resetPassword, after its code was spent.
ResetPassword(c) ==
    /\ call[c].pc = "apply"
    /\ call[c].purpose = "PASSWORD_RESET"
    /\ RevokeAll(call[c].user)
    /\ Took(c)
    /\ End(c)
    /\ UNCHANGED <<bound, code, issued, mailed>>

\* All but updatePin write the stage too.
NewPin(u, staged) ==
    /\ user[u].pin < bound.pin
    /\ user' = [user EXCEPT ![u].pin = @ + 1, ![u].stage = IF staged THEN 2 ELSE @]

ResetPin(c) ==
    /\ call[c].pc = "apply"
    /\ call[c].purpose = "PIN_RESET"
    /\ NewPin(call[c].user, TRUE)
    /\ Took(c)
    /\ End(c)
    /\ UNCHANGED <<bound, code, issued, mailed, session>>

BeginCreatePin(c, u) ==
    /\ call[c] = Free
    /\ bound.pin > 0
    /\ user[u].active
    /\ user[u].pin = 0
    /\ Goto(c, [pc |-> "pin", user |-> u, creates |-> TRUE])
    /\ UNCHANGED <<bound, user, codeVars, session>>

\* Mutant: that there is a PIN to update is not looked at.
BeginUpdatePin_Any(c, u) ==
    /\ call[c] = Free
    /\ bound.pin > 0
    /\ user[u].active
    /\ Goto(c, [pc |-> "pin", user |-> u, creates |-> FALSE])
    /\ UNCHANGED <<bound, user, codeVars, session>>

\* With the right old PIN.
BeginUpdatePin(c, u) == user[u].pin # 0 /\ BeginUpdatePin_Any(c, u)

\* createPin and updatePin write whatever the PIN is by now.
WritePin(c) ==
    /\ call[c].pc = "pin"
    /\ NewPin(call[c].user, call[c].creates)
    /\ End(c)
    /\ UNCHANGED <<bound, codeVars, session>>

AccountsNext ==
    \/ OtpNext /\ UNCHANGED session
    \/ SessionNext /\ UNCHANGED codeVars
    \/ \E u \in User : ToggleUserStatus(u) /\ UNCHANGED <<codeVars, session>>
    \/ Restart /\ UNCHANGED <<codeVars, session>>
    \/ \E c \in Call :
         \/ ResetPassword(c) \/ ResetPin(c) \/ WritePin(c)
         \/ \E u \in User : BeginCreatePin(c, u) \/ BeginUpdatePin(c, u)

AccountsSpec == AccountsInit /\ [][AccountsNext]_accountVars

-----------------------------------------------------------------------------
\* A user is past the first stage of his registration exactly if he has a PIN,
\* through every way to set one.
StageFollowsPin == \A u \in User : user[u].stage = 2 <=> user[u].pin # 0

\* A PIN that is to be updated is not taken away meanwhile.
UpdatesHavePin ==
    \A c \in Call : call[c].pc = "pin" /\ ~call[c].creates => user[call[c].user].pin # 0

\* The inductive invariant: types, what codes and sessions count, what a
\* revocation leaves, and that a user is past the first stage exactly if he has
\* a PIN although createPin, updatePin and resetPin write over one another.
AccountsInv == AccountsTypeOK /\ OtpInv /\ SessionInv /\ StageFollowsPin /\ UpdatesHavePin

\* The requests that have spent a code and not used it yet.
Holders(i) == {c \in Call : call[c].pc = "apply" /\ call[c].id = i}

\* What has become of a code.
Status(i) ==
    CASE i > issued         -> "none"
      [] i \in DOMAIN code   -> "open"
      [] used[i] > 0         -> "applied"
      [] Holders(i) # {}     -> "spent"
      [] OTHER               -> "void"

Promise == INSTANCE OneTimeCode WITH
             Request <- Call,
             status  <- [i \in 1..bound.code |-> Status(i)],
             holders <- [i \in 1..bound.code |-> Holders(i)],
             effects <- used

\* The codes implement OneTimeCode: one request spends a code, while it is
\* stored, and the reset that it authorises happens once, or not at all.  A
\* request more that holds a spent code, or a use more of one, is no step of it.
ImplementsOneTimeCode == Promise!CodeSpec
=============================================================================
