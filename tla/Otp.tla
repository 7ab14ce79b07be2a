-------------------------------- MODULE Otp --------------------------------
(***************************************************************************)
(* EmailVerificationService: one-time codes for the three purposes.  A     *)
(* code is named by the number it was created with, so that the latest one *)
(* is the largest; to know a code is to hold its number.  Two codes are    *)
(* taken to differ.                                                        *)
(*                                                                         *)
(* Nothing here is a transaction but the last step: the cooldown, the      *)
(* limit of attempts and the expiry are checked on records read earlier.   *)
(***************************************************************************)
EXTENDS Credentials, FiniteSetsExt

CONSTANT AttemptLimit       \* wrong guesses a code survives, 5 in the code

ASSUME OtpAssumption == AttemptLimit \in Nat \ {0}

VARIABLES
    code,       \* the emailverifications collection: a function on the stored codes
    issued,     \* the number of codes created so far
    mailed,     \* the codes that were sent or logged
    used        \* history: how often the reset or verification of a code took effect

codeVars == <<code, issued, mailed, used>>

\* Ages of a code: younger than 60 seconds, usable, expired after 10 minutes.
Fresh   == 0
Expired == 2

CodeJob ==
    [pc : {"cooldown", "clear", "create"}, user : User, purpose : Purpose]
      \cup [pc : {"deliver"}, id : Nat]
      \cup [pc : {"lookup"}, user : User, purpose : Purpose, guess : Nat]
      \cup [pc : {"compare"}, user : User, purpose : Purpose, guess : Nat,
            id : Nat, expired : BOOLEAN, attempts : Nat]
      \cup [pc : {"apply"}, user : User, purpose : Purpose, id : Nat]

OtpTypeOK ==
    /\ issued \in 0..bound.code
    /\ DOMAIN code \subseteq 1..issued
    /\ code \in [DOMAIN code -> [user : User, purpose : Purpose,
                                 attempts : Nat, age : Fresh..Expired]]
    /\ mailed \subseteq 1..issued
    /\ used \in [1..bound.code -> Nat]

OtpInit == /\ code = << >>
           /\ issued = 0
           /\ mailed = {}
           /\ used = [i \in 1..bound.code |-> 0]

CodesOf(u, p) == {i \in DOMAIN code : code[i].user = u /\ code[i].purpose = p}

Without(ids) == [i \in DOMAIN code \ ids |-> code[i]]

\* Time passes for one code; the older ones are ahead of it.
Elapse(i) ==
    /\ i \in DOMAIN code
    /\ code[i].age < Expired
    /\ \A j \in DOMAIN code : j < i => code[j].age > code[i].age
    /\ code' = [code EXCEPT ![i].age = @ + 1]
    /\ UNCHANGED <<bound, user, call, issued, mailed, used>>

-----------------------------------------------------------------------------
(* sendPurposeOtp *)

\* sendOtp, forgotPassword and forgotPin; the last two want an active user.
RequestCode(c, u, p) ==
    /\ call[c] = Free
    /\ issued < bound.code
    /\ p \in bound.purpose
    /\ p # "EMAIL_VERIFICATION" => user[u].active
    /\ Goto(c, [pc |-> "cooldown", user |-> u, purpose |-> p])
    /\ UNCHANGED <<bound, user, codeVars>>

\* The latest code that has not expired must be a minute old.
CheckCooldown(c) ==
    LET job     == call[c]
        pending == {i \in CodesOf(job.user, job.purpose) : code[i].age < Expired}
        tooSoon == pending # {} /\ code[Max(pending)].age = Fresh
    IN
    /\ job.pc = "cooldown"
    /\ Goto(c, IF tooSoon THEN Free ELSE [job EXCEPT !.pc = "clear"])
    /\ UNCHANGED <<bound, user, codeVars>>

\* Mutant: only the codes that have expired are deleted.
Replaced_Expired(job) == {i \in CodesOf(job.user, job.purpose) : code[i].age = Expired}

Replaced(job) == CodesOf(job.user, job.purpose)

ClearCodes(c) ==
    LET job == call[c] IN
    /\ job.pc = "clear"
    /\ code' = Without(Replaced(job))
    /\ Goto(c, [job EXCEPT !.pc = "create"])
    /\ UNCHANGED <<bound, user, issued, mailed, used>>

CreateCode(c) ==
    LET job == call[c] IN
    /\ job.pc = "create"
    /\ issued < bound.code
    /\ issued' = issued + 1
    /\ code' = [i \in DOMAIN code \cup {issued'} |->
                  IF i # issued' THEN code[i] ELSE
                    [user |-> job.user, purpose |-> job.purpose, attempts |-> 0, age |-> Fresh]]
    /\ Goto(c, [pc |-> "deliver", id |-> issued'])
    /\ UNCHANGED <<bound, user, mailed, used>>

\* EmailService.send: without configuration the message is only logged, which
\* counts as sent; an error of the provider, or no message id, is thrown.
SendEmail(configured, accepted) ==
    CASE ~configured -> "logged"
      [] configured /\ accepted -> "sent"
      [] OTHER -> "failed"

\* The code stays stored also if its delivery fails.
DeliverCode(c) ==
    /\ call[c].pc = "deliver"
    /\ \E configured, accepted \in BOOLEAN :
         mailed' = IF SendEmail(configured, accepted) = "failed"
                     THEN mailed ELSE mailed \cup {call[c].id}
    /\ End(c)
    /\ UNCHANGED <<bound, user, code, issued, used>>

-----------------------------------------------------------------------------
(* verifyPurposeOtp *)

\* verifyOtp, resetPassword and resetPin; the guess is 0 if it is no code.
SubmitCode(c, u, p, guess) ==
    /\ call[c] = Free
    /\ p \in bound.purpose
    /\ p # "EMAIL_VERIFICATION" => user[u].active
    /\ Goto(c, [pc |-> "lookup", user |-> u, purpose |-> p, guess |-> guess])
    /\ UNCHANGED <<bound, user, codeVars>>

LookUpCode(c) ==
    LET job  == call[c]
        last == Max(CodesOf(job.user, job.purpose))
    IN
    /\ job.pc = "lookup"
    /\ Goto(c, IF CodesOf(job.user, job.purpose) = {} THEN Free ELSE
         [pc |-> "compare", user |-> job.user, purpose |-> job.purpose, guess |-> job.guess,
          id |-> last, expired |-> code[last].age = Expired,
          attempts |-> code[last].attempts])
    /\ UNCHANGED <<bound, user, codeVars>>

\* Mutant: the sixth guess is still compared.
Exhausted_Late(job) == job.expired \/ job.attempts > AttemptLimit

Exhausted(job) == job.expired \/ job.attempts >= AttemptLimit

DiscardCode(c) ==
    LET job == call[c] IN
    /\ job.pc = "compare"
    /\ Exhausted(job)
    /\ code' = Without({job.id})
    /\ End(c)
    /\ UNCHANGED <<bound, user, issued, mailed, used>>

\* The increment is the database's; it fails if the code is gone.
MissCode(c) ==
    LET job == call[c] IN
    /\ job.pc = "compare"
    /\ ~Exhausted(job)
    /\ job.guess # job.id
    /\ code' = IF job.id \in DOMAIN code
                 THEN [code EXCEPT ![job.id].attempts = @ + 1] ELSE code
    /\ End(c)
    /\ UNCHANGED <<bound, user, issued, mailed, used>>

\* Mutant: deleteMany, which does not fail if the code is gone already.
Spendable_Always(job) == job.guess = job.id

\* A delete by id fails the request if the code is gone.
Spendable(job) == job.guess = job.id /\ job.id \in DOMAIN code

\* The right code: deleted, for EMAIL_VERIFICATION together with the mark on
\* the user; the resets go on to their own writes.
SpendCode(c) ==
    LET job   == call[c]
        email == job.purpose = "EMAIL_VERIFICATION"
    IN
    /\ job.pc = "compare"
    /\ ~Exhausted(job)
    /\ Spendable(job)
    /\ code' = Without({job.id})
    /\ user' = IF email THEN [user EXCEPT ![job.user].verified = TRUE] ELSE user
    /\ used' = IF email THEN [used EXCEPT ![job.id] = @ + 1] ELSE used
    /\ Goto(c, IF email THEN Free ELSE [pc |-> "apply", user |-> job.user,
                                        purpose |-> job.purpose, id |-> job.id])
    /\ UNCHANGED <<bound, issued, mailed>>

SpendFails(c) ==
    LET job == call[c] IN
    /\ job.pc = "compare"
    /\ ~Exhausted(job)
    /\ job.guess = job.id
    /\ ~Spendable(job)
    /\ End(c)
    /\ UNCHANGED <<bound, user, codeVars>>

OtpNext ==
    \/ \E i \in DOMAIN code : Elapse(i)
    \/ \E c \in Call :
         \/ \E u \in User, p \in Purpose :
              \/ RequestCode(c, u, p)
              \/ \E guess \in mailed \cup {0} : SubmitCode(c, u, p, guess)
         \/ CheckCooldown(c) \/ ClearCodes(c) \/ CreateCode(c) \/ DeliverCode(c)
         \/ LookUpCode(c) \/ DiscardCode(c) \/ MissCode(c) \/ SpendCode(c) \/ SpendFails(c)

-----------------------------------------------------------------------------
\* The limit of attempts is checked before the comparison and counted after
\* it, so guesses in flight together exceed it, but by no more than the other
\* requests in flight.
AttemptsBounded ==
    \A i \in DOMAIN code : code[i].attempts < AttemptLimit + Cardinality(Call)

\* The guesses that will still be compared, whatever becomes of the code.
Comparing(i) ==
    {c \in Call : call[c].pc = "compare" /\ call[c].id = i /\ ~Exhausted(call[c])}

AttemptsCounted ==
    \A i \in DOMAIN code :
      code[i].attempts + Cardinality(Comparing(i)) < AttemptLimit + Cardinality(Call)

\* Requests that pass the cooldown together leave a code each, but codes do
\* not pile up: every request deletes what is stored before it creates one.
CodesPerPurpose ==
    \A u \in User, p \in Purpose : Cardinality(CodesOf(u, p)) <= Cardinality(Call)

\* The requests that have deleted the codes and not created theirs.
Creating(u, p) ==
    {c \in Call : call[c].pc = "create" /\ call[c].user = u /\ call[c].purpose = p}

CodesCounted ==
    \A u \in User, p \in Purpose :
      Cardinality(CodesOf(u, p)) + Cardinality(Creating(u, p)) <= Cardinality(Call)

\* A code is spent by one request, and has not taken effect while that goes on.
SpentOnce ==
    /\ \A i \in 1..bound.code : (i \in DOMAIN code \/ i > issued) => used[i] = 0
    /\ \A c \in Call :
         call[c].pc = "apply" =>
           /\ call[c].id \in (1..issued) \ DOMAIN code
           /\ used[call[c].id] = 0
           /\ \A d \in Call \ {c} : call[d].pc = "apply" => call[d].id # call[c].id

\* What is being delivered was created.
DeliversCreated == \A c \in Call : call[c].pc = "deliver" => call[c].id \in 1..issued

OtpInv == OtpTypeOK /\ AttemptsCounted /\ CodesCounted /\ SpentOnce /\ DeliversCreated
=============================================================================
