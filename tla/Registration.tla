---------------------------- MODULE Registration ----------------------------
(***************************************************************************)
(* AuthService.register: the email address and the phone number, the       *)
(* referrer and a fresh referral code are looked up one after the other,   *)
(* then one transaction creates the user and his referral, then he is      *)
(* welcomed.  Email and phone have unique indexes, the referral code has   *)
(* none.                                                                   *)
(***************************************************************************)
EXTENDS Naturals, FiniteSets

CONSTANTS Account,          \* ids of the users to be
          Email, Phone, Code,
          NoCode,           \* no referral code is given
          MaxDraws,         \* referral codes drawn by a request, 5 in the code
          Registrant        \* requests in flight at a time

ASSUME RegistrationAssumption == NoCode \notin Code /\ MaxDraws \in Nat

VARIABLES
    account,        \* the stored users and their referrals: a function on ids
    registering,    \* the state of every request
    sharing         \* history: the codes drawn by requests that overlapped

registrationVars == <<account, registering, sharing>>

Nobody == {}        \* as a referrer
Open   == [pc |-> "open"]

AccountType == [email : Email, phone : Phone, code : Code, active : BOOLEAN,
                referrer : SUBSET Account]

RegistrationJob ==
    {Open}
      \cup [pc : {"referrer"}, email : Email, phone : Phone, given : Code \cup {NoCode}]
      \cup [pc : {"draw", "create"}, email : Email, phone : Phone,
            referrer : SUBSET Account, code : Code \cup {NoCode}, draws : 0..MaxDraws]

RegistrationTypeOK ==
    /\ DOMAIN account \subseteq Account
    /\ account \in [DOMAIN account -> AccountType]
    /\ registering \in [Registrant -> RegistrationJob]
    /\ sharing \subseteq Code

RegistrationInit == /\ account = << >>
                    /\ registering = [r \in Registrant |-> Open]
                    /\ sharing = {}

Continue(r, job) == registering' = [registering EXCEPT ![r] = job]

\* Refused, failed, or the process dies.
GiveUp(r) == /\ registering[r] # Open
             /\ Continue(r, Open)
             /\ UNCHANGED <<account, sharing>>

\* Accounts.ToggleUserStatus and Sessions.DeleteAccount
ToggleActive(a) ==
    /\ a \in DOMAIN account
    /\ account' = [account EXCEPT ![a].active = ~@]
    /\ UNCHANGED <<registering, sharing>>

-----------------------------------------------------------------------------
Registered(email, phone) ==
    {a \in DOMAIN account : account[a].email = email \/ account[a].phone = phone}

BeginRegister(r, email, phone, given) ==
    /\ registering[r] = Open
    /\ Registered(email, phone) = {}
    /\ Continue(r, [pc |-> "referrer", email |-> email, phone |-> phone, given |-> given])
    /\ UNCHANGED <<account, sharing>>

\* The first active user with the code that is given; of several, any.
FindReferrer(r, referrer) ==
    LET job == registering[r] IN
    /\ job.pc = "referrer"
    /\ IF job.given = NoCode THEN referrer = Nobody
         ELSE \E a \in DOMAIN account : /\ referrer = {a}
                                        /\ account[a].code = job.given
                                        /\ account[a].active
    /\ Continue(r, [pc |-> "draw", email |-> job.email, phone |-> job.phone,
                    referrer |-> referrer, code |-> NoCode, draws |-> 0])
    /\ UNCHANGED <<account, sharing>>

\* Mutant: a code is not looked up.
InUse_Never(code) == FALSE

InUse(code) == \E a \in DOMAIN account : account[a].code = code

Patient(draws) == draws < MaxDraws

\* generateReferralCode: a random code, another one if it is in use.
DrawCode(r, code) ==
    LET job == registering[r] IN
    /\ job.pc = "draw"
    /\ Patient(job.draws)
    /\ Continue(r, [job EXCEPT !.draws = @ + 1,
                               !.pc    = IF InUse(code) THEN "draw" ELSE "create",
                               !.code  = IF InUse(code) THEN NoCode ELSE code])
    /\ sharing' = IF \E q \in Registrant \ {r} : /\ registering[q].pc = "create"
                                                 /\ registering[q].code = code
                    THEN sharing \cup {code} ELSE sharing
    /\ UNCHANGED account

\* The unique indexes.
Free(email, phone) == Registered(email, phone) = {}

\* The transaction: the user, and the referral if there is a referrer.
CreateUser(r, a) ==
    LET job == registering[r] IN
    /\ job.pc = "create"
    /\ a \notin DOMAIN account
    /\ Free(job.email, job.phone)
    /\ account' = [b \in DOMAIN account \cup {a} |->
                     IF b # a THEN account[b] ELSE
                       [email |-> job.email, phone |-> job.phone, code |-> job.code,
                        active |-> TRUE, referrer |-> job.referrer]]
    /\ Continue(r, Open)
    /\ UNCHANGED sharing

RegistrationNext ==
    \/ \E a \in Account : ToggleActive(a)
    \/ \E r \in Registrant :
         \/ GiveUp(r)
         \/ \E email \in Email, phone \in Phone, given \in Code \cup {NoCode} :
              BeginRegister(r, email, phone, given)
         \/ FindReferrer(r, Nobody) \/ \E a \in Account : FindReferrer(r, {a})
         \/ \E code \in Code : DrawCode(r, code)
         \/ \E a \in Account : CreateUser(r, a)

-----------------------------------------------------------------------------
\* Two users never share an email address or a phone number, although both are
\* looked up three steps before the user is created.
AccountsUnique ==
    \A a, b \in DOMAIN account :
      a # b => account[a].email # account[b].email /\ account[a].phone # account[b].phone

\* A referral code means one user, unless requests that overlapped drew it:
\* nobody's code is ever drawn again.
CodesUnique ==
    \A a, b \in DOMAIN account :
      a # b /\ account[a].code = account[b].code => account[a].code \in sharing

\* The same of the requests that are about to create their user: among them,
\* and against the users there are.
DrawsUnique ==
    \A r \in Registrant : registering[r].pc = "create" =>
      /\ registering[r].code \in Code
      /\ \A q \in Registrant \ {r} :
           registering[q].pc = "create" /\ registering[q].code = registering[r].code =>
             registering[r].code \in sharing
      /\ \A a \in DOMAIN account :
           account[a].code = registering[r].code => registering[r].code \in sharing

\* The inductive invariant.
RegistrationInv == RegistrationTypeOK /\ AccountsUnique /\ CodesUnique /\ DrawsUnique
=============================================================================
