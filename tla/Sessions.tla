------------------------------ MODULE Sessions ------------------------------
(***************************************************************************)
(* The refresh sessions of AuthService and UsersService: sign-in by        *)
(* password or Google, rotation, logout, and the handlers that revoke all  *)
(* sessions of a user at once.  A session is named by the number it was    *)
(* created with; to hold its refresh token is to know that number.  Access *)
(* tokens are not stored and expire within minutes: left out.              *)
(*                                                                         *)
(* A rotation checks its session, revokes it and creates the next one in   *)
(* three separate steps, none of them in a transaction.                    *)
(***************************************************************************)
EXTENDS Credentials, Sequences

VARIABLE session    \* the refreshsessions collection: nothing is deleted from it

\* parent (0 if signed in) and epoch, the revocations of the user when it was
\* created, are history.
SessionType == [user : User, revoked : BOOLEAN, expired : BOOLEAN,
                parent : Nat, epoch : Nat]

SessionJob == [pc : {"stamp"}, user : User, seen : BOOLEAN, proven : BOOLEAN]
                \cup [pc : {"rotate"}, id : Nat]
                \cup [pc : {"mint"}, user : User, parent : Nat]
                \cup [pc : {"rewrite"}, user : User]

SessionTypeOK == session \in Seq(SessionType)

SessionInit == session = << >>

Live(s) == ~session[s].revoked /\ ~session[s].expired

Room == Len(session) < bound.session

ExpireSession(s) ==
    /\ session[s].expired = FALSE
    /\ session' = [session EXCEPT ![s].expired = TRUE]
    /\ UNCHANGED <<bound, user, call>>

-----------------------------------------------------------------------------
\* With the right password; that a login writes lastLoginAt is left out.
Login(c, u) ==
    /\ call[c] = Free
    /\ Room
    /\ user[u].active
    /\ Goto(c, [pc |-> "mint", user |-> u, parent |-> 0])
    /\ UNCHANGED <<bound, user, session>>

\* With a valid ID token for the user's address, whatever his status; Google
\* says whether it has proven the address.
GoogleLogin(c, u, proven) ==
    /\ call[c] = Free
    /\ Room
    /\ Goto(c, [pc |-> "stamp", user |-> u, seen |-> user[u].verified, proven |-> proven])
    /\ UNCHANGED <<bound, user, session>>

\* Mutant: only what Google says counts.
Stamp_Overwrites(c) ==
    LET job == call[c] IN
    /\ job.pc = "stamp"
    /\ user' = [user EXCEPT ![job.user].verified = job.proven]
    /\ Goto(c, [pc |-> "mint", user |-> job.user, parent |-> 0])
    /\ UNCHANGED <<bound, session>>

\* The mark is computed from the user as he was read.
Stamp(c) ==
    LET job == call[c] IN
    /\ job.pc = "stamp"
    /\ user' = [user EXCEPT ![job.user].verified = job.seen \/ job.proven]
    /\ Goto(c, [pc |-> "mint", user |-> job.user, parent |-> 0])
    /\ UNCHANGED <<bound, session>>

\* authResponse, which ends sign-in and rotation, stores the new session.
Mint(c) ==
    LET job == call[c] IN
    /\ job.pc = "mint"
    /\ Room
    /\ session' = Append(session, [user |-> job.user, revoked |-> FALSE, expired |-> FALSE,
                                   parent |-> job.parent,
                                   epoch  |-> user[job.user].revocations])
    /\ End(c)
    /\ UNCHANGED <<bound, user>>

\* Mutant: revokedAt is not looked at.
Refresh_AnyToken(c, s) ==
    /\ call[c] = Free
    /\ Room
    /\ ~session[s].expired
    /\ user[session[s].user].active
    /\ Goto(c, [pc |-> "rotate", id |-> s])
    /\ UNCHANGED <<bound, user, session>>

Refresh(c, s) == Live(s) /\ Refresh_AnyToken(c, s)

\* The update is by id only: it revokes what may be revoked already.
Rotate(c) ==
    LET s == call[c].id IN
    /\ call[c].pc = "rotate"
    /\ session' = [session EXCEPT ![s].revoked = TRUE]
    /\ Goto(c, [pc |-> "mint", user |-> session[s].user, parent |-> s])
    /\ UNCHANGED <<bound, user>>

Logout(s) ==
    /\ Live(s)
    /\ session' = [session EXCEPT ![s].revoked = TRUE]
    /\ UNCHANGED <<bound, user, call>>

-----------------------------------------------------------------------------
\* Mutant: the password alone is written.
RevokeAll_None(u) ==
    /\ user[u].revocations < bound.revocation
    /\ user' = [user EXCEPT ![u].revocations = @ + 1]
    /\ UNCHANGED session

\* The transaction of a new password: every session of the user is revoked.
RevokeAll(u) ==
    /\ user[u].revocations < bound.revocation
    /\ user' = [user EXCEPT ![u].revocations = @ + 1]
    /\ session' = [s \in DOMAIN session |->
                     IF session[s].user = u THEN [session[s] EXCEPT !.revoked = TRUE]
                                            ELSE session[s]]

\* With the right current password.
BeginChangePassword(c, u) ==
    /\ call[c] = Free
    /\ bound.revocation > 0
    /\ user[u].active
    /\ Goto(c, [pc |-> "rewrite", user |-> u])
    /\ UNCHANGED <<bound, user, session>>

ChangePassword(c) ==
    /\ call[c].pc = "rewrite"
    /\ RevokeAll(call[c].user)
    /\ End(c)
    /\ UNCHANGED bound

\* One transaction; the push token it clears is PushQueue's ReleaseToken.
DeleteAccount(u) ==
    /\ user[u].active
    /\ user[u].revocations < bound.revocation
    /\ user' = [user EXCEPT ![u].active = FALSE, ![u].revocations = @ + 1]
    /\ session' = [s \in DOMAIN session |->
                     [session[s] EXCEPT !.revoked = @ \/ session[s].user = u]]
    /\ UNCHANGED <<bound, call>>

SessionNext ==
    \/ \E s \in DOMAIN session : ExpireSession(s) \/ Logout(s)
    \/ \E u \in User : DeleteAccount(u)
    \/ \E c \in Call :
         \/ \E u \in User : \/ Login(c, u) \/ BeginChangePassword(c, u)
                            \/ \E proven \in BOOLEAN : GoogleLogin(c, u, proven)
         \/ \E s \in DOMAIN session : Refresh(c, s)
         \/ Stamp(c) \/ Mint(c) \/ Rotate(c) \/ ChangePassword(c)

-----------------------------------------------------------------------------
\* Rotations of one token at once each create a session, but no rotation that
\* starts after the first of them has revoked it does.
Children(s) == {t \in DOMAIN session : session[t].parent = s}

ChildrenBounded == \A s \in DOMAIN session : Cardinality(Children(s)) <= Cardinality(Call)

\* The requests that passed the checks of a token and have not minted yet.
Rotating(s) ==
    {c \in Call : \/ (call[c].pc = "rotate" /\ call[c].id = s)
                 \/ (call[c].pc = "mint" /\ call[c].parent = s)}

ChildrenCounted ==
    \A s \in DOMAIN session :
      /\ Cardinality(Children(s)) + Cardinality(Rotating(s)) <= Cardinality(Call)
      /\ ~session[s].revoked =>
           /\ Children(s) = {}
           /\ \A c \in Call : call[c].pc = "mint" => call[c].parent # s

ParentsExist ==
    /\ \A t \in DOMAIN session : session[t].parent < t
    /\ \A c \in Call : /\ call[c].pc = "rotate" => call[c].id \in DOMAIN session
                       /\ call[c].pc = "mint" => call[c].parent \in 0..Len(session)

\* A new password, or the end of the account, ends every session there is: what
\* is live was created afterwards, by a sign-in or rotation that finished then.
LiveSinceRevocation ==
    \A s \in DOMAIN session : Live(s) => session[s].epoch = user[session[s].user].revocations

SessionInv == SessionTypeOK /\ ParentsExist /\ ChildrenCounted /\ LiveSinceRevocation

\* A verified address is unmarked by nobody but a Google sign-in that read the
\* user before it was verified.
UnverifiedOnlyByStaleSignIn ==
    [][\A u \in User : user[u].verified /\ ~user'[u].verified =>
         \E c \in Call : call[c].pc = "stamp" /\ call[c].user = u /\ ~call[c].seen]_user
=============================================================================
