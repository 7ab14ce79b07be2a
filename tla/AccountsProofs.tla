-------------------------- MODULE AccountsProofs --------------------------
(***************************************************************************)
(* AccountsInv is an inductive invariant of Accounts, for any number of    *)
(* users, requests, attempts and bounds, and the codes of Otp implement    *)
(* OneTimeCode.                                                            *)
(*                                                                         *)
(* The invariant is proved in three parts: the users and their PINs        *)
(* (UserFacts), the codes (OtpInv) and the sessions (SessionInv).  Of the  *)
(* requests each part looks at a few labels only, so that a step of one    *)
(* part frames the others.  Attempts, codes and children of a session are  *)
(* bounded by counting, together with what is stored, the requests that    *)
(* are still to add to it.                                                 *)
(***************************************************************************)
EXTENDS Accounts, FiniteSetTheorems, SequenceTheorems, TLAPS

AnyCall == {Free} \cup CodeJob \cup SessionJob \cup PinJob

UserFacts ==
    /\ bound \in Bounds
    /\ user \in UserType
    /\ call \in [Call -> AnyCall]
    /\ StageFollowsPin
    /\ UpdatesHavePin

LEMMA Parts ==
  /\ AccountsInv <=> UserFacts /\ OtpInv /\ SessionInv
  /\ AccountsInv' <=> UserFacts' /\ OtpInv' /\ SessionInv'
  BY DEF AccountsInv, AccountsTypeOK, UserFacts, OtpInv, SessionInv, AnyCall

LEMMA BoundOf ==
  ASSUME bound \in Bounds
  PROVE  /\ bound.code \in Nat /\ bound.session \in Nat
         /\ bound.revocation \in Nat /\ bound.pin \in Nat
  BY BoundsAssumption

LEMMA CallCounts ==
  /\ IsFiniteSet(Call) /\ Cardinality(Call) \in Nat
  /\ \A S \in SUBSET Call : /\ IsFiniteSet(S) /\ Cardinality(S) \in Nat
                            /\ Cardinality(S) <= Cardinality(Call)
  BY CallAssumption, FS_Subset, FS_CardinalityType

LEMMA CountsGrow ==
  ASSUME NEW T, IsFiniteSet(T), NEW S \in SUBSET T
  PROVE  /\ IsFiniteSet(S) /\ Cardinality(S) \in Nat /\ Cardinality(T) \in Nat
         /\ Cardinality(S) <= Cardinality(T)
  BY FS_Subset, FS_CardinalityType

\* What a request keeps, by the step it is to take.
LEMMA JobFields ==
  ASSUME NEW job \in AnyCall
  PROVE  /\ job.pc \in {"cooldown", "clear", "create"} =>
              job.user \in User /\ job.purpose \in Purpose
         /\ job.pc = "deliver" => job.id \in Nat
         /\ job.pc = "lookup" =>
              job.user \in User /\ job.purpose \in Purpose /\ job.guess \in Nat
         /\ job.pc = "compare" =>
              /\ job.user \in User /\ job.purpose \in Purpose /\ job.guess \in Nat
              /\ job.id \in Nat /\ job.expired \in BOOLEAN /\ job.attempts \in Nat
         /\ job.pc = "apply" => job.user \in User /\ job.purpose \in Purpose /\ job.id \in Nat
         /\ job.pc = "stamp" => job.user \in User /\ job.seen \in BOOLEAN /\ job.proven \in BOOLEAN
         /\ job.pc = "rotate" => job.id \in Nat
         /\ job.pc = "mint" => job.user \in User /\ job.parent \in Nat
         /\ job.pc = "rewrite" => job.user \in User
         /\ job.pc = "pin" => job.user \in User /\ job.creates \in BOOLEAN
  BY DEF AnyCall, Free, CodeJob, SessionJob, PinJob

LEMMA GotoFacts ==
  ASSUME call \in [Call -> AnyCall], NEW c \in Call, NEW job \in AnyCall, Goto(c, job)
  PROVE  /\ call' \in [Call -> AnyCall]
         /\ call'[c] = job
         /\ \A q \in Call \ {c} : call'[q] = call[q]
  BY DEF Goto

LEMMA EndFacts ==
  ASSUME call \in [Call -> AnyCall], NEW c \in Call, End(c)
  PROVE  /\ call' \in [Call -> AnyCall]
         /\ call'[c].pc = "free"
         /\ \A q \in Call \ {c} : call'[q] = call[q]
  <1>1. Free \in AnyCall /\ Free.pc = "free"
    BY DEF AnyCall, Free
  <1> QED
    BY <1>1, GotoFacts DEF End

\* A set of codes has a latest one.
LEMMA MaxOf ==
  ASSUME NEW n \in Nat, NEW C \in SUBSET (1..n), C # {}
  PROVE  Max(C) \in C /\ \A i \in C : Max(C) >= i
  <1> DEFINE Up(i) == {j \in C : j >= i}
             T == {Up(i) : i \in C}
             R == StrictSubsetOrdering(1..n)
  <1>1. IsWellFoundedOn(R, FiniteSubsetsOf(1..n))
    BY FS_StrictSubsetOrderingWellFounded
  <1>2. T \subseteq FiniteSubsetsOf(1..n)
    <2>1. IsFiniteSet(1..n)
      BY FS_Interval
    <2>2. FiniteSubsetsOf(1..n) = SUBSET (1..n)
      BY <2>1, FS_FiniteSubsetsOfFinite
    <2>3. \A i \in C : Up(i) \in SUBSET (1..n)
      OBVIOUS
    <2> QED
      BY <2>2, <2>3
  <1>3. T # {}
    OBVIOUS
  <1> HIDE DEF R
  <1>4. PICK x \in T : \A y \in T : ~ (<<y, x>> \in R)
    BY <1>1, <1>2, <1>3, WFMin
  <1>5. PICK i \in C : x = Up(i)
    OBVIOUS
  <1>6. ASSUME NEW j \in C PROVE i >= j
    <2>1. SUFFICES ASSUME j > i PROVE FALSE
      OBVIOUS
    <2>2. Up(j) \subseteq Up(i) /\ i \in Up(i) /\ i \notin Up(j)
      <3>1. i \in Int /\ j \in Int /\ \A k \in C : k \in Int
        OBVIOUS
      <3>2. ASSUME NEW k \in Up(j) PROVE k \in Up(i)
        <4>1. k \in C /\ k \in Int /\ k >= j
          BY <3>1
        <4>2. k >= i
          BY <2>1, <3>1, <4>1
        <4> QED
          BY <4>1, <4>2
      <3>3. i \in Up(i)
        BY <3>1
      <3>4. i \notin Up(j)
        BY <2>1, <3>1
      <3> QED
        BY <3>2, <3>3, <3>4
    <2>3. <<Up(j), Up(i)>> \in R
      BY <2>2 DEF R, StrictSubsetOrdering
    <2> QED
      BY <1>4, <1>5, <2>3
  <1> QED
    BY <1>6 DEF Max

-----------------------------------------------------------------------------
(* Sessions *)

LEMMA SessionDomain ==
  ASSUME SessionTypeOK
  PROVE  /\ Len(session) \in Nat
         /\ DOMAIN session = 1..Len(session)
         /\ \A s \in DOMAIN session : session[s] \in SessionType
         /\ \A s \in DOMAIN session :
              /\ session[s].user \in User /\ session[s].parent \in Nat
              /\ session[s].revoked \in BOOLEAN /\ session[s].expired \in BOOLEAN
              /\ session[s].epoch \in Nat
  <1>1. /\ session \in Seq(SessionType)
        /\ Len(session) \in Nat /\ DOMAIN session = 1..Len(session)
    BY DEF SessionTypeOK
  <1>2. ASSUME NEW s \in DOMAIN session PROVE session[s] \in SessionType
    BY <1>1, ElementOfSeq
  <1> QED
    BY <1>1, <1>2 DEF SessionType

\* Sessions that are only marked, revoked or expired, keep their counts, as long
\* as no request gets a parent that is not revoked.
LEMMA MarkedKeeps ==
  ASSUME SessionInv, SessionTypeOK', Len(session') = Len(session),
         \A s \in DOMAIN session :
           /\ session'[s].user = session[s].user
           /\ session'[s].parent = session[s].parent
           /\ session'[s].epoch = session[s].epoch
           /\ session[s].revoked => session'[s].revoked
           /\ Live(s)' => /\ Live(s)
                          /\ user'[session[s].user].revocations = user[session[s].user].revocations,
         \A q \in Call : call'[q].pc \in {"rotate", "mint"} =>
           \/ call'[q] = call[q]
           \/ /\ call[q].pc = "rotate" /\ call'[q].pc = "mint"
              /\ call'[q].parent = call[q].id /\ session'[call[q].id].revoked
           \/ call'[q].pc = "mint" /\ call'[q].parent = 0
  PROVE  SessionInv'
  <1>1. /\ Len(session) \in Nat
        /\ DOMAIN session = 1..Len(session) /\ DOMAIN session' = DOMAIN session
    BY SessionDomain DEF SessionInv, SessionTypeOK
  <1>2. LiveSinceRevocation'
    BY <1>1 DEF SessionInv, LiveSinceRevocation
  <1>3. ParentsExist'
    <2>1. \A t \in DOMAIN session' : session'[t].parent < t
      BY <1>1 DEF SessionInv, ParentsExist
    <2>2. \A q \in Call : /\ call'[q].pc = "rotate" => call'[q].id \in DOMAIN session'
                          /\ call'[q].pc = "mint" => call'[q].parent \in 0..Len(session')
      BY <1>1 DEF SessionInv, ParentsExist
    <2> QED
      BY <2>1, <2>2 DEF ParentsExist
  <1>4. ChildrenCounted'
    <2> SUFFICES ASSUME NEW s \in DOMAIN session
                 PROVE  /\ Cardinality(Children(s)') + Cardinality(Rotating(s)') <= Cardinality(Call)
                        /\ ~session'[s].revoked =>
                             /\ Children(s)' = {}
                             /\ \A c \in Call : call'[c].pc = "mint" => call'[c].parent # s
      BY <1>1 DEF ChildrenCounted
    <2>1. Children(s)' = Children(s)
      BY <1>1 DEF Children
    <2>2. s # 0
      BY <1>1
    <2>3. Rotating(s)' \subseteq Rotating(s)
      BY <2>2 DEF Rotating
    <2>4. /\ Cardinality(Children(s)) + Cardinality(Rotating(s)) <= Cardinality(Call)
          /\ ~session[s].revoked =>
               /\ Children(s) = {}
               /\ \A c \in Call : call[c].pc = "mint" => call[c].parent # s
      BY DEF SessionInv, ChildrenCounted
    <2>5. Cardinality(Children(s))+ Cardinality(Rotating(s)') <= Cardinality(Call)
      <3>1. IsFiniteSet(Rotating(s))
        BY CallCounts DEF Rotating
      <3>2. /\ Cardinality(Rotating(s)') \in Nat /\ Cardinality(Rotating(s)) \in Nat
            /\ Cardinality(Rotating(s)') <= Cardinality(Rotating(s))
        BY <2>3, <3>1, CountsGrow
      <3>3. IsFiniteSet(Children(s))
        <4>1. IsFiniteSet(1..Len(session))
          BY <1>1, FS_Interval
        <4> QED
          BY <1>1, <4>1, CountsGrow DEF Children
      <3>4. Cardinality(Children(s)) \in Nat
        BY <3>3, FS_CardinalityType
      <3> QED
        BY <2>4, <3>2, <3>4, CallCounts
    <2>6. ~session'[s].revoked => \A c \in Call : call'[c].pc = "mint" => call'[c].parent # s
      BY <2>2, <2>4
    <2> QED
      BY <2>1, <2>4, <2>5, <2>6
  <1> QED
    BY <1>2, <1>3, <1>4 DEF SessionInv

LEMMA SessionsFrame ==
  ASSUME SessionInv, session' = session,
         \A u \in User : user'[u].revocations = user[u].revocations,
         \A q \in Call : call'[q].pc \in {"rotate", "mint"} =>
           call'[q] = call[q] \/ (call'[q].pc = "mint" /\ call'[q].parent = 0)
  PROVE  SessionInv'
  <1>1. SessionTypeOK' /\ \A s \in DOMAIN session : session[s].user \in User
    BY SessionDomain DEF SessionInv, SessionTypeOK
  <1> QED
    BY <1>1, MarkedKeeps DEF Live

LEMMA RefreshKeeps ==
  ASSUME UserFacts, SessionInv, NEW c \in Call, NEW s \in DOMAIN session, Refresh(c, s)
  PROVE  SessionInv' /\ call' \in [Call -> AnyCall] /\ call'[c].pc = "rotate"
         /\ \A q \in Call \ {c} : call'[q] = call[q]
  <1>1. /\ Live(s) /\ UNCHANGED <<bound, user, session>>
        /\ Goto(c, [pc |-> "rotate", id |-> s]) /\ call[c] = Free
    BY DEF Refresh, Refresh_AnyToken
  <1>2. /\ Len(session) \in Nat /\ DOMAIN session = 1..Len(session)
    BY SessionDomain DEF SessionInv
  <1>3. [pc |-> "rotate", id |-> s] \in AnyCall
    BY <1>2 DEF AnyCall, SessionJob
  <1>4. /\ call' \in [Call -> AnyCall]
        /\ call'[c] = [pc |-> "rotate", id |-> s]
        /\ \A q \in Call \ {c} : call'[q] = call[q]
    BY <1>1, <1>3, GotoFacts DEF UserFacts
  <1>5. ParentsExist'
    BY <1>1, <1>4 DEF SessionInv, ParentsExist
  <1>6. SessionTypeOK' /\ LiveSinceRevocation'
    BY <1>1 DEF SessionInv, SessionTypeOK, LiveSinceRevocation, Live
  <1>7. ChildrenCounted'
    <2> SUFFICES ASSUME NEW t \in DOMAIN session
                 PROVE  /\ Cardinality(Children(t)) + Cardinality(Rotating(t)') <= Cardinality(Call)
                        /\ ~session[t].revoked =>
                             /\ Children(t) = {}
                             /\ \A q \in Call : call'[q].pc = "mint" => call'[q].parent # t
      BY <1>1 DEF ChildrenCounted, Children
    <2>1. /\ Cardinality(Children(t)) + Cardinality(Rotating(t)) <= Cardinality(Call)
          /\ ~session[t].revoked =>
               /\ Children(t) = {}
               /\ \A q \in Call : call[q].pc = "mint" => call[q].parent # t
      BY DEF SessionInv, ChildrenCounted
    <2>2. Cardinality(Children(t)) + Cardinality(Rotating(t)') <= Cardinality(Call)
      <3>1. CASE t = s
        <4>1. Children(t) = {}
          BY <1>1, <2>1, <3>1 DEF Live
        <4>2. Cardinality(Rotating(t)') \in Nat /\ Cardinality(Rotating(t)') <= Cardinality(Call)
          BY CallCounts DEF Rotating
        <4> QED
          BY <4>1, <4>2, CallCounts, FS_EmptySet
      <3>2. CASE t # s
        <4>1. Rotating(t)' = Rotating(t)
          BY <1>1, <1>4, <3>2 DEF Rotating, Free
        <4> QED
          BY <2>1, <4>1
      <3> QED
        BY <3>1, <3>2
    <2>3. ~session[t].revoked => \A q \in Call : call'[q].pc = "mint" => call'[q].parent # t
      BY <1>4, <2>1
    <2> QED
      BY <2>1, <2>2, <2>3
  <1> QED
    BY <1>4, <1>5, <1>6, <1>7 DEF SessionInv

\* The session that is minted is nobody's parent yet; the one it is minted for
\* has one request less and one child more.
LEMMA MintKeeps ==
  ASSUME UserFacts, SessionInv, NEW c \in Call, Mint(c)
  PROVE  SessionInv'
  <1> DEFINE new == [user |-> call[c].user, revoked |-> FALSE, expired |-> FALSE,
                     parent |-> call[c].parent, epoch |-> user[call[c].user].revocations]
             n == Len(session)
  <1>1. /\ call[c].pc = "mint" /\ session' = Append(session, new)
        /\ End(c) /\ UNCHANGED <<bound, user>>
    BY DEF Mint
  <1>2. /\ call' \in [Call -> AnyCall]
        /\ call'[c].pc = "free"
        /\ \A q \in Call \ {c} : call'[q] = call[q]
    BY <1>1, EndFacts DEF UserFacts
  <1>3. call[c].user \in User /\ call[c].parent \in Nat
    BY <1>1, JobFields DEF UserFacts
  <1>4. /\ new \in SessionType
        /\ new.parent = call[c].parent /\ new.user = call[c].user /\ ~new.revoked
        /\ new.epoch = user[new.user].revocations
    BY <1>3 DEF SessionType, UserFacts, UserType
  <1> HIDE DEF new
  <1>5. /\ session \in Seq(SessionType) /\ n \in Nat /\ DOMAIN session = 1..n
    BY SessionDomain DEF SessionInv, SessionTypeOK
  <1>6. /\ session' \in Seq(SessionType) /\ Len(session') = n + 1
        /\ DOMAIN session' = 1..(n + 1)
        /\ session'[n + 1] = new
        /\ \A s \in 1..n : session'[s] = session[s]
    BY <1>1, <1>4, <1>5
  <1>7. SessionTypeOK'
    BY <1>6 DEF SessionTypeOK
  <1> HIDE DEF n
  <1>8. ASSUME NEW s \in 1..(n + 1), s \notin 1..n PROVE s = n + 1
    BY <1>5, <1>8
  <1>9. LiveSinceRevocation'
    <2> SUFFICES ASSUME NEW s \in DOMAIN session', Live(s)'
                 PROVE  session'[s].epoch = user[session'[s].user].revocations
      BY <1>1 DEF LiveSinceRevocation
    <2>1. CASE s \in 1..n
      BY <1>5, <1>6, <2>1 DEF SessionInv, LiveSinceRevocation, Live
    <2>2. CASE s = n + 1
      BY <1>4, <1>6, <2>2
    <2> QED
      BY <1>6, <1>8, <2>1, <2>2
  <1>10. call[c].parent \in 0..n /\ \A t \in 1..n : session[t].parent < t
    BY <1>1, <1>5 DEF SessionInv, ParentsExist, n
  <1>11. ParentsExist'
    <2>1. ASSUME NEW t \in DOMAIN session' PROVE session'[t].parent < t
      <3>1. CASE t \in 1..n
        BY <1>6, <1>10, <3>1
      <3>2. CASE t = n + 1
        BY <1>4, <1>5, <1>6, <1>10, <3>2
      <3> QED
        BY <1>6, <1>8, <3>1, <3>2
    <2>2. ASSUME NEW q \in Call
          PROVE  /\ call'[q].pc = "rotate" => call'[q].id \in DOMAIN session'
                 /\ call'[q].pc = "mint" => call'[q].parent \in 0..Len(session')
      <3>1. /\ call[q].pc = "rotate" => call[q].id \in 1..n
            /\ call[q].pc = "mint" => call[q].parent \in 0..n
        BY <1>5 DEF SessionInv, ParentsExist, n
      <3>2. 1..n \subseteq 1..(n + 1) /\ 0..n \subseteq 0..(n + 1)
        BY <1>5
      <3> QED
        BY <1>2, <1>6, <3>1, <3>2
    <2> QED
      BY <2>1, <2>2 DEF ParentsExist
  <1>12. ChildrenCounted'
    <2> SUFFICES ASSUME NEW s \in 1..(n + 1)
                 PROVE  /\ Cardinality(Children(s)') + Cardinality(Rotating(s)') <= Cardinality(Call)
                        /\ ~session'[s].revoked =>
                             /\ Children(s)' = {}
                             /\ \A q \in Call : call'[q].pc = "mint" => call'[q].parent # s
      BY <1>6 DEF ChildrenCounted
    <2>1. Children(s)' = IF call[c].parent = s THEN Children(s) \cup {n + 1} ELSE Children(s)
      BY <1>4, <1>5, <1>6, <1>8 DEF Children
    <2>2. Rotating(s)' = Rotating(s) \ {c}
      BY <1>2 DEF Rotating
    <2>3. call[c].parent = s => c \in Rotating(s)
      BY <1>1 DEF Rotating
    <2>4. /\ IsFiniteSet(Children(s)) /\ Cardinality(Children(s)) \in Nat
          /\ n + 1 \notin Children(s)
      <3>1. IsFiniteSet(1..n)
        BY <1>5, FS_Interval
      <3>2. Children(s) \in SUBSET (1..n)
        BY <1>5 DEF Children
      <3> QED
        BY <1>5, <3>1, <3>2, CountsGrow
    <2>5. IsFiniteSet(Rotating(s)) /\ Cardinality(Rotating(s)) \in Nat
      BY CallCounts DEF Rotating
    <2>6. CASE s \in 1..n
      <3>1. /\ Cardinality(Children(s)) + Cardinality(Rotating(s)) <= Cardinality(Call)
            /\ ~session[s].revoked =>
                 /\ Children(s) = {}
                 /\ \A q \in Call : call[q].pc = "mint" => call[q].parent # s
        BY <1>5, <2>6 DEF SessionInv, ChildrenCounted
      <3>2. CASE call[c].parent = s
        <4>1. /\ Cardinality(Children(s) \cup {n + 1}) = Cardinality(Children(s)) + 1
              /\ Cardinality(Rotating(s) \ {c}) = Cardinality(Rotating(s)) - 1
          BY <2>3, <2>4, <2>5, <3>2, FS_AddElement, FS_RemoveElement
        <4>2. Cardinality(Children(s)') + Cardinality(Rotating(s)') <= Cardinality(Call)
          BY <2>1, <2>2, <2>4, <2>5, <3>1, <3>2, <4>1, CallCounts
        <4>3. session[s].revoked
          BY <1>1, <3>1, <3>2
        <4> QED
          BY <1>6, <2>6, <4>2, <4>3
      <3>3. CASE call[c].parent # s
        <4>1. /\ Cardinality(Rotating(s)') \in Nat
              /\ Cardinality(Rotating(s)') <= Cardinality(Rotating(s))
          BY <2>2, <2>5, CountsGrow
        <4>2. Cardinality(Children(s)') + Cardinality(Rotating(s)') <= Cardinality(Call)
          BY <2>1, <2>4, <2>5, <3>1, <3>3, <4>1, CallCounts
        <4>3. session'[s] = session[s]
          BY <1>6, <2>6
        <4> QED
          BY <1>2, <2>1, <3>1, <3>3, <4>2, <4>3
      <3> QED
        BY <3>2, <3>3
    <2>7. CASE s = n + 1
      <3>1. Children(s) = {}
        BY <1>5, <1>10, <2>7 DEF Children
      <3>2. call[c].parent # s
        BY <1>5, <1>10, <2>7
      <3>3. \A q \in Call : call[q].pc = "mint" => call[q].parent # s
        BY <1>5, <2>7 DEF SessionInv, ParentsExist, n
      <3>4. Cardinality(Rotating(s)') \in Nat /\ Cardinality(Rotating(s)') <= Cardinality(Call)
        BY CallCounts DEF Rotating
      <3>5. Cardinality(Children(s)') = 0
        BY <2>1, <3>1, <3>2, FS_EmptySet
      <3> QED
        BY <1>2, <2>1, <3>1, <3>2, <3>3, <3>4, <3>5, CallCounts
    <2> QED
      BY <1>8, <2>6, <2>7
  <1> QED
    BY <1>7, <1>9, <1>11, <1>12 DEF SessionInv

\* expiry, logout: one session is marked.
LEMMA MarkKeeps ==
  ASSUME SessionInv, NEW s \in DOMAIN session, ExpireSession(s) \/ Logout(s)
  PROVE  SessionInv'
  <1>1. /\ session \in Seq(SessionType) /\ DOMAIN session = 1..Len(session)
        /\ session[s] \in SessionType
    BY SessionDomain DEF SessionInv, SessionTypeOK
  <1>2. PICK new \in SessionType :
          /\ session' = [session EXCEPT ![s] = new]
          /\ new.user = session[s].user /\ new.parent = session[s].parent
          /\ new.epoch = session[s].epoch
          /\ session[s].revoked => new.revoked
          /\ ~new.revoked /\ ~new.expired => ~session[s].revoked /\ ~session[s].expired
    <2>1. CASE ExpireSession(s)
      <3> DEFINE new == [session[s] EXCEPT !.expired = TRUE]
      <3>1. /\ new \in SessionType /\ new.expired = TRUE /\ new.user = session[s].user
            /\ new.parent = session[s].parent /\ new.epoch = session[s].epoch
            /\ new.revoked = session[s].revoked
        BY <1>1 DEF SessionType
      <3>2. session' = [session EXCEPT ![s] = new]
        BY <2>1 DEF ExpireSession
      <3> QED
        BY <3>1, <3>2
    <2>2. CASE Logout(s)
      <3> DEFINE new == [session[s] EXCEPT !.revoked = TRUE]
      <3>1. /\ new \in SessionType /\ new.revoked = TRUE /\ new.user = session[s].user
            /\ new.parent = session[s].parent /\ new.epoch = session[s].epoch
        BY <1>1 DEF SessionType
      <3>2. session' = [session EXCEPT ![s] = new]
        BY <2>2 DEF Logout
      <3> QED
        BY <3>1, <3>2
    <2> QED
      BY <2>1, <2>2
  <1>3. /\ session' \in Seq(SessionType) /\ Len(session') = Len(session)
        /\ \A t \in DOMAIN session : session'[t] = IF t = s THEN new ELSE session[t]
    BY <1>1, <1>2, ExceptSeq
  <1>4. SessionTypeOK'
    BY <1>3 DEF SessionTypeOK
  <1>5. user' = user /\ call' = call
    BY DEF ExpireSession, Logout
  <1>6. \A t \in DOMAIN session :
           /\ session'[t].user = session[t].user
           /\ session'[t].parent = session[t].parent
           /\ session'[t].epoch = session[t].epoch
           /\ session[t].revoked => session'[t].revoked
           /\ Live(t)' => Live(t)
    BY <1>2, <1>3 DEF Live
  <1> QED
    BY <1>3, <1>4, <1>5, <1>6, MarkedKeeps

-----------------------------------------------------------------------------
(* The codes *)

LEMMA CodeDomain ==
  ASSUME OtpTypeOK, bound \in Bounds
  PROVE  /\ bound.code \in Nat /\ issued \in Nat /\ issued <= bound.code
         /\ DOMAIN code \subseteq 1..issued
         /\ IsFiniteSet(DOMAIN code)
         /\ \A i \in DOMAIN code :
              /\ code[i].user \in User /\ code[i].purpose \in Purpose
              /\ code[i].attempts \in Nat /\ code[i].age \in 0..2
  <1>1. bound.code \in Nat /\ issued \in Nat /\ issued <= bound.code
    BY BoundOf DEF OtpTypeOK
  <1>2. DOMAIN code \subseteq 1..issued
    BY DEF OtpTypeOK
  <1>3. IsFiniteSet(DOMAIN code)
    <2>1. IsFiniteSet(1..issued)
      BY <1>1, FS_Interval
    <2> QED
      BY <1>2, <2>1, FS_Subset
  <1> QED
    BY <1>1, <1>2, <1>3 DEF OtpTypeOK, Fresh, Expired

LEMMA LimitIsNat == AttemptLimit \in Nat /\ AttemptLimit > 0
  BY OtpAssumption

\* Deleting codes and answering requests add nothing to what is counted.
LEMMA AttemptsKeep ==
  ASSUME OtpInv, bound \in Bounds,
         \A i \in DOMAIN code' : i \in DOMAIN code /\ code'[i].attempts = code[i].attempts,
         \A q \in Call : call'[q].pc = "compare" => call'[q] = call[q]
  PROVE  AttemptsCounted'
  <1> SUFFICES ASSUME NEW i \in DOMAIN code'
               PROVE  code'[i].attempts + Cardinality(Comparing(i)')
                        < AttemptLimit + Cardinality(Call)
    BY DEF AttemptsCounted
  <1>1. i \in DOMAIN code /\ code'[i].attempts = code[i].attempts /\ code[i].attempts \in Nat
    BY CodeDomain DEF OtpInv
  <1>2. Comparing(i)' \subseteq Comparing(i)
    BY DEF Comparing, Exhausted
  <1>3. IsFiniteSet(Comparing(i))
    BY CallCounts DEF Comparing
  <1>4. /\ Cardinality(Comparing(i)') \in Nat /\ Cardinality(Comparing(i)) \in Nat
        /\ Cardinality(Comparing(i)') <= Cardinality(Comparing(i))
    BY <1>2, <1>3, CountsGrow
  <1>5. code[i].attempts + Cardinality(Comparing(i)) < AttemptLimit + Cardinality(Call)
    BY <1>1 DEF OtpInv, AttemptsCounted
  <1> QED
    BY <1>1, <1>4, <1>5, CallCounts, LimitIsNat

LEMMA CodesKeep ==
  ASSUME OtpInv, bound \in Bounds,
         \A i \in DOMAIN code' : /\ i \in DOMAIN code
                                 /\ code'[i].user = code[i].user
                                 /\ code'[i].purpose = code[i].purpose,
         \A q \in Call : call'[q].pc = "create" => call'[q] = call[q]
  PROVE  CodesCounted'
  <1> SUFFICES ASSUME NEW u \in User, NEW p \in Purpose
               PROVE  Cardinality(CodesOf(u, p)') + Cardinality(Creating(u, p)') <= Cardinality(Call)
    BY DEF CodesCounted
  <1>1. CodesOf(u, p)' \subseteq CodesOf(u, p) /\ Creating(u, p)' \subseteq Creating(u, p)
    BY DEF CodesOf, Creating
  <1>2. IsFiniteSet(DOMAIN code)
    BY CodeDomain DEF OtpInv
  <1>3. IsFiniteSet(CodesOf(u, p)) /\ IsFiniteSet(Creating(u, p))
    BY <1>2, CountsGrow, CallCounts DEF CodesOf, Creating
  <1>4. /\ Cardinality(CodesOf(u, p)') \in Nat /\ Cardinality(CodesOf(u, p)) \in Nat
        /\ Cardinality(CodesOf(u, p)') <= Cardinality(CodesOf(u, p))
    BY <1>1, <1>3, CountsGrow
  <1>5. /\ Cardinality(Creating(u, p)') \in Nat /\ Cardinality(Creating(u, p)) \in Nat
        /\ Cardinality(Creating(u, p)') <= Cardinality(Creating(u, p))
    BY <1>1, <1>3, CountsGrow
  <1>6. Cardinality(CodesOf(u, p)) + Cardinality(Creating(u, p)) <= Cardinality(Call)
    BY DEF OtpInv, CodesCounted
  <1> QED
    BY <1>4, <1>5, <1>6, CallCounts

LEMMA SpentKeeps ==
  ASSUME OtpInv, bound' = bound, issued' = issued, used' = used,
         DOMAIN code' \subseteq DOMAIN code,
         \A q \in Call : call'[q].pc = "apply" => call'[q] = call[q]
  PROVE  SpentOnce'
  <1>1. \A i \in 1..bound'.code : (i \in DOMAIN code' \/ i > issued') => used'[i] = 0
    BY DEF OtpInv, SpentOnce
  <1>2. ASSUME NEW q \in Call, call'[q].pc = "apply"
        PROVE  /\ call'[q].id \in (1..issued') \ DOMAIN code'
               /\ used'[call'[q].id] = 0
               /\ \A d \in Call \ {q} : call'[d].pc = "apply" => call'[d].id # call'[q].id
    <2>1. call'[q] = call[q] /\ call[q].pc = "apply"
      BY <1>2
    <2>2. /\ call[q].id \in (1..issued) \ DOMAIN code
          /\ used[call[q].id] = 0
          /\ \A d \in Call \ {q} : call[d].pc = "apply" => call[d].id # call[q].id
      BY <2>1 DEF OtpInv, SpentOnce
    <2> QED
      BY <2>1, <2>2
  <1> QED
    BY <1>1, <1>2 DEF SpentOnce

LEMMA DeliversKeep ==
  ASSUME OtpInv, issued' = issued,
         \A q \in Call : call'[q].pc = "deliver" => call'[q] = call[q]
  PROVE  DeliversCreated'
  BY DEF OtpInv, DeliversCreated

\* What leaves the codes alone, but that some may be deleted or grow older.
LEMMA CodesShrink ==
  ASSUME OtpInv, bound \in Bounds, OtpTypeOK',
         bound' = bound, issued' = issued, used' = used,
         \A i \in DOMAIN code' : /\ i \in DOMAIN code
                                 /\ code'[i].user = code[i].user
                                 /\ code'[i].purpose = code[i].purpose
                                 /\ code'[i].attempts = code[i].attempts,
         \A q \in Call : call'[q].pc \in {"compare", "create", "apply", "deliver"} => call'[q] = call[q]
  PROVE  OtpInv'
  <1>1. AttemptsCounted'
    BY AttemptsKeep
  <1>2. CodesCounted'
    BY CodesKeep
  <1>3. SpentOnce'
    BY SpentKeeps
  <1>4. DeliversCreated'
    BY DeliversKeep
  <1> QED
    BY <1>1, <1>2, <1>3, <1>4 DEF OtpInv

LEMMA CodesFrame ==
  ASSUME OtpInv, bound \in Bounds, UNCHANGED <<bound, codeVars>>,
         \A q \in Call : call'[q].pc \in {"compare", "create", "apply", "deliver"} => call'[q] = call[q]
  PROVE  OtpInv'
  <1>1. OtpTypeOK' /\ issued' = issued /\ used' = used /\ code' = code
    BY DEF OtpInv, OtpTypeOK, codeVars
  <1> QED
    BY <1>1, CodesShrink

\* The type of what is left of the codes.
LEMMA WithoutFacts ==
  ASSUME OtpInv, bound \in Bounds, NEW ids, code' = Without(ids),
         UNCHANGED <<bound, issued, mailed>>, used' \in [1..bound.code -> Nat]
  PROVE  /\ OtpTypeOK'
         /\ DOMAIN code' = DOMAIN code \ ids
         /\ \A i \in DOMAIN code' : i \in DOMAIN code /\ code'[i] = code[i]
  <1>1. /\ DOMAIN code' = DOMAIN code \ ids
        /\ \A i \in DOMAIN code' : i \in DOMAIN code /\ code'[i] = code[i]
    BY DEF Without
  <1> DEFINE R == [user : User, purpose : Purpose, attempts : Nat, age : Fresh..Expired]
  <1>2. code \in [DOMAIN code -> R] /\ DOMAIN code \subseteq 1..issued
    BY DEF OtpInv, OtpTypeOK
  <1> HIDE DEF R
  <1>3. code' \in [DOMAIN code' -> R]
    <2>1. code' = [i \in DOMAIN code \ ids |-> code[i]]
      BY DEF Without
    <2> QED
      BY <1>1, <1>2, <2>1
  <1> QED
    BY <1>1, <1>2, <1>3 DEF OtpInv, OtpTypeOK, R

\* What leaves the user documents alone and begins no PIN request.
LEMMA UsersFrame ==
  ASSUME UserFacts, bound' = bound, user' \in UserType, call' \in [Call -> AnyCall],
         \A u \in User : user'[u].pin = user[u].pin /\ user'[u].stage = user[u].stage,
         \A q \in Call : call'[q].pc = "pin" => call'[q] = call[q]
  PROVE  UserFacts'
  <1>1. StageFollowsPin'
    BY DEF UserFacts, StageFollowsPin
  <1>2. UpdatesHavePin'
    <2> SUFFICES ASSUME NEW c \in Call, call'[c].pc = "pin", ~call'[c].creates
                 PROVE  user'[call'[c].user].pin # 0
      BY DEF UpdatesHavePin
    <2>1. call'[c] = call[c] /\ call[c] \in AnyCall
      BY DEF UserFacts
    <2>2. call[c].user \in User
      BY <2>1, JobFields
    <2> QED
      BY <2>1, <2>2 DEF UserFacts, UpdatesHavePin
  <1> QED
    BY <1>1, <1>2 DEF UserFacts

\* A request that takes a step and touches nothing else, and does not come to
\* one of the steps that the invariant looks at.
LEMMA RequestMoves ==
  ASSUME UserFacts, OtpInv, SessionInv, NEW c \in Call, NEW job \in AnyCall, Goto(c, job),
         UNCHANGED <<bound, user, codeVars, session>>,
         job.pc \notin {"compare", "create", "apply", "deliver", "rotate", "pin"},
         job.pc = "mint" => job.parent = 0
  PROVE  UserFacts' /\ OtpInv' /\ SessionInv'
  <1>1. /\ call' \in [Call -> AnyCall] /\ call'[c] = job
        /\ \A q \in Call \ {c} : call'[q] = call[q]
    BY GotoFacts DEF UserFacts
  <1>2. UserFacts'
    BY <1>1, UsersFrame DEF UserFacts
  <1>3. OtpInv'
    BY <1>1, CodesFrame DEF UserFacts
  <1>4. SessionInv'
    BY <1>1, SessionsFrame
  <1> QED
    BY <1>2, <1>3, <1>4

\* The requests that leave everything but themselves alone.
LEMMA QuietKeeps ==
  ASSUME UserFacts, OtpInv, SessionInv, NEW c \in Call, NEW u \in User,
         \/ \E p \in Purpose : RequestCode(c, u, p) /\ UNCHANGED session
         \/ \E p \in Purpose, guess \in mailed \cup {0} :
              SubmitCode(c, u, p, guess) /\ UNCHANGED session
         \/ CheckCooldown(c) /\ UNCHANGED session
         \/ SpendFails(c) /\ UNCHANGED session
         \/ Login(c, u) /\ UNCHANGED codeVars
         \/ \E proven \in BOOLEAN : GoogleLogin(c, u, proven) /\ UNCHANGED codeVars
         \/ BeginChangePassword(c, u) /\ UNCHANGED codeVars
  PROVE  UserFacts' /\ OtpInv' /\ SessionInv'
  <1> DEFINE quiet == UNCHANGED <<bound, user, codeVars, session>>
             ends(job) == /\ job \in AnyCall
                          /\ job.pc \notin {"compare", "create", "apply", "deliver", "rotate", "pin"}
                          /\ job.pc = "mint" => job.parent = 0
  <1>0. ends(Free)
    BY DEF Free, AnyCall
  <1>1. ASSUME NEW p \in Purpose, RequestCode(c, u, p), UNCHANGED session
        PROVE  quiet /\ \E job : Goto(c, job) /\ ends(job)
    BY <1>1 DEF RequestCode, AnyCall, CodeJob
  <1>2. ASSUME NEW p \in Purpose, NEW guess \in mailed \cup {0},
               SubmitCode(c, u, p, guess), UNCHANGED session
        PROVE  quiet /\ \E job : Goto(c, job) /\ ends(job)
    <2>1. guess \in Nat
      BY CodeDomain DEF OtpInv, OtpTypeOK, UserFacts
    <2> QED
      BY <1>2, <2>1 DEF SubmitCode, AnyCall, CodeJob
  <1>3. ASSUME CheckCooldown(c), UNCHANGED session
        PROVE  quiet /\ \E job : Goto(c, job) /\ ends(job)
    <2>1. call[c].pc = "cooldown" /\ call[c] \in AnyCall
      BY <1>3 DEF CheckCooldown, UserFacts
    <2>2. call[c] \in [pc : {"cooldown", "clear", "create"}, user : User, purpose : Purpose]
      BY <2>1 DEF AnyCall, Free, CodeJob, SessionJob, PinJob
    <2>3. ends([call[c] EXCEPT !.pc = "clear"])
      BY <2>2 DEF AnyCall, CodeJob
    <2>4. quiet /\ (Goto(c, Free) \/ Goto(c, [call[c] EXCEPT !.pc = "clear"]))
      BY <1>3 DEF CheckCooldown
    <2> QED
      BY <1>0, <2>3, <2>4
  <1>4. ASSUME SpendFails(c), UNCHANGED session
        PROVE  quiet /\ \E job : Goto(c, job) /\ ends(job)
    BY <1>0, <1>4 DEF SpendFails, End
  <1>5. ASSUME Login(c, u), UNCHANGED codeVars
        PROVE  quiet /\ \E job : Goto(c, job) /\ ends(job)
    BY <1>5 DEF Login, AnyCall, SessionJob
  <1>6. ASSUME NEW proven \in BOOLEAN, GoogleLogin(c, u, proven), UNCHANGED codeVars
        PROVE  quiet /\ \E job : Goto(c, job) /\ ends(job)
    <2>1. user[u].verified \in BOOLEAN
      BY DEF UserFacts, UserType
    <2> QED
      BY <1>6, <2>1 DEF GoogleLogin, AnyCall, SessionJob
  <1>7. ASSUME BeginChangePassword(c, u), UNCHANGED codeVars
        PROVE  quiet /\ \E job : Goto(c, job) /\ ends(job)
    BY <1>7 DEF BeginChangePassword, AnyCall, SessionJob
  <1>8. quiet /\ \E job : Goto(c, job) /\ ends(job)
    BY <1>1, <1>2, <1>3, <1>4, <1>5, <1>6, <1>7
  <1>9. PICK job \in AnyCall : Goto(c, job) /\ ends(job)
    BY <1>8
  <1> QED
    BY <1>8, <1>9, RequestMoves

\* A request of Otp that changes the codes leaves the rest to the frames.
LEMMA CodeStepFrame ==
  ASSUME UserFacts, SessionInv, NEW c \in Call, NEW job \in AnyCall, Goto(c, job),
         bound' = bound, session' = session, user' \in UserType,
         \A u \in User : /\ user'[u].pin = user[u].pin /\ user'[u].stage = user[u].stage
                         /\ user'[u].revocations = user[u].revocations,
         job.pc \notin {"rotate", "mint", "pin"}
  PROVE  /\ UserFacts' /\ SessionInv'
         /\ call'[c] = job /\ \A q \in Call \ {c} : call'[q] = call[q]
  <1>1. /\ call' \in [Call -> AnyCall] /\ call'[c] = job
        /\ \A q \in Call \ {c} : call'[q] = call[q]
    BY GotoFacts DEF UserFacts
  <1>2. UserFacts'
    BY <1>1, UsersFrame
  <1>3. SessionInv'
    BY <1>1, SessionsFrame
  <1> QED
    BY <1>1, <1>2, <1>3

LEMMA FreeJob == Free \in AnyCall /\ Free.pc = "free"
  BY DEF AnyCall, Free

LEMMA ElapseKeeps ==
  ASSUME UserFacts, OtpInv, SessionInv, NEW i \in DOMAIN code, Elapse(i), UNCHANGED session
  PROVE  UserFacts' /\ OtpInv' /\ SessionInv'
  <1>1. /\ code[i].age < Expired /\ code' = [code EXCEPT ![i].age = @ + 1]
        /\ UNCHANGED <<bound, user, call, issued, mailed, used>>
    BY DEF Elapse
  <1> DEFINE R == [user : User, purpose : Purpose, attempts : Nat, age : Fresh..Expired]
             new == [code[i] EXCEPT !.age = @ + 1]
  <1>2. code \in [DOMAIN code -> R] /\ code[i] \in R
    BY DEF OtpInv, OtpTypeOK
  <1>3. /\ new \in R /\ new.user = code[i].user /\ new.purpose = code[i].purpose
        /\ new.attempts = code[i].attempts
    BY <1>1, <1>2 DEF Fresh, Expired
  <1>4. code' = [code EXCEPT ![i] = new]
    BY <1>1
  <1> HIDE DEF new, R
  <1>5. code' \in [DOMAIN code -> R] /\ DOMAIN code' = DOMAIN code
    BY <1>2, <1>3, <1>4
  <1>6. OtpTypeOK'
    BY <1>1, <1>5 DEF OtpInv, OtpTypeOK, R
  <1>7. \A j \in DOMAIN code' : /\ code'[j].user = code[j].user
                                /\ code'[j].purpose = code[j].purpose
                                /\ code'[j].attempts = code[j].attempts
    BY <1>2, <1>3, <1>4, <1>5
  <1>8. OtpInv'
    BY <1>1, <1>5, <1>6, <1>7, CodesShrink DEF UserFacts
  <1>9. UserFacts' /\ SessionInv'
    BY <1>1, UsersFrame, SessionsFrame DEF UserFacts
  <1> QED
    BY <1>8, <1>9

LEMMA ClearCodesKeeps ==
  ASSUME UserFacts, OtpInv, SessionInv, NEW c \in Call, ClearCodes(c), UNCHANGED session
  PROVE  UserFacts' /\ OtpInv' /\ SessionInv'
  <1> DEFINE v == call[c].user
             o == call[c].purpose
             job == [call[c] EXCEPT !.pc = "create"]
  <1>1. /\ call[c].pc = "clear" /\ code' = Without(CodesOf(v, o)) /\ Goto(c, job)
        /\ UNCHANGED <<bound, user, issued, mailed, used>>
    BY DEF ClearCodes, Replaced
  <1>2. call[c] \in [pc : {"cooldown", "clear", "create"}, user : User, purpose : Purpose]
    <2>1. call[c] \in AnyCall
      BY DEF UserFacts
    <2> QED
      BY <1>1, <2>1 DEF AnyCall, Free, CodeJob, SessionJob, PinJob
  <1>3. job \in AnyCall /\ job.pc = "create" /\ job.user = v /\ job.purpose = o
    BY <1>2 DEF AnyCall, CodeJob
  <1> HIDE DEF job
  <1>4. /\ UserFacts' /\ SessionInv'
        /\ call'[c] = job /\ \A q \in Call \ {c} : call'[q] = call[q]
    BY <1>1, <1>3, CodeStepFrame DEF UserFacts
  <1>5. bound \in Bounds /\ used' \in [1..bound.code -> Nat]
    BY <1>1 DEF UserFacts, OtpInv, OtpTypeOK
  <1>6. /\ OtpTypeOK' /\ DOMAIN code' = DOMAIN code \ CodesOf(v, o)
        /\ \A i \in DOMAIN code' : i \in DOMAIN code /\ code'[i] = code[i]
    BY <1>1, <1>5, WithoutFacts
  <1>7. AttemptsCounted'
    BY <1>3, <1>4, <1>5, <1>6, AttemptsKeep
  <1>8. SpentOnce'
    BY <1>1, <1>3, <1>4, <1>6, SpentKeeps
  <1>9. CodesCounted'
    <2> SUFFICES ASSUME NEW u \in User, NEW p \in Purpose
                 PROVE  Cardinality(CodesOf(u, p)') + Cardinality(Creating(u, p)')
                          <= Cardinality(Call)
      BY DEF CodesCounted
    <2>1. Cardinality(Creating(u, p)') \in Nat /\ Cardinality(Creating(u, p)') <= Cardinality(Call)
      BY CallCounts DEF Creating
    <2>2. CASE u = v /\ p = o
      <3>1. CodesOf(u, p)' = {}
        BY <1>6, <2>2 DEF CodesOf
      <3> QED
        BY <2>1, <3>1, FS_EmptySet
    <2>3. CASE ~ (u = v /\ p = o)
      <3>1. CodesOf(u, p)' = CodesOf(u, p)
        BY <1>6, <2>3 DEF CodesOf
      <3>2. Creating(u, p)' = Creating(u, p)
        BY <1>1, <1>3, <1>4, <2>3 DEF Creating
      <3> QED
        BY <3>1, <3>2 DEF OtpInv, CodesCounted
    <2> QED
      BY <2>2, <2>3
  <1>10. DeliversCreated'
    BY <1>1, <1>3, <1>4, DeliversKeep
  <1> QED
    BY <1>4, <1>6, <1>7, <1>8, <1>9, <1>10 DEF OtpInv

\* A request that stores its code gives up its place among those that will.
LEMMA CreateCodeKeeps ==
  ASSUME UserFacts, OtpInv, SessionInv, NEW c \in Call, CreateCode(c), UNCHANGED session
  PROVE  UserFacts' /\ OtpInv' /\ SessionInv'
  <1> DEFINE v == call[c].user
             o == call[c].purpose
             n == issued + 1
             job == [pc |-> "deliver", id |-> n]
             new == [user |-> v, purpose |-> o, attempts |-> 0, age |-> Fresh]
             R == [user : User, purpose : Purpose, attempts : Nat, age : Fresh..Expired]
  <1>1. /\ call[c].pc = "create" /\ issued < bound.code /\ issued' = n
        /\ code' = [i \in DOMAIN code \cup {n} |-> IF i # n THEN code[i] ELSE new]
        /\ Goto(c, job) /\ UNCHANGED <<bound, user, mailed, used>>
    BY DEF CreateCode
  <1>2. /\ bound.code \in Nat /\ issued \in Nat /\ DOMAIN code \subseteq 1..issued
        /\ IsFiniteSet(DOMAIN code) /\ n \in 1..bound.code /\ n \notin 1..issued
        /\ \A i \in DOMAIN code : code[i].attempts \in Nat
    BY <1>1, CodeDomain DEF UserFacts, OtpInv
  <1>3. v \in User /\ o \in Purpose
    BY <1>1, JobFields DEF UserFacts
  <1>4. job \in AnyCall /\ job.pc = "deliver" /\ job.id = n
    BY <1>2 DEF AnyCall, CodeJob
  <1>5. new \in R /\ new.user = v /\ new.purpose = o /\ new.attempts = 0
    BY <1>3 DEF Fresh, Expired
  <1> HIDE DEF job, new, R
  <1>6. /\ UserFacts' /\ SessionInv'
        /\ call'[c] = job /\ \A q \in Call \ {c} : call'[q] = call[q]
    BY <1>1, <1>4, CodeStepFrame DEF UserFacts
  <1>7. /\ DOMAIN code' = DOMAIN code \cup {n} /\ n \notin DOMAIN code
        /\ code'[n] = new /\ \A i \in DOMAIN code : code'[i] = code[i]
    BY <1>1, <1>2
  <1>8. OtpTypeOK'
    <2>1. code \in [DOMAIN code -> R]
      BY DEF OtpInv, OtpTypeOK, R
    <2>2. code' \in [DOMAIN code' -> R]
      BY <1>1, <1>5, <1>7, <2>1
    <2>3. 1..issued \subseteq 1..n /\ n \in 1..n /\ issued' \in 0..bound.code
      BY <1>1, <1>2
    <2> QED
      BY <1>1, <1>2, <1>7, <2>2, <2>3 DEF OtpInv, OtpTypeOK, R
  <1>9. AttemptsCounted'
    <2> SUFFICES ASSUME NEW i \in DOMAIN code'
                 PROVE  code'[i].attempts + Cardinality(Comparing(i)')
                          < AttemptLimit + Cardinality(Call)
      BY DEF AttemptsCounted
    <2>1. Comparing(i)' \subseteq Comparing(i)
      BY <1>4, <1>6 DEF Comparing, Exhausted
    <2>2. IsFiniteSet(Comparing(i)) /\ Cardinality(Comparing(i)) <= Cardinality(Call)
      BY CallCounts DEF Comparing
    <2>3. /\ Cardinality(Comparing(i)') \in Nat /\ Cardinality(Comparing(i)) \in Nat
          /\ Cardinality(Comparing(i)') <= Cardinality(Comparing(i))
      BY <2>1, <2>2, CountsGrow
    <2>4. CASE i = n
      BY <1>5, <1>7, <2>2, <2>3, <2>4, CallCounts, LimitIsNat
    <2>5. CASE i \in DOMAIN code
      <3>1. code[i].attempts + Cardinality(Comparing(i)) < AttemptLimit + Cardinality(Call)
        BY <2>5 DEF OtpInv, AttemptsCounted
      <3>2. code'[i].attempts = code[i].attempts /\ code[i].attempts \in Nat
        BY <1>2, <1>7, <2>5
      <3> QED
        BY <2>3, <3>1, <3>2, CallCounts, LimitIsNat
    <2> QED
      BY <1>7, <2>4, <2>5
  <1>10. CodesCounted'
    <2> SUFFICES ASSUME NEW u \in User, NEW p \in Purpose
                 PROVE  Cardinality(CodesOf(u, p)') + Cardinality(Creating(u, p)')
                          <= Cardinality(Call)
      BY DEF CodesCounted
    <2>1. Cardinality(CodesOf(u, p)) + Cardinality(Creating(u, p)) <= Cardinality(Call)
      BY DEF OtpInv, CodesCounted
    <2>2. CASE u = v /\ p = o
      <3>1. CodesOf(u, p)' = CodesOf(u, p) \cup {n} /\ n \notin CodesOf(u, p)
        BY <1>5, <1>7, <2>2 DEF CodesOf
      <3>2. Creating(u, p)' = Creating(u, p) \ {c} /\ c \in Creating(u, p)
        BY <1>1, <1>4, <1>6, <2>2 DEF Creating
      <3>3. IsFiniteSet(CodesOf(u, p)) /\ IsFiniteSet(Creating(u, p))
        BY <1>2, CountsGrow, CallCounts DEF CodesOf, Creating
      <3>4. /\ Cardinality(CodesOf(u, p)') = Cardinality(CodesOf(u, p)) + 1
            /\ Cardinality(Creating(u, p)') = Cardinality(Creating(u, p)) - 1
        <4>1. Cardinality(CodesOf(u, p) \cup {n}) = Cardinality(CodesOf(u, p)) + 1
          BY <3>1, <3>3, FS_AddElement
        <4>2. Cardinality(Creating(u, p) \ {c}) = Cardinality(Creating(u, p)) - 1
          BY <3>2, <3>3, FS_RemoveElement
        <4> QED
          BY <3>1, <3>2, <4>1, <4>2
      <3>5. Cardinality(CodesOf(u, p)) \in Nat /\ Cardinality(Creating(u, p)) \in Nat
        BY <3>3, FS_CardinalityType
      <3> QED
        BY <2>1, <3>4, <3>5, CallCounts
    <2>3. CASE ~ (u = v /\ p = o)
      <3>1. CodesOf(u, p)' = CodesOf(u, p)
        BY <1>5, <1>7, <2>3 DEF CodesOf
      <3>2. Creating(u, p)' = Creating(u, p)
        BY <1>1, <1>4, <1>6, <2>3 DEF Creating
      <3> QED
        BY <2>1, <3>1, <3>2
    <2> QED
      BY <2>2, <2>3
  <1>11. SpentOnce'
    <2>1. ASSUME NEW i \in 1..bound'.code, i \in DOMAIN code' \/ i > issued' PROVE used'[i] = 0
      <3>1. i \in DOMAIN code \/ i > issued
        BY <1>1, <1>2, <1>7, <2>1
      <3> QED
        BY <1>1, <2>1, <3>1 DEF OtpInv, SpentOnce
    <2>2. ASSUME NEW q \in Call, call'[q].pc = "apply"
          PROVE  /\ call'[q].id \in (1..issued') \ DOMAIN code'
                 /\ used'[call'[q].id] = 0
                 /\ \A d \in Call \ {q} : call'[d].pc = "apply" => call'[d].id # call'[q].id
      <3>1. call'[q] = call[q] /\ call[q].pc = "apply"
        BY <1>4, <1>6, <2>2
      <3>2. /\ call[q].id \in (1..issued) \ DOMAIN code
            /\ used[call[q].id] = 0
            /\ \A d \in Call \ {q} : call[d].pc = "apply" => call[d].id # call[q].id
        BY <3>1 DEF OtpInv, SpentOnce
      <3>3. call[q].id \in (1..issued') \ DOMAIN code'
        BY <1>1, <1>2, <1>7, <3>2
      <3>4. \A d \in Call \ {q} : call'[d].pc = "apply" => call'[d] = call[d]
        BY <1>4, <1>6
      <3> QED
        BY <1>1, <3>1, <3>2, <3>3, <3>4
    <2> QED
      BY <2>1, <2>2 DEF SpentOnce
  <1>12. DeliversCreated'
    <2>1. 1..issued \subseteq 1..n /\ n \in 1..n
      BY <1>2
    <2> QED
      BY <1>1, <1>4, <1>6, <2>1 DEF OtpInv, DeliversCreated
  <1> QED
    BY <1>6, <1>8, <1>9, <1>10, <1>11, <1>12 DEF OtpInv

LEMMA DeliverCodeKeeps ==
  ASSUME UserFacts, OtpInv, SessionInv, NEW c \in Call, DeliverCode(c), UNCHANGED session
  PROVE  UserFacts' /\ OtpInv' /\ SessionInv'
  <1>1. /\ call[c].pc = "deliver" /\ mailed' \in {mailed, mailed \cup {call[c].id}}
        /\ Goto(c, Free) /\ UNCHANGED <<bound, user, code, issued, used>>
    BY DEF DeliverCode, End
  <1>2. /\ UserFacts' /\ SessionInv'
        /\ call'[c] = Free /\ \A q \in Call \ {c} : call'[q] = call[q]
    BY <1>1, FreeJob, CodeStepFrame DEF UserFacts
  <1>3. OtpTypeOK'
    <2>1. call[c].id \in 1..issued
      BY <1>1 DEF OtpInv, DeliversCreated
    <2>2. mailed' \subseteq 1..issued'
      BY <1>1, <2>1 DEF OtpInv, OtpTypeOK
    <2> QED
      BY <1>1, <2>2 DEF OtpInv, OtpTypeOK
  <1>4. OtpInv'
    BY <1>1, <1>2, <1>3, FreeJob, CodesShrink DEF UserFacts
  <1> QED
    BY <1>2, <1>4

\* Whoever finds a code that is not exhausted finds it below the limit.
LEMMA LookUpCodeKeeps ==
  ASSUME UserFacts, OtpInv, SessionInv, NEW c \in Call, LookUpCode(c), UNCHANGED session
  PROVE  UserFacts' /\ OtpInv' /\ SessionInv'
  <1> DEFINE C == CodesOf(call[c].user, call[c].purpose)
             last == Max(C)
             job == [pc |-> "compare", user |-> call[c].user, purpose |-> call[c].purpose,
                     guess |-> call[c].guess, id |-> last,
                     expired |-> (code[last].age = Expired), attempts |-> code[last].attempts]
  <1>1. /\ call[c].pc = "lookup" /\ UNCHANGED <<bound, user, codeVars, session>>
        /\ Goto(c, IF C = {} THEN Free ELSE job)
    BY DEF LookUpCode
  <1>2. CASE C = {}
    BY <1>1, <1>2, FreeJob, RequestMoves
  <1>3. CASE C # {}
    <2>1. /\ issued \in Nat /\ DOMAIN code \subseteq 1..issued
          /\ \A i \in DOMAIN code : code[i].attempts \in Nat
      BY CodeDomain DEF UserFacts, OtpInv
    <2>2. last \in DOMAIN code /\ last \in Nat
      <3>1. C \in SUBSET (1..issued) /\ C \subseteq DOMAIN code
        BY <2>1 DEF CodesOf
      <3>2. last \in C
        BY <1>3, <2>1, <3>1, MaxOf
      <3> QED
        BY <2>1, <3>1, <3>2
    <2>3. job \in AnyCall
      <3>1. call[c].user \in User /\ call[c].purpose \in Purpose /\ call[c].guess \in Nat
        BY <1>1, JobFields DEF UserFacts
      <3> QED
        BY <2>1, <2>2, <3>1 DEF AnyCall, CodeJob
    <2>4. job.pc = "compare" /\ job.id = last /\ job.attempts = code[last].attempts
      OBVIOUS
    <2> HIDE DEF job
    <2>5. Goto(c, job)
      BY <1>1, <1>3
    <2>6. /\ UserFacts' /\ SessionInv'
          /\ call'[c] = job /\ \A q \in Call \ {c} : call'[q] = call[q]
      BY <1>1, <2>3, <2>4, <2>5, CodeStepFrame DEF UserFacts
    <2>7. code' = code /\ issued' = issued /\ used' = used
      BY <1>1 DEF codeVars
    <2>8. OtpTypeOK'
      BY <1>1 DEF OtpInv, OtpTypeOK, codeVars
    <2>9. CodesCounted'
      BY <2>4, <2>6, <2>7, CodesKeep DEF UserFacts
    <2>10. SpentOnce'
      BY <1>1, <2>4, <2>6, <2>7, SpentKeeps
    <2>11. AttemptsCounted'
      <3> SUFFICES ASSUME NEW i \in DOMAIN code
                   PROVE  code[i].attempts + Cardinality(Comparing(i)')
                            < AttemptLimit + Cardinality(Call)
        BY <2>7 DEF AttemptsCounted
      <3>1. code[i].attempts \in Nat
        BY <2>1
      <3>2. IsFiniteSet(Comparing(i)) /\ Cardinality(Comparing(i)) \in Nat
        BY CallCounts DEF Comparing
      <3>3. Cardinality(Comparing(i)') \in Nat /\ Cardinality(Comparing(i)') <= Cardinality(Call)
        BY CallCounts DEF Comparing
      <3>4. CASE i = last /\ ~Exhausted(job)
        <4>1. code[i].attempts < AttemptLimit
          BY <2>4, <3>1, <3>4, LimitIsNat DEF Exhausted
        <4> QED
          BY <3>1, <3>3, <4>1, CallCounts, LimitIsNat
      <3>5. CASE ~ (i = last /\ ~Exhausted(job))
        <4>1. Comparing(i)' \subseteq Comparing(i)
          BY <2>4, <2>6, <3>5 DEF Comparing, Exhausted
        <4>2. Cardinality(Comparing(i)') <= Cardinality(Comparing(i))
          BY <3>2, <4>1, CountsGrow
        <4>3. code[i].attempts + Cardinality(Comparing(i)) < AttemptLimit + Cardinality(Call)
          BY DEF OtpInv, AttemptsCounted
        <4> QED
          BY <3>1, <3>2, <3>3, <4>2, <4>3, CallCounts, LimitIsNat
      <3> QED
        BY <3>4, <3>5
    <2>12. DeliversCreated'
      BY <2>4, <2>6, <2>7, DeliversKeep
    <2> QED
      BY <2>6, <2>8, <2>9, <2>10, <2>11, <2>12 DEF OtpInv
  <1> QED
    BY <1>2, <1>3

LEMMA DiscardCodeKeeps ==
  ASSUME UserFacts, OtpInv, SessionInv, NEW c \in Call, DiscardCode(c), UNCHANGED session
  PROVE  UserFacts' /\ OtpInv' /\ SessionInv'
  <1>1. /\ call[c].pc = "compare" /\ code' = Without({call[c].id})
        /\ Goto(c, Free) /\ UNCHANGED <<bound, user, issued, mailed, used>>
    BY DEF DiscardCode, End
  <1>2. /\ UserFacts' /\ SessionInv'
        /\ call'[c] = Free /\ \A q \in Call \ {c} : call'[q] = call[q]
    BY <1>1, FreeJob, CodeStepFrame DEF UserFacts
  <1>3. bound \in Bounds /\ used' \in [1..bound.code -> Nat]
    BY <1>1 DEF UserFacts, OtpInv, OtpTypeOK
  <1>4. OtpTypeOK' /\ \A i \in DOMAIN code' : i \in DOMAIN code /\ code'[i] = code[i]
    BY <1>1, <1>3, WithoutFacts
  <1>5. OtpInv'
    BY <1>1, <1>2, <1>3, <1>4, FreeJob, CodesShrink
  <1> QED
    BY <1>2, <1>5

\* An attempt that is counted is not compared any more.
LEMMA MissCodeKeeps ==
  ASSUME UserFacts, OtpInv, SessionInv, NEW c \in Call, MissCode(c), UNCHANGED session
  PROVE  UserFacts' /\ OtpInv' /\ SessionInv'
  <1> DEFINE k == call[c].id
  <1>1. /\ call[c].pc = "compare" /\ ~Exhausted(call[c])
        /\ code' = IF k \in DOMAIN code THEN [code EXCEPT ![k].attempts = @ + 1] ELSE code
        /\ Goto(c, Free) /\ UNCHANGED <<bound, user, issued, mailed, used>>
    BY DEF MissCode, End
  <1>2. /\ UserFacts' /\ SessionInv'
        /\ call'[c] = Free /\ \A q \in Call \ {c} : call'[q] = call[q]
    BY <1>1, FreeJob, CodeStepFrame DEF UserFacts
  <1>3. CASE k \notin DOMAIN code
    <2>1. code' = code
      BY <1>1, <1>3
    <2>2. OtpTypeOK'
      BY <1>1, <2>1 DEF OtpInv, OtpTypeOK
    <2>3. OtpInv'
      BY <1>1, <1>2, <2>1, <2>2, FreeJob, CodesShrink DEF UserFacts
    <2> QED
      BY <1>2, <2>3
  <1>4. CASE k \in DOMAIN code
    <2> DEFINE R == [user : User, purpose : Purpose, attempts : Nat, age : Fresh..Expired]
               new == [code[k] EXCEPT !.attempts = @ + 1]
    <2>1. code \in [DOMAIN code -> R] /\ code[k] \in R
      BY <1>4 DEF OtpInv, OtpTypeOK
    <2>2. /\ new \in R /\ new.user = code[k].user /\ new.purpose = code[k].purpose
          /\ new.attempts = code[k].attempts + 1 /\ code[k].attempts \in Nat
      BY <2>1
    <2>3. code' = [code EXCEPT ![k] = new]
      BY <1>1, <1>4
    <2> HIDE DEF new, R
    <2>4. /\ code' \in [DOMAIN code -> R] /\ DOMAIN code' = DOMAIN code /\ code'[k] = new
          /\ \A i \in DOMAIN code \ {k} : code'[i] = code[i]
      BY <1>4, <2>1, <2>2, <2>3
    <2>5. OtpTypeOK'
      BY <1>1, <2>4 DEF OtpInv, OtpTypeOK, R
    <2>6. CodesCounted'
      BY <1>2, <2>2, <2>4, FreeJob, CodesKeep DEF UserFacts
    <2>7. SpentOnce'
      BY <1>1, <1>2, <2>4, FreeJob, SpentKeeps
    <2>8. DeliversCreated'
      BY <1>1, <1>2, FreeJob, DeliversKeep
    <2>9. AttemptsCounted'
      <3> SUFFICES ASSUME NEW i \in DOMAIN code
                   PROVE  code'[i].attempts + Cardinality(Comparing(i)')
                            < AttemptLimit + Cardinality(Call)
        BY <2>4 DEF AttemptsCounted
      <3>1. /\ code[i].attempts \in Nat
            /\ code[i].attempts + Cardinality(Comparing(i)) < AttemptLimit + Cardinality(Call)
        BY CodeDomain DEF UserFacts, OtpInv, AttemptsCounted
      <3>2. IsFiniteSet(Comparing(i)) /\ Cardinality(Comparing(i)) \in Nat
        BY CallCounts DEF Comparing
      <3>3. Comparing(i)' = Comparing(i) \ {c}
        BY <1>2, FreeJob DEF Comparing, Exhausted
      <3>4. CASE i = k
        <4>1. c \in Comparing(i)
          BY <1>1, <3>4 DEF Comparing
        <4>2. Cardinality(Comparing(i) \ {c}) = Cardinality(Comparing(i)) - 1
          BY <3>2, <4>1, FS_RemoveElement
        <4>3. code'[i].attempts = code[i].attempts + 1
          BY <2>2, <2>4, <3>4
        <4>4. Cardinality(Comparing(i)') = Cardinality(Comparing(i)) - 1
          BY <3>3, <4>2
        <4> QED
          BY <3>1, <3>2, <4>3, <4>4, CallCounts, LimitIsNat
      <3>5. CASE i # k
        <4>1. /\ Cardinality(Comparing(i)') \in Nat
              /\ Cardinality(Comparing(i)') <= Cardinality(Comparing(i))
          BY <3>2, <3>3, CountsGrow
        <4>2. code'[i] = code[i]
          BY <2>4, <3>5
        <4> QED
          BY <3>1, <3>2, <4>1, <4>2, CallCounts, LimitIsNat
      <3> QED
        BY <3>4, <3>5
    <2> QED
      BY <1>2, <2>5, <2>6, <2>7, <2>8, <2>9 DEF OtpInv
  <1> QED
    BY <1>3, <1>4

\* A stored code has not been used: it is spent by the one who deletes it.
LEMMA SpendCodeKeeps ==
  ASSUME UserFacts, OtpInv, SessionInv, NEW c \in Call, SpendCode(c), UNCHANGED session
  PROVE  UserFacts' /\ OtpInv' /\ SessionInv'
  <1> DEFINE k == call[c].id
             email == call[c].purpose = "EMAIL_VERIFICATION"
             apply == [pc |-> "apply", user |-> call[c].user,
                       purpose |-> call[c].purpose, id |-> k]
             job == IF email THEN Free ELSE apply
  <1>1. /\ call[c].pc = "compare" /\ k \in DOMAIN code /\ code' = Without({k})
        /\ user' = IF email THEN [user EXCEPT ![call[c].user].verified = TRUE] ELSE user
        /\ used' = IF email THEN [used EXCEPT ![k] = @ + 1] ELSE used
        /\ Goto(c, job) /\ UNCHANGED <<bound, issued, mailed>>
    BY DEF SpendCode, Spendable
  <1>2. /\ bound \in Bounds /\ bound.code \in Nat /\ issued \in Nat /\ issued <= bound.code
        /\ DOMAIN code \subseteq 1..issued /\ k \in 1..issued /\ k \in 1..bound.code
    BY <1>1, CodeDomain DEF UserFacts, OtpInv
  <1>3. call[c].user \in User /\ call[c].purpose \in Purpose
    BY <1>1, JobFields DEF UserFacts
  <1>4. apply \in AnyCall /\ apply.pc = "apply" /\ apply.id = k
    BY <1>2, <1>3 DEF AnyCall, CodeJob
  <1> HIDE DEF apply
  <1>5. job \in AnyCall /\ (email => job = Free) /\ (~email => job = apply)
    BY <1>4, FreeJob
  <1>6. job.pc \in {"free", "apply"}
    BY <1>4, FreeJob
  <1> HIDE DEF job
  <1>7. /\ user' \in UserType
        /\ \A u \in User : /\ user'[u].pin = user[u].pin /\ user'[u].stage = user[u].stage
                           /\ user'[u].revocations = user[u].revocations
    <2>1. CASE email
      <3> DEFINE v == call[c].user
                 r == [user[v] EXCEPT !.verified = TRUE]
                 R == [active : BOOLEAN, verified : BOOLEAN, pin : Nat, stage : 1..2,
                       revocations : Nat]
      <3>1. user \in [User -> R] /\ user[v] \in R
        BY <1>3 DEF UserFacts, UserType
      <3>2. /\ r \in R /\ r.pin = user[v].pin /\ r.stage = user[v].stage
            /\ r.revocations = user[v].revocations
        BY <3>1
      <3>3. user' = [user EXCEPT ![v] = r]
        BY <1>1, <2>1
      <3> HIDE DEF r, R
      <3>4. user' \in [User -> R]
        BY <3>1, <3>2, <3>3
      <3>5. \A u \in User : user'[u] = IF u = v THEN r ELSE user[u]
        BY <3>1, <3>3
      <3> QED
        BY <3>2, <3>4, <3>5 DEF R, UserType
    <2>2. CASE ~email
      BY <1>1, <2>2 DEF UserFacts
    <2> QED
      BY <2>1, <2>2
  <1>8. /\ UserFacts' /\ SessionInv'
        /\ call'[c] = job /\ \A q \in Call \ {c} : call'[q] = call[q]
    BY <1>1, <1>5, <1>6, <1>7, CodeStepFrame
  <1>9. used' \in [1..bound.code -> Nat] /\ \A i \in (1..bound.code) \ {k} : used'[i] = used[i]
    BY <1>1, <1>2 DEF OtpInv, OtpTypeOK
  <1>10. /\ OtpTypeOK' /\ DOMAIN code' = DOMAIN code \ {k}
         /\ \A i \in DOMAIN code' : i \in DOMAIN code /\ code'[i] = code[i]
    BY <1>1, <1>2, <1>9, WithoutFacts
  <1>11. AttemptsCounted'
    BY <1>2, <1>6, <1>8, <1>10, AttemptsKeep
  <1>12. CodesCounted'
    BY <1>2, <1>6, <1>8, <1>10, CodesKeep
  <1>13. DeliversCreated'
    BY <1>1, <1>6, <1>8, DeliversKeep
  <1>14. SpentOnce'
    <2>1. /\ \A i \in 1..bound.code : i \in DOMAIN code \/ i > issued => used[i] = 0
          /\ \A q \in Call : call[q].pc = "apply" =>
               /\ call[q].id \in (1..issued) \ DOMAIN code
               /\ used[call[q].id] = 0
               /\ \A d \in Call \ {q} : call[d].pc = "apply" => call[d].id # call[q].id
      BY DEF OtpInv, SpentOnce
    <2>2. ASSUME NEW i \in 1..bound'.code, i \in DOMAIN code' \/ i > issued' PROVE used'[i] = 0
      <3>1. i # k /\ (i \in DOMAIN code \/ i > issued) /\ i \in 1..bound.code
        BY <1>1, <1>2, <1>10, <2>2
      <3> QED
        BY <1>9, <2>1, <3>1
    <2>3. ASSUME NEW q \in Call, call'[q].pc = "apply"
          PROVE  /\ call'[q].id \in (1..issued') \ DOMAIN code'
                 /\ used'[call'[q].id] = 0
                 /\ \A d \in Call \ {q} : call'[d].pc = "apply" => call'[d].id # call'[q].id
      <3>1. CASE q = c
        <4>1. ~email /\ call'[q].id = k
          BY <1>4, <1>5, <1>8, <2>3, <3>1, FreeJob
        <4>2. used'[k] = 0
          BY <1>1, <1>2, <2>1, <4>1
        <4>3. \A d \in Call \ {q} : call'[d].pc = "apply" => call'[d].id # k
          BY <1>1, <1>8, <2>1, <3>1
        <4> QED
          BY <1>1, <1>2, <1>10, <4>1, <4>2, <4>3
      <3>2. CASE q # c
        <4>1. /\ call'[q] = call[q] /\ call[q].pc = "apply"
              /\ call[q].id \in (1..issued) \ DOMAIN code
          BY <1>8, <2>1, <2>3, <3>2
        <4>2. call[q].id # k /\ call[q].id \in 1..bound.code
          BY <1>1, <1>2, <4>1
        <4>3. used'[call[q].id] = 0
          BY <1>9, <2>1, <4>1, <4>2
        <4>4. ASSUME NEW d \in Call \ {q}, call'[d].pc = "apply" PROVE call'[d].id # call[q].id
          <5>1. CASE d = c
            BY <1>4, <1>5, <1>8, <4>2, <4>4, <5>1, FreeJob
          <5>2. CASE d # c
            BY <1>8, <2>1, <4>1, <4>4, <5>2
          <5> QED
            BY <5>1, <5>2
        <4> QED
          BY <1>1, <1>10, <4>1, <4>3, <4>4
      <3> QED
        BY <3>1, <3>2
    <2> QED
      BY <2>2, <2>3 DEF SpentOnce
  <1> QED
    BY <1>8, <1>10, <1>11, <1>12, <1>13, <1>14 DEF OtpInv

-----------------------------------------------------------------------------
(* The sessions *)

\* A revocation of all sessions of a user leaves nothing of his alive.
LEMMA RevokedKeeps ==
  ASSUME UserFacts, SessionInv, NEW u \in User,
         user' \in UserType, user'[u].revocations = user[u].revocations + 1,
         \A v \in User \ {u} : user'[v].revocations = user[v].revocations,
         session' \in [DOMAIN session -> SessionType],
         \A s \in DOMAIN session :
           /\ session'[s].user = session[s].user /\ session'[s].parent = session[s].parent
           /\ session'[s].epoch = session[s].epoch /\ session'[s].expired = session[s].expired
           /\ session'[s].revoked <=> (session[s].revoked \/ session[s].user = u),
         \A q \in Call : call'[q].pc \in {"rotate", "mint"} => call'[q] = call[q]
  PROVE  SessionInv'
  <1>1. /\ session \in Seq(SessionType) /\ Len(session) \in Nat
        /\ DOMAIN session = 1..Len(session)
        /\ \A s \in DOMAIN session : session[s].user \in User
    BY SessionDomain DEF SessionInv, SessionTypeOK
  <1>2. session' \in Seq(SessionType) /\ Len(session') = Len(session)
    <2>1. session' \in [1..Len(session) -> SessionType]
      BY <1>1
    <2>2. session' \in Seq(SessionType)
      BY <1>1, <2>1, SeqDef
    <2>3. DOMAIN session' = 1..Len(session) /\ DOMAIN session' = 1..Len(session')
      BY <2>1, <2>2
    <2>4. Len(session') \in Nat
      BY <2>2
    <2> QED
      BY <1>1, <2>2, <2>3, <2>4
  <1>3. SessionTypeOK'
    BY <1>2 DEF SessionTypeOK
  <1>4. ASSUME NEW s \in DOMAIN session, Live(s)'
        PROVE  /\ Live(s)
               /\ user'[session[s].user].revocations = user[session[s].user].revocations
    <2>1. session[s].user # u /\ session[s].user \in User
      BY <1>1, <1>4 DEF Live
    <2> QED
      BY <1>4, <2>1 DEF Live
  <1> QED
    BY <1>2, <1>3, <1>4, MarkedKeeps

LEMMA RevokeAllFacts ==
  ASSUME UserFacts, SessionInv, NEW u \in User, RevokeAll(u)
  PROVE  /\ user' \in UserType /\ user'[u].revocations = user[u].revocations + 1
         /\ \A v \in User : user'[v].pin = user[v].pin /\ user'[v].stage = user[v].stage
         /\ \A v \in User \ {u} : user'[v].revocations = user[v].revocations
         /\ session' \in [DOMAIN session -> SessionType]
         /\ \A s \in DOMAIN session :
              /\ session'[s].user = session[s].user /\ session'[s].parent = session[s].parent
              /\ session'[s].epoch = session[s].epoch /\ session'[s].expired = session[s].expired
              /\ session'[s].revoked <=> (session[s].revoked \/ session[s].user = u)
  <1>1. /\ user' = [user EXCEPT ![u].revocations = @ + 1]
        /\ session' = [s \in DOMAIN session |->
                        IF session[s].user = u THEN [session[s] EXCEPT !.revoked = TRUE]
                                               ELSE session[s]]
    BY DEF RevokeAll
  <1>2. /\ user' \in UserType /\ user'[u].revocations = user[u].revocations + 1
        /\ \A v \in User : user'[v].pin = user[v].pin /\ user'[v].stage = user[v].stage
        /\ \A v \in User \ {u} : user'[v].revocations = user[v].revocations
    BY <1>1 DEF UserFacts, UserType
  <1>3. ASSUME NEW s \in DOMAIN session
        PROVE  /\ session'[s] \in SessionType
               /\ session'[s].user = session[s].user /\ session'[s].parent = session[s].parent
               /\ session'[s].epoch = session[s].epoch
               /\ session'[s].expired = session[s].expired
               /\ session'[s].revoked <=> (session[s].revoked \/ session[s].user = u)
    <2>1. session[s] \in SessionType
      BY SessionDomain DEF SessionInv, SessionTypeOK
    <2>2. session'[s] = IF session[s].user = u THEN [session[s] EXCEPT !.revoked = TRUE]
                                               ELSE session[s]
      BY <1>1
    <2> QED
      BY <2>1, <2>2 DEF SessionType
  <1>4. session' \in [DOMAIN session -> SessionType]
    BY <1>1, <1>3
  <1> QED
    BY <1>2, <1>3, <1>4

LEMMA ChangePasswordKeeps ==
  ASSUME UserFacts, OtpInv, SessionInv, NEW c \in Call, ChangePassword(c), UNCHANGED codeVars
  PROVE  UserFacts' /\ OtpInv' /\ SessionInv'
  <1>1. /\ call[c].pc = "rewrite" /\ RevokeAll(call[c].user) /\ End(c)
        /\ UNCHANGED <<bound, codeVars>>
    BY DEF ChangePassword
  <1>2. call[c].user \in User
    BY <1>1, JobFields DEF UserFacts
  <1>3. /\ call' \in [Call -> AnyCall] /\ call'[c].pc = "free"
        /\ \A q \in Call \ {c} : call'[q] = call[q]
    BY <1>1, EndFacts DEF UserFacts
  <1>4. UserFacts'
    BY <1>1, <1>2, <1>3, RevokeAllFacts, UsersFrame
  <1>5. OtpInv'
    BY <1>1, <1>3, CodesFrame DEF UserFacts
  <1>6. SessionInv'
    BY <1>1, <1>2, <1>3, RevokeAllFacts, RevokedKeeps
  <1> QED
    BY <1>4, <1>5, <1>6

LEMMA DeleteAccountKeeps ==
  ASSUME UserFacts, OtpInv, SessionInv, NEW u \in User, DeleteAccount(u), UNCHANGED codeVars
  PROVE  UserFacts' /\ OtpInv' /\ SessionInv'
  <1>1. /\ user' = [user EXCEPT ![u].active = FALSE, ![u].revocations = @ + 1]
        /\ session' = [s \in DOMAIN session |->
                         [session[s] EXCEPT !.revoked = @ \/ session[s].user = u]]
        /\ bound' = bound /\ call' = call
    BY DEF DeleteAccount
  <1>2. /\ user' \in UserType /\ user'[u].revocations = user[u].revocations + 1
        /\ \A v \in User : user'[v].pin = user[v].pin /\ user'[v].stage = user[v].stage
        /\ \A v \in User \ {u} : user'[v].revocations = user[v].revocations
    BY <1>1 DEF UserFacts, UserType
  <1>3. ASSUME NEW s \in DOMAIN session
        PROVE  /\ session'[s] \in SessionType
               /\ session'[s].user = session[s].user /\ session'[s].parent = session[s].parent
               /\ session'[s].epoch = session[s].epoch
               /\ session'[s].expired = session[s].expired
               /\ session'[s].revoked <=> (session[s].revoked \/ session[s].user = u)
    <2>1. session[s] \in SessionType
      BY SessionDomain DEF SessionInv, SessionTypeOK
    <2>2. session'[s] = [session[s] EXCEPT !.revoked = @ \/ session[s].user = u]
      BY <1>1
    <2> QED
      BY <2>1, <2>2 DEF SessionType
  <1>4. session' \in [DOMAIN session -> SessionType]
    BY <1>1, <1>3
  <1>5. SessionInv'
    <2>1. \A q \in Call : call'[q] = call[q]
      BY <1>1
    <2>2. \A s \in DOMAIN session :
            /\ session'[s].user = session[s].user /\ session'[s].parent = session[s].parent
            /\ session'[s].epoch = session[s].epoch
            /\ session'[s].expired = session[s].expired
            /\ session'[s].revoked <=> (session[s].revoked \/ session[s].user = u)
      BY <1>3
    <2> QED
      BY <1>2, <1>4, <2>1, <2>2, RevokedKeeps
  <1>6. UserFacts'
    BY <1>1, <1>2, UsersFrame DEF UserFacts
  <1>7. OtpInv'
    BY <1>1, CodesFrame DEF UserFacts
  <1> QED
    BY <1>5, <1>6, <1>7

LEMMA RotateKeeps ==
  ASSUME UserFacts, OtpInv, SessionInv, NEW c \in Call, Rotate(c), UNCHANGED codeVars
  PROVE  UserFacts' /\ OtpInv' /\ SessionInv'
  <1> DEFINE s == call[c].id
             job == [pc |-> "mint", user |-> session[s].user, parent |-> s]
             new == [session[s] EXCEPT !.revoked = TRUE]
  <1>1. /\ call[c].pc = "rotate" /\ session' = [session EXCEPT ![s] = new]
        /\ Goto(c, job) /\ UNCHANGED <<bound, user, codeVars>>
    BY DEF Rotate
  <1>2. s \in DOMAIN session
    BY <1>1 DEF SessionInv, ParentsExist
  <1>3. /\ session \in Seq(SessionType) /\ DOMAIN session = 1..Len(session) /\ s \in Nat
        /\ session[s] \in SessionType /\ session[s].user \in User
    BY <1>2, SessionDomain DEF SessionInv, SessionTypeOK
  <1>4. /\ new \in SessionType /\ new.revoked = TRUE /\ new.user = session[s].user
        /\ new.parent = session[s].parent /\ new.epoch = session[s].epoch
    BY <1>3 DEF SessionType
  <1>5. job \in AnyCall /\ job.pc = "mint" /\ job.parent = s
    BY <1>3 DEF AnyCall, SessionJob
  <1> HIDE DEF new, job
  <1>6. /\ call' \in [Call -> AnyCall] /\ call'[c] = job
        /\ \A q \in Call \ {c} : call'[q] = call[q]
    BY <1>1, <1>5, GotoFacts DEF UserFacts
  <1>7. /\ session' \in Seq(SessionType) /\ Len(session') = Len(session)
        /\ \A t \in DOMAIN session : session'[t] = IF t = s THEN new ELSE session[t]
    BY <1>1, <1>2, <1>3, <1>4, ExceptSeq
  <1>8. \A t \in DOMAIN session :
          /\ session'[t].user = session[t].user /\ session'[t].parent = session[t].parent
          /\ session'[t].epoch = session[t].epoch
          /\ session[t].revoked => session'[t].revoked
          /\ Live(t)' => Live(t)
    BY <1>4, <1>7 DEF Live
  <1>9. \A q \in Call : call'[q].pc \in {"rotate", "mint"} =>
          \/ call'[q] = call[q]
          \/ /\ call[q].pc = "rotate" /\ call'[q].pc = "mint"
             /\ call'[q].parent = call[q].id /\ session'[call[q].id].revoked
    BY <1>1, <1>2, <1>4, <1>5, <1>6, <1>7
  <1>10. SessionTypeOK'
    BY <1>7 DEF SessionTypeOK
  <1>11. SessionInv'
    BY <1>1, <1>7, <1>8, <1>9, <1>10, MarkedKeeps
  <1>12. UserFacts'
    BY <1>1, <1>5, <1>6, UsersFrame DEF UserFacts
  <1>13. OtpInv'
    BY <1>1, <1>5, <1>6, CodesFrame DEF UserFacts
  <1> QED
    BY <1>11, <1>12, <1>13

LEMMA StampKeeps ==
  ASSUME UserFacts, OtpInv, SessionInv, NEW c \in Call, Stamp(c), UNCHANGED codeVars
  PROVE  UserFacts' /\ OtpInv' /\ SessionInv'
  <1> DEFINE job == [pc |-> "mint", user |-> call[c].user, parent |-> 0]
             mark == call[c].seen \/ call[c].proven
  <1>1. /\ call[c].pc = "stamp" /\ Goto(c, job) /\ UNCHANGED <<bound, session, codeVars>>
        /\ user' = [user EXCEPT ![call[c].user].verified = mark]
    BY DEF Stamp
  <1>2. call[c].user \in User /\ mark \in BOOLEAN
    BY <1>1, JobFields DEF UserFacts
  <1>3. job \in AnyCall /\ job.pc = "mint" /\ job.parent = 0
    BY <1>2 DEF AnyCall, SessionJob
  <1> HIDE DEF job, mark
  <1>4. /\ call' \in [Call -> AnyCall] /\ call'[c] = job
        /\ \A q \in Call \ {c} : call'[q] = call[q]
    BY <1>1, <1>3, GotoFacts DEF UserFacts
  <1>5. /\ user' \in UserType
        /\ \A v \in User : /\ user'[v].pin = user[v].pin /\ user'[v].stage = user[v].stage
                           /\ user'[v].revocations = user[v].revocations
    BY <1>1, <1>2 DEF UserFacts, UserType
  <1>6. UserFacts'
    BY <1>1, <1>3, <1>4, <1>5, UsersFrame
  <1>7. OtpInv'
    BY <1>1, <1>3, <1>4, CodesFrame DEF UserFacts
  <1>8. SessionInv'
    BY <1>1, <1>3, <1>4, <1>5, SessionsFrame
  <1> QED
    BY <1>6, <1>7, <1>8

\* Refresh, mint, expiry and logout, with what they leave alone.
LEMMA SessionStepKeeps ==
  ASSUME UserFacts, OtpInv, SessionInv, UNCHANGED codeVars,
         \/ \E c \in Call, s \in DOMAIN session : Refresh(c, s)
         \/ \E c \in Call : Mint(c)
         \/ \E s \in DOMAIN session : ExpireSession(s) \/ Logout(s)
  PROVE  UserFacts' /\ OtpInv' /\ SessionInv'
  <1>1. ASSUME NEW c \in Call, NEW s \in DOMAIN session, Refresh(c, s)
        PROVE  UserFacts' /\ OtpInv' /\ SessionInv'
    <2>1. /\ SessionInv' /\ call' \in [Call -> AnyCall] /\ call'[c].pc = "rotate"
          /\ \A q \in Call \ {c} : call'[q] = call[q]
      BY <1>1, RefreshKeeps
    <2>2. UNCHANGED <<bound, user>>
      BY <1>1 DEF Refresh, Refresh_AnyToken
    <2> QED
      BY <2>1, <2>2, UsersFrame, CodesFrame DEF UserFacts
  <1>2. ASSUME NEW c \in Call, Mint(c) PROVE UserFacts' /\ OtpInv' /\ SessionInv'
    <2>1. End(c) /\ UNCHANGED <<bound, user>>
      BY <1>2 DEF Mint
    <2>2. /\ call' \in [Call -> AnyCall] /\ call'[c].pc = "free"
          /\ \A q \in Call \ {c} : call'[q] = call[q]
      BY <2>1, EndFacts DEF UserFacts
    <2>3. SessionInv'
      BY <1>2, MintKeeps
    <2> QED
      BY <2>1, <2>2, <2>3, UsersFrame, CodesFrame DEF UserFacts
  <1>3. ASSUME NEW s \in DOMAIN session, ExpireSession(s) \/ Logout(s)
        PROVE  UserFacts' /\ OtpInv' /\ SessionInv'
    <2>1. SessionInv'
      BY <1>3, MarkKeeps
    <2>2. UNCHANGED <<bound, user, call>>
      BY <1>3 DEF ExpireSession, Logout
    <2> QED
      BY <2>1, <2>2, UsersFrame, CodesFrame DEF UserFacts
  <1> QED
    BY <1>1, <1>2, <1>3

-----------------------------------------------------------------------------
(* The resets, the PIN and what any request may meet *)

\* The writes of a reset: its code takes effect, and it is the only one to
\* hold that code.
LEMMA TookKeeps ==
  ASSUME UserFacts, OtpInv, NEW c \in Call, call[c].pc = "apply", Took(c), End(c),
         UNCHANGED <<bound, code, issued, mailed>>
  PROVE  OtpInv'
  <1> DEFINE k == call[c].id
  <1>1. used' = [used EXCEPT ![k] = @ + 1] /\ UNCHANGED <<bound, code, issued, mailed>>
    BY DEF Took
  <1>2. /\ call' \in [Call -> AnyCall] /\ call'[c].pc = "free"
        /\ \A q \in Call \ {c} : call'[q] = call[q]
    BY EndFacts DEF UserFacts
  <1>3. /\ bound.code \in Nat /\ issued \in Nat /\ issued <= bound.code
        /\ DOMAIN code \subseteq 1..issued
    BY CodeDomain DEF UserFacts, OtpInv
  <1>4. /\ \A i \in 1..bound.code : i \in DOMAIN code \/ i > issued => used[i] = 0
        /\ \A q \in Call : call[q].pc = "apply" =>
             /\ call[q].id \in (1..issued) \ DOMAIN code
             /\ used[call[q].id] = 0
             /\ \A d \in Call \ {q} : call[d].pc = "apply" => call[d].id # call[q].id
    BY DEF OtpInv, SpentOnce
  <1>5. k \in (1..issued) \ DOMAIN code /\ k \in 1..bound.code
    BY <1>3, <1>4
  <1>6. used' \in [1..bound.code -> Nat] /\ \A i \in (1..bound.code) \ {k} : used'[i] = used[i]
    BY <1>1, <1>5 DEF OtpInv, OtpTypeOK
  <1>7. OtpTypeOK'
    BY <1>1, <1>6 DEF OtpInv, OtpTypeOK
  <1>8. AttemptsCounted'
    BY <1>1, <1>2, AttemptsKeep DEF UserFacts
  <1>9. CodesCounted'
    BY <1>1, <1>2, CodesKeep DEF UserFacts
  <1>10. DeliversCreated'
    BY <1>1, <1>2, DeliversKeep
  <1>11. SpentOnce'
    <2>1. ASSUME NEW i \in 1..bound'.code, i \in DOMAIN code' \/ i > issued' PROVE used'[i] = 0
      <3>1. i # k /\ i \in 1..bound.code /\ (i \in DOMAIN code \/ i > issued)
        BY <1>1, <1>3, <1>5, <2>1
      <3> QED
        BY <1>4, <1>6, <3>1
    <2>2. ASSUME NEW q \in Call, call'[q].pc = "apply"
          PROVE  /\ call'[q].id \in (1..issued') \ DOMAIN code'
                 /\ used'[call'[q].id] = 0
                 /\ \A d \in Call \ {q} : call'[d].pc = "apply" => call'[d].id # call'[q].id
      <3>1. q # c /\ call'[q] = call[q] /\ call[q].pc = "apply"
        BY <1>2, <2>2
      <3>2. /\ call[q].id \in (1..issued) \ DOMAIN code /\ used[call[q].id] = 0
            /\ \A d \in Call \ {q} : call[d].pc = "apply" => call[d].id # call[q].id
        BY <1>4, <3>1
      <3>3. call[q].id # k /\ call[q].id \in 1..bound.code
        BY <1>3, <3>1, <3>2
      <3>4. used'[call[q].id] = 0
        BY <1>6, <3>2, <3>3
      <3>5. \A d \in Call \ {q} : call'[d].pc = "apply" => call'[d].id # call[q].id
        BY <1>2, <3>2
      <3> QED
        BY <1>1, <3>1, <3>2, <3>4, <3>5
    <2> QED
      BY <2>1, <2>2 DEF SpentOnce
  <1> QED
    BY <1>7, <1>8, <1>9, <1>10, <1>11 DEF OtpInv

LEMMA ResetPasswordKeeps ==
  ASSUME UserFacts, OtpInv, SessionInv, NEW c \in Call, ResetPassword(c)
  PROVE  UserFacts' /\ OtpInv' /\ SessionInv'
  <1>1. /\ call[c].pc = "apply" /\ RevokeAll(call[c].user) /\ Took(c) /\ End(c)
        /\ UNCHANGED <<bound, code, issued, mailed>>
    BY DEF ResetPassword
  <1>2. call[c].user \in User
    BY <1>1, JobFields DEF UserFacts
  <1>3. /\ call' \in [Call -> AnyCall] /\ call'[c].pc = "free"
        /\ \A q \in Call \ {c} : call'[q] = call[q]
    BY <1>1, EndFacts DEF UserFacts
  <1>4. UserFacts'
    BY <1>1, <1>2, <1>3, RevokeAllFacts, UsersFrame
  <1>5. OtpInv'
    BY <1>1, TookKeeps
  <1>6. SessionInv'
    BY <1>1, <1>2, <1>3, RevokeAllFacts, RevokedKeeps
  <1> QED
    BY <1>4, <1>5, <1>6

\* A new PIN is not the PIN 0; without the stage it is written by updatePin
\* only, where there was one before.
LEMMA NewPinKeeps ==
  ASSUME UserFacts, NEW c \in Call, NEW u \in User, NEW staged \in BOOLEAN,
         NewPin(u, staged), staged \/ user[u].pin # 0, End(c), bound' = bound
  PROVE  /\ UserFacts'
         /\ \A v \in User : user'[v].revocations = user[v].revocations
  <1> DEFINE R == [active : BOOLEAN, verified : BOOLEAN, pin : Nat, stage : 1..2,
                   revocations : Nat]
             st == IF staged THEN 2 ELSE user[u].stage
             next == user[u].pin + 1
             r == [user[u] EXCEPT !.pin = next, !.stage = st]
  <1>1. user \in [User -> R] /\ user[u] \in R /\ st \in 1..2 /\ next \in Nat
    BY DEF UserFacts, UserType
  <1>0. user[u].pin \in Nat /\ next # 0
    BY <1>1
  <1> HIDE DEF st, next
  <1>2. /\ r \in R /\ r.pin = next
        /\ r.stage = st /\ r.revocations = user[u].revocations
    BY <1>1
  <1>3. user' = [user EXCEPT ![u] = r]
    BY <1>1 DEF NewPin, st, next
  <1> HIDE DEF r, R
  <1>4. user' \in [User -> R] /\ \A v \in User : user'[v] = IF v = u THEN r ELSE user[v]
    BY <1>1, <1>2, <1>3
  <1>5. user' \in UserType /\ \A v \in User : user'[v].revocations = user[v].revocations
    BY <1>2, <1>4 DEF R, UserType
  <1>6. /\ call' \in [Call -> AnyCall] /\ call'[c].pc = "free"
        /\ \A q \in Call \ {c} : call'[q] = call[q]
    BY EndFacts DEF UserFacts
  <1>7. \A v \in User : user[v].stage = 2 <=> user[v].pin # 0
    BY DEF UserFacts, StageFollowsPin
  <1>8. r.pin # 0 /\ r.stage = 2
    BY <1>0, <1>2, <1>7 DEF st
  <1>9. StageFollowsPin'
    BY <1>4, <1>7, <1>8 DEF StageFollowsPin
  <1>10. UpdatesHavePin'
    <2> SUFFICES ASSUME NEW q \in Call, call'[q].pc = "pin", ~call'[q].creates
                 PROVE  user'[call'[q].user].pin # 0
      BY DEF UpdatesHavePin
    <2>1. call'[q] = call[q] /\ call[q].pc = "pin" /\ ~call[q].creates
      BY <1>6
    <2>2. call[q].user \in User /\ user[call[q].user].pin # 0
      BY <2>1, JobFields DEF UserFacts, UpdatesHavePin
    <2> QED
      BY <1>4, <1>8, <2>1, <2>2
  <1> QED
    BY <1>5, <1>6, <1>9, <1>10 DEF UserFacts

LEMMA ResetPinKeeps ==
  ASSUME UserFacts, OtpInv, SessionInv, NEW c \in Call, ResetPin(c)
  PROVE  UserFacts' /\ OtpInv' /\ SessionInv'
  <1>1. /\ call[c].pc = "apply" /\ NewPin(call[c].user, TRUE) /\ Took(c) /\ End(c)
        /\ UNCHANGED <<bound, code, issued, mailed, session>>
    BY DEF ResetPin
  <1>2. call[c].user \in User
    BY <1>1, JobFields DEF UserFacts
  <1>3. UserFacts' /\ \A v \in User : user'[v].revocations = user[v].revocations
    BY <1>1, <1>2, NewPinKeeps
  <1>4. OtpInv'
    BY <1>1, TookKeeps
  <1>5. call'[c].pc = "free" /\ \A q \in Call \ {c} : call'[q] = call[q]
    BY <1>1, EndFacts DEF UserFacts
  <1>6. SessionInv'
    BY <1>1, <1>3, <1>5, SessionsFrame
  <1> QED
    BY <1>3, <1>4, <1>6

LEMMA WritePinKeeps ==
  ASSUME UserFacts, OtpInv, SessionInv, NEW c \in Call, WritePin(c)
  PROVE  UserFacts' /\ OtpInv' /\ SessionInv'
  <1>1. /\ call[c].pc = "pin" /\ NewPin(call[c].user, call[c].creates) /\ End(c)
        /\ UNCHANGED <<bound, codeVars, session>>
    BY DEF WritePin
  <1>2. call[c].user \in User /\ call[c].creates \in BOOLEAN
    BY <1>1, JobFields DEF UserFacts
  <1>3. call[c].creates \/ user[call[c].user].pin # 0
    BY <1>1 DEF UserFacts, UpdatesHavePin
  <1>4. UserFacts' /\ \A v \in User : user'[v].revocations = user[v].revocations
    BY <1>1, <1>2, <1>3, NewPinKeeps
  <1>5. call'[c].pc = "free" /\ \A q \in Call \ {c} : call'[q] = call[q]
    BY <1>1, EndFacts DEF UserFacts
  <1>6. OtpInv'
    BY <1>1, <1>5, CodesFrame DEF UserFacts
  <1>7. SessionInv'
    BY <1>1, <1>4, <1>5, SessionsFrame
  <1> QED
    BY <1>4, <1>6, <1>7

LEMMA BeginPinKeeps ==
  ASSUME UserFacts, OtpInv, SessionInv, NEW c \in Call, NEW u \in User,
         BeginCreatePin(c, u) \/ BeginUpdatePin(c, u)
  PROVE  UserFacts' /\ OtpInv' /\ SessionInv'
  <1>1. PICK creates \in BOOLEAN :
          /\ Goto(c, [pc |-> "pin", user |-> u, creates |-> creates])
          /\ creates \/ user[u].pin # 0
          /\ UNCHANGED <<bound, user, codeVars, session>>
    BY DEF BeginCreatePin, BeginUpdatePin, BeginUpdatePin_Any
  <1> DEFINE job == [pc |-> "pin", user |-> u, creates |-> creates]
  <1>2. job \in AnyCall /\ job.pc = "pin" /\ job.user = u /\ job.creates = creates
    BY DEF AnyCall, PinJob
  <1> HIDE DEF job
  <1>3. Goto(c, job)
    BY <1>1 DEF job
  <1>4. /\ call' \in [Call -> AnyCall] /\ call'[c] = job
        /\ \A q \in Call \ {c} : call'[q] = call[q]
    BY <1>2, <1>3, GotoFacts DEF UserFacts
  <1>5. StageFollowsPin' /\ user' \in UserType /\ bound' \in Bounds
    BY <1>1 DEF UserFacts, StageFollowsPin
  <1>6. UpdatesHavePin'
    BY <1>1, <1>2, <1>4 DEF UserFacts, UpdatesHavePin
  <1>7. OtpInv'
    BY <1>1, <1>2, <1>4, CodesFrame DEF UserFacts
  <1>8. SessionInv'
    BY <1>1, <1>2, <1>4, SessionsFrame
  <1> QED
    BY <1>4, <1>5, <1>6, <1>7, <1>8 DEF UserFacts

LEMMA ToggleKeeps ==
  ASSUME UserFacts, OtpInv, SessionInv, NEW u \in User, ToggleUserStatus(u),
         UNCHANGED <<codeVars, session>>
  PROVE  UserFacts' /\ OtpInv' /\ SessionInv'
  <1>1. user' = [user EXCEPT ![u].active = ~@] /\ UNCHANGED <<bound, call, codeVars, session>>
    BY DEF ToggleUserStatus
  <1>2. /\ user' \in UserType
        /\ \A v \in User : /\ user'[v].pin = user[v].pin /\ user'[v].stage = user[v].stage
                           /\ user'[v].revocations = user[v].revocations
    <2> DEFINE R == [active : BOOLEAN, verified : BOOLEAN, pin : Nat, stage : 1..2,
                     revocations : Nat]
               now == ~user[u].active
               r == [user[u] EXCEPT !.active = now]
    <2>1. user \in [User -> R] /\ user[u] \in R /\ now \in BOOLEAN
      BY DEF UserFacts, UserType
    <2>0. user' = [user EXCEPT ![u].active = now]
      BY <1>1
    <2> HIDE DEF now
    <2>2. /\ r \in R /\ r.pin = user[u].pin /\ r.stage = user[u].stage
          /\ r.revocations = user[u].revocations
      BY <2>1
    <2>3. user' = [user EXCEPT ![u] = r]
      BY <2>0
    <2> HIDE DEF r, R
    <2>4. user' \in [User -> R] /\ \A v \in User : user'[v] = IF v = u THEN r ELSE user[v]
      BY <2>1, <2>2, <2>3
    <2> QED
      BY <2>2, <2>4 DEF R, UserType
  <1>3. UserFacts'
    BY <1>1, <1>2, UsersFrame DEF UserFacts
  <1>4. OtpInv'
    BY <1>1, CodesFrame DEF UserFacts
  <1>5. SessionInv'
    BY <1>1, <1>2, SessionsFrame
  <1> QED
    BY <1>3, <1>4, <1>5

LEMMA RestartKeeps ==
  ASSUME UserFacts, OtpInv, SessionInv, Restart, UNCHANGED <<codeVars, session>>
  PROVE  UserFacts' /\ OtpInv' /\ SessionInv'
  <1>1. call' = [q \in Call |-> Free] /\ UNCHANGED <<bound, user, codeVars, session>>
    BY DEF Restart
  <1>2. call' \in [Call -> AnyCall] /\ \A q \in Call : call'[q].pc = "free"
    BY <1>1, FreeJob
  <1>3. UserFacts'
    BY <1>1, <1>2, UsersFrame DEF UserFacts
  <1>4. OtpInv'
    BY <1>1, <1>2, CodesFrame DEF UserFacts
  <1>5. SessionInv'
    BY <1>1, <1>2, SessionsFrame
  <1> QED
    BY <1>3, <1>4, <1>5

-----------------------------------------------------------------------------
(* The theorems *)

LEMMA InitInv == AccountsInit => AccountsInv
  <1> SUFFICES ASSUME AccountsInit PROVE AccountsInv
    OBVIOUS
  <1>1. /\ bound \in Bounds /\ code = << >> /\ issued = 0 /\ mailed = {}
        /\ used = [i \in 1..bound.code |-> 0] /\ session = << >>
        /\ user = [u \in User |-> [active |-> TRUE, verified |-> FALSE, pin |-> 0, stage |-> 1,
                                   revocations |-> 0]]
        /\ call = [q \in Call |-> Free]
    BY DEF AccountsInit, CredentialsInit, OtpInit, SessionInit
  <1>2. call \in [Call -> AnyCall] /\ \A q \in Call : call[q].pc = "free"
    BY <1>1, FreeJob
  <1>3. UserFacts
    BY <1>1, <1>2 DEF UserFacts, UserType, StageFollowsPin, UpdatesHavePin
  <1>4. DOMAIN code = {}
    BY <1>1
  <1>5. OtpInv
    <2>1. OtpTypeOK
      BY <1>1, <1>4, BoundOf DEF OtpTypeOK
    <2>2. AttemptsCounted
      BY <1>4 DEF AttemptsCounted
    <2>3. CodesCounted
      <3> SUFFICES ASSUME NEW u \in User, NEW p \in Purpose
                   PROVE  Cardinality(CodesOf(u, p)) + Cardinality(Creating(u, p))
                            <= Cardinality(Call)
        BY DEF CodesCounted
      <3>1. CodesOf(u, p) = {} /\ Creating(u, p) = {}
        BY <1>2, <1>4 DEF CodesOf, Creating
      <3> QED
        BY <3>1, FS_EmptySet, CallCounts
    <2>4. SpentOnce
      BY <1>1, <1>2 DEF SpentOnce
    <2>5. DeliversCreated
      BY <1>2 DEF DeliversCreated
    <2> QED
      BY <2>1, <2>2, <2>3, <2>4, <2>5 DEF OtpInv
  <1>6. SessionInv
    <2>1. SessionTypeOK /\ DOMAIN session = {}
      BY <1>1 DEF SessionTypeOK
    <2> QED
      BY <1>2, <2>1 DEF SessionInv, ParentsExist, ChildrenCounted, LiveSinceRevocation
  <1> QED
    BY <1>3, <1>5, <1>6, Parts

LEMMA NextInv == AccountsInv /\ [AccountsNext]_accountVars => AccountsInv'
  <1> SUFFICES ASSUME UserFacts, OtpInv, SessionInv, [AccountsNext]_accountVars
               PROVE  UserFacts' /\ OtpInv' /\ SessionInv'
    BY Parts
  <1>1. CASE UNCHANGED accountVars
    BY <1>1, UsersFrame, CodesFrame, SessionsFrame DEF accountVars, UserFacts
  <1>2. CASE OtpNext /\ UNCHANGED session
    <2>1. \/ \E i \in DOMAIN code : Elapse(i)
          \/ \E c \in Call, u \in User :
               \/ \E p \in Purpose : RequestCode(c, u, p)
               \/ \E p \in Purpose, guess \in mailed \cup {0} : SubmitCode(c, u, p, guess)
          \/ \E c \in Call :
               \/ CheckCooldown(c) \/ ClearCodes(c) \/ CreateCode(c) \/ DeliverCode(c)
               \/ LookUpCode(c) \/ DiscardCode(c) \/ MissCode(c) \/ SpendCode(c) \/ SpendFails(c)
      BY <1>2 DEF OtpNext
    <2>2. ASSUME NEW c \in Call, CheckCooldown(c) \/ SpendFails(c)
          PROVE  UserFacts' /\ OtpInv' /\ SessionInv'
      <3>1. \E u : u \in User
        <4>1. call[c].pc \in {"cooldown", "compare"}
          BY <2>2 DEF CheckCooldown, SpendFails
        <4> QED
          BY <4>1, JobFields DEF UserFacts
      <3> QED
        BY <1>2, <2>2, <3>1, QuietKeeps
    <2>3. ASSUME NEW c \in Call, NEW u \in User,
                 \/ \E p \in Purpose : RequestCode(c, u, p)
                 \/ \E p \in Purpose, guess \in mailed \cup {0} : SubmitCode(c, u, p, guess)
          PROVE  UserFacts' /\ OtpInv' /\ SessionInv'
      BY <1>2, <2>3, QuietKeeps
    <2> QED
      BY <1>2, <2>1, <2>2, <2>3, ElapseKeeps, ClearCodesKeeps, CreateCodeKeeps, DeliverCodeKeeps,
         LookUpCodeKeeps, DiscardCodeKeeps, MissCodeKeeps, SpendCodeKeeps
  <1>3. CASE SessionNext /\ UNCHANGED codeVars
    <2>1. ASSUME NEW c \in Call, NEW u \in User,
                 \/ Login(c, u) \/ BeginChangePassword(c, u)
                 \/ \E proven \in BOOLEAN : GoogleLogin(c, u, proven)
          PROVE  UserFacts' /\ OtpInv' /\ SessionInv'
      BY <1>3, <2>1, QuietKeeps
    <2>2. \/ \E s \in DOMAIN session : ExpireSession(s) \/ Logout(s)
          \/ \E c \in Call, s \in DOMAIN session : Refresh(c, s)
          \/ \E c \in Call : Mint(c)
          \/ \E u \in User : DeleteAccount(u)
          \/ \E c \in Call, u \in User :
               \/ Login(c, u) \/ BeginChangePassword(c, u)
               \/ \E proven \in BOOLEAN : GoogleLogin(c, u, proven)
          \/ \E c \in Call : Stamp(c) \/ Rotate(c) \/ ChangePassword(c)
      BY <1>3 DEF SessionNext
    <2> QED
      BY <1>3, <2>1, <2>2, SessionStepKeeps, DeleteAccountKeeps, StampKeeps, RotateKeeps,
         ChangePasswordKeeps
  <1>4. CASE \E u \in User : ToggleUserStatus(u) /\ UNCHANGED <<codeVars, session>>
    BY <1>4, ToggleKeeps
  <1>5. CASE Restart /\ UNCHANGED <<codeVars, session>>
    BY <1>5, RestartKeeps
  <1>6. CASE \E c \in Call :
               \/ ResetPassword(c) \/ ResetPin(c) \/ WritePin(c)
               \/ \E u \in User : BeginCreatePin(c, u) \/ BeginUpdatePin(c, u)
    BY <1>6, ResetPasswordKeeps, ResetPinKeeps, WritePinKeeps, BeginPinKeeps
  <1> QED
    BY <1>1, <1>2, <1>3, <1>4, <1>5, <1>6 DEF AccountsNext

\* Codes, sessions, stages and PINs stay consistent through every interleaving
\* of the handlers of EmailVerificationService, AuthService and UsersService.
THEOREM AccountsInvariant == AccountsSpec => []AccountsInv
  <1> QED
    BY InitInv, NextInv, PTL DEF AccountsSpec

\* verifyPurposeOtp checks the limit of attempts before it counts one: guesses
\* at once exceed it, but by less than the requests in flight.
THEOREM GuessesAreFew == AccountsSpec => []AttemptsBounded
  <1>1. AccountsInv => AttemptsBounded
    <2> SUFFICES ASSUME AccountsInv, NEW i \in DOMAIN code
                 PROVE  code[i].attempts < AttemptLimit + Cardinality(Call)
      BY DEF AttemptsBounded
    <2>1. /\ code[i].attempts \in Nat
          /\ code[i].attempts + Cardinality(Comparing(i)) < AttemptLimit + Cardinality(Call)
      BY CodeDomain DEF AccountsInv, AccountsTypeOK, OtpInv, AttemptsCounted
    <2>2. Cardinality(Comparing(i)) \in Nat
      BY CallCounts DEF Comparing
    <2> QED
      BY <2>1, <2>2, CallCounts, LimitIsNat
  <1> QED
    BY <1>1, AccountsInvariant, PTL

\* sendPurposeOtp deletes the codes of a user before it creates one: requests
\* at once leave a code each, and no more.
THEOREM CodesAreFew == AccountsSpec => []CodesPerPurpose
  <1>1. AccountsInv => CodesPerPurpose
    <2> SUFFICES ASSUME AccountsInv, NEW u \in User, NEW p \in Purpose
                 PROVE  Cardinality(CodesOf(u, p)) <= Cardinality(Call)
      BY DEF CodesPerPurpose
    <2>1. Cardinality(CodesOf(u, p)) + Cardinality(Creating(u, p)) <= Cardinality(Call)
      BY DEF AccountsInv, OtpInv, CodesCounted
    <2>2. Cardinality(Creating(u, p)) \in Nat
      BY CallCounts DEF Creating
    <2>3. Cardinality(CodesOf(u, p)) \in Nat
      <3>1. IsFiniteSet(DOMAIN code)
        BY CodeDomain DEF AccountsInv, AccountsTypeOK, OtpInv
      <3> QED
        BY <3>1, CountsGrow DEF CodesOf
    <2> QED
      BY <2>1, <2>2, <2>3, CallCounts
  <1> QED
    BY <1>1, AccountsInvariant, PTL

\* refresh checks, revokes and mints apart: a token yields a session for every
\* rotation under way when the first of them revokes it, and none later.
THEOREM ChildrenAreFew == AccountsSpec => []ChildrenBounded
  <1>1. AccountsInv => ChildrenBounded
    <2> SUFFICES ASSUME AccountsInv, NEW s \in DOMAIN session
                 PROVE  Cardinality(Children(s)) <= Cardinality(Call)
      BY DEF ChildrenBounded
    <2>1. Cardinality(Children(s)) + Cardinality(Rotating(s)) <= Cardinality(Call)
      BY DEF AccountsInv, SessionInv, ChildrenCounted
    <2>2. Cardinality(Rotating(s)) \in Nat
      BY CallCounts DEF Rotating
    <2>3. Cardinality(Children(s)) \in Nat
      <3>1. Len(session) \in Nat /\ DOMAIN session = 1..Len(session)
        BY SessionDomain DEF AccountsInv, SessionInv
      <3>2. IsFiniteSet(DOMAIN session)
        BY <3>1, FS_Interval
      <3> QED
        BY <3>2, CountsGrow DEF Children
    <2> QED
      BY <2>1, <2>2, <2>3, CallCounts
  <1> QED
    BY <1>1, AccountsInvariant, PTL

\* A new password or a deleted account ends every session there is: whatever is
\* live was minted since.
THEOREM RevocationsHold == AccountsSpec => []LiveSinceRevocation
  <1>1. AccountsInv => LiveSinceRevocation
    BY DEF AccountsInv, SessionInv
  <1> QED
    BY <1>1, AccountsInvariant, PTL

LEMMA VerifiedKept ==
  ASSUME user \in UserType, NEW u \in User, NEW v \in User,
         \/ user' = user
         \/ user' = [user EXCEPT ![v].active = ~@]
         \/ user' = [user EXCEPT ![v].verified = TRUE]
         \/ user' = [user EXCEPT ![v].revocations = @ + 1]
         \/ user' = [user EXCEPT ![v].active = FALSE, ![v].revocations = @ + 1]
         \/ \E staged \in BOOLEAN :
              user' = [user EXCEPT ![v].pin = @ + 1, ![v].stage = IF staged THEN 2 ELSE @],
         user[u].verified
  PROVE  user'[u].verified
  BY DEF UserType

\* googleLogin writes the mark it computed from an earlier read: only a sign-in
\* that read the user before he was verified can take the mark away.
THEOREM OnlyStaleSignInUnverifies == AccountsSpec => UnverifiedOnlyByStaleSignIn
  <1> DEFINE stale(u) == \E c \in Call : call[c].pc = "stamp" /\ call[c].user = u /\ ~call[c].seen
  <1>1. AccountsInv /\ [AccountsNext]_accountVars =>
          [\A u \in User : user[u].verified /\ ~user'[u].verified => stale(u)]_user
    <2> SUFFICES ASSUME AccountsInv, AccountsNext, NEW u \in User,
                        user[u].verified, ~user'[u].verified
                 PROVE  stale(u)
      BY DEF accountVars
    <2>1. user \in UserType /\ call \in [Call -> AnyCall]
      BY Parts DEF UserFacts
    <2>2. ASSUME NEW v \in User, NEW c \in Call, Stamp(c), call[c].user = v PROVE stale(u)
      <3>1. /\ call[c].pc = "stamp"
            /\ user' = [user EXCEPT ![v].verified = call[c].seen \/ call[c].proven]
        BY <2>2 DEF Stamp
      <3>2. u = v
        BY <2>1, <3>1 DEF UserType
      <3>3. user'[u].verified = (call[c].seen \/ call[c].proven)
        BY <2>1, <3>1, <3>2 DEF UserType
      <3> QED
        BY <2>2, <3>1, <3>2, <3>3
    <2>3. ASSUME NEW c \in Call, Stamp(c) PROVE stale(u)
      <3>1. call[c].user \in User
        BY <2>1, <2>3, JobFields DEF Stamp
      <3> QED
        BY <2>2, <2>3, <3>1
    <2>4. user' # user
      OBVIOUS
    <2>5. CASE OtpNext
      <3>1. PICK c \in Call : SpendCode(c)
        BY <2>4, <2>5, ZenonT(40) DEF OtpNext, Elapse, RequestCode, SubmitCode, CheckCooldown, ClearCodes,
           CreateCode, DeliverCode, LookUpCode, DiscardCode, MissCode, SpendFails
      <3>2. call[c].user \in User
        BY <2>1, <3>1, JobFields DEF SpendCode
      <3>3. user' = [user EXCEPT ![call[c].user].verified = TRUE]
        BY <2>4, <3>1 DEF SpendCode
      <3> QED
        BY <2>1, <3>2, <3>3, VerifiedKept, SMTT(20)
    <2>6. CASE SessionNext
      <3>1. \/ \E v \in User : DeleteAccount(v)
            \/ \E c \in Call : Stamp(c) \/ ChangePassword(c)
        BY <2>4, <2>6, ZenonT(40) DEF SessionNext, ExpireSession, Logout, Login, BeginChangePassword,
           GoogleLogin, Refresh, Refresh_AnyToken, Mint, Rotate
      <3>2. ASSUME NEW v \in User, DeleteAccount(v) PROVE FALSE
        <4>1. user' = [user EXCEPT ![v].active = FALSE, ![v].revocations = @ + 1]
          BY <3>2 DEF DeleteAccount
        <4> QED
          BY <2>1, <4>1, VerifiedKept
      <3>3. ASSUME NEW c \in Call, ChangePassword(c) PROVE FALSE
        <4>1. /\ call[c].pc = "rewrite"
              /\ user' = [user EXCEPT ![call[c].user].revocations = @ + 1]
          BY <3>3 DEF ChangePassword, RevokeAll
        <4>2. call[c].user \in User
          BY <2>1, <4>1, JobFields
        <4> QED
          BY <2>1, <4>1, <4>2, VerifiedKept
      <3> QED
        BY <2>3, <3>1, <3>2, <3>3
    <2>7. ASSUME NEW v \in User, ToggleUserStatus(v) PROVE FALSE
      BY <2>1, <2>7, VerifiedKept DEF ToggleUserStatus
    <2>8. ASSUME NEW c \in Call,
                 \/ ResetPassword(c) \/ ResetPin(c) \/ WritePin(c)
                 \/ \E v \in User : BeginCreatePin(c, v) \/ BeginUpdatePin(c, v)
          PROVE  FALSE
      <3>1. /\ call[c].pc \in {"apply", "pin"}
            /\ \/ user' = [user EXCEPT ![call[c].user].revocations = @ + 1]
               \/ \E staged \in BOOLEAN :
                    user' = [user EXCEPT ![call[c].user].pin = @ + 1,
                                         ![call[c].user].stage = IF staged THEN 2 ELSE @]
        <4>1. ~ \E v \in User : BeginCreatePin(c, v) \/ BeginUpdatePin(c, v)
          BY <2>4 DEF BeginCreatePin, BeginUpdatePin, BeginUpdatePin_Any
        <4>2. call[c].pc = "pin" => call[c].creates \in BOOLEAN
          BY <2>1, JobFields
        <4> QED
          BY <2>8, <4>1, <4>2, ZenonT(40) DEF ResetPassword, ResetPin, WritePin, RevokeAll, NewPin
      <3>2. call[c].user \in User
        BY <2>1, <3>1, JobFields
      <3> QED
        BY <2>1, <3>1, <3>2, VerifiedKept
    <2> QED
      BY <2>4, <2>5, <2>6, <2>7, <2>8 DEF AccountsNext, Restart
  <1> QED
    BY <1>1, AccountsInvariant, PTL DEF AccountsSpec, UnverifiedOnlyByStaleSignIn

-----------------------------------------------------------------------------
(* The codes implement OneTimeCode *)

\* What Status says of a code; the cases exclude one another.
StatusesAre ==
    \A i \in 1..bound.code :
      /\ i > issued => Status(i) = "none"
      /\ i \in DOMAIN code => Status(i) = "open"
      /\ used[i] > 0 => Status(i) = "applied"
      /\ \A c \in Call : call[c].pc = "apply" /\ call[c].id = i => Status(i) = "spent"
      /\ i <= issued /\ i \notin DOMAIN code /\ used[i] = 0
           /\ (\A c \in Call : ~(call[c].pc = "apply" /\ call[c].id = i)) => Status(i) = "void"

LEMMA StatusIs == AccountsInv => StatusesAre
  <1> SUFFICES ASSUME AccountsInv, NEW i \in 1..bound.code
               PROVE  /\ i > issued => Status(i) = "none"
                      /\ i \in DOMAIN code => Status(i) = "open"
                      /\ used[i] > 0 => Status(i) = "applied"
                      /\ \A c \in Call :
                           call[c].pc = "apply" /\ call[c].id = i => Status(i) = "spent"
                      /\ i <= issued /\ i \notin DOMAIN code /\ used[i] = 0
                           /\ (\A c \in Call : ~(call[c].pc = "apply" /\ call[c].id = i))
                           => Status(i) = "void"
    BY DEF StatusesAre
  <1> DEFINE held == \E c \in Call : call[c].pc = "apply" /\ call[c].id = i
  <1>0. held <=> Holders(i) # {}
    BY DEF Holders
  <1>1. /\ issued \in Nat /\ DOMAIN code \subseteq 1..issued /\ used[i] \in Nat /\ i \in Nat
        /\ i \in DOMAIN code \/ i > issued => used[i] = 0
        /\ held => i <= issued /\ i \notin DOMAIN code /\ used[i] = 0
        /\ i \in DOMAIN code => i <= issued
    BY CodeDomain DEF AccountsInv, AccountsTypeOK, OtpInv, OtpTypeOK, SpentOnce
  <1>2. Status(i) = CASE i > issued -> "none" [] i \in DOMAIN code -> "open"
                      [] used[i] > 0 -> "applied" [] held -> "spent" [] OTHER -> "void"
    <2>1. Status(i) = CASE i > issued -> "none" [] i \in DOMAIN code -> "open"
                        [] used[i] > 0 -> "applied" [] Holders(i) # {} -> "spent"
                        [] OTHER -> "void"
      BY DEF Status
    <2> HIDE DEF held
    <2> QED
      BY <1>0, <2>1
  <1>3. (\A c \in Call : ~(call[c].pc = "apply" /\ call[c].id = i)) <=> ~held
    OBVIOUS
  <1> HIDE DEF held
  <1>4. /\ i > issued => Status(i) = "none"
        /\ i \in DOMAIN code => Status(i) = "open"
        /\ used[i] > 0 => Status(i) = "applied"
        /\ held => Status(i) = "spent"
        /\ i <= issued /\ i \notin DOMAIN code /\ used[i] = 0 /\ ~held => Status(i) = "void"
    BY <1>1, <1>2
  <1> QED
    BY <1>3, <1>4 DEF held

\* What OneTimeCode sees: the status of every code, who holds it and how often
\* it took effect.
Statuses == [i \in 1..bound.code |-> Status(i)]

Holding == [i \in 1..bound.code |-> Holders(i)]

codeView == <<Statuses, Holding, used>>

LEMMA CodeMoves ==
  ASSUME bound' = bound, NEW k \in 1..bound.code, NEW from, NEW to,
         Status(k) = from, Status(k)' = to,
         \A i \in (1..bound.code) \ {k} : Status(i)' = Status(i)
  PROVE  Promise!Move(k, from, to)
  <1>1. Statuses' = [Statuses EXCEPT ![k] = to]
    BY DEF Statuses
  <1> QED
    BY <1>1 DEF Promise!Move, Statuses

\* The requests that hold a code, when one of them changes.
LEMMA HoldersChange ==
  ASSUME bound' = bound, NEW k \in 1..bound.code, NEW who,
         Holders(k)' = who,
         \A i \in (1..bound.code) \ {k} : Holders(i)' = Holders(i)
  PROVE  Holding' = [Holding EXCEPT ![k] = who]
  BY DEF Holding

LEMMA HoldersStay ==
  ASSUME bound' = bound, \A i \in 1..bound.code : Holders(i)' = Holders(i)
  PROVE  Holding' = Holding
  BY DEF Holding

\* Of a code nobody has spent, or that took effect, there is no holder.
LEMMA NoHolders ==
  ASSUME AccountsInv, NEW i \in 1..bound.code, i \in DOMAIN code \/ i > issued \/ used[i] > 0
  PROVE  Holders(i) = {}
  <1>1. SpentOnce /\ issued \in Nat
    BY CodeDomain DEF AccountsInv, AccountsTypeOK, OtpInv
  <1>2. ASSUME NEW c \in Call, call[c].pc = "apply", call[c].id = i PROVE FALSE
    <2>1. i \in (1..issued) \ DOMAIN code /\ used[i] = 0
      BY <1>1, <1>2 DEF SpentOnce
    <2> QED
      BY <1>1, <2>1
  <1> QED
    BY <1>2 DEF Holders

\* A spent code has one holder.
LEMMA OneHolder ==
  ASSUME AccountsInv, NEW c \in Call, call[c].pc = "apply"
  PROVE  Holders(call[c].id) = {c}
  <1>1. SpentOnce
    BY DEF AccountsInv, OtpInv
  <1>2. \A d \in Call \ {c} : call[d].pc = "apply" => call[d].id # call[c].id
    BY <1>1 DEF SpentOnce
  <1> QED
    BY <1>2 DEF Holders

LEMMA CodesWithdrawn ==
  ASSUME bound' = bound, used' = used, NEW ids \in SUBSET (1..bound.code),
         \A i \in ids : /\ Status(i) \in {"open", "spent"} /\ Status(i)' = "void"
                        /\ Holders(i)' = {},
         \A i \in (1..bound.code) \ ids :
           Status(i)' = Status(i) /\ Holders(i)' = Holders(i)
  PROVE  Promise!CodeNext
  <1>1. Statuses' = [i \in DOMAIN Statuses |-> IF i \in ids THEN "void" ELSE Statuses[i]]
    BY DEF Statuses
  <1>2. \A i \in ids : Statuses[i] \in {"open", "spent"}
    BY DEF Statuses
  <1>3. Holding' = [i \in DOMAIN Holding |-> IF i \in ids THEN {} ELSE Holding[i]]
    BY DEF Holding
  <1>4. Promise!Withdraw(ids)
    BY <1>1, <1>2, <1>3 DEF Promise!Withdraw, Statuses, Holding
  <1> QED
    BY <1>4 DEF Promise!CodeNext, Statuses

LEMMA PrimedParts ==
  AccountsInv' => /\ bound' \in Bounds /\ OtpInv' /\ call' \in [Call -> AnyCall]
                  /\ StatusesAre'
  <1>1. AccountsInv' => StatusesAre'
    BY StatusIs, PTL
  <1> QED
    BY <1>1, Parts DEF UserFacts

\* What neither stores, deletes nor uses a code, nor begins or ends a reset.
LEMMA StatusesStay ==
  ASSUME UNCHANGED <<bound, issued, used>>, DOMAIN code' = DOMAIN code,
         \A q \in Call : call[q].pc = "apply" \/ call'[q].pc = "apply" => call'[q] = call[q]
  PROVE  codeView' = codeView
  <1>1. ASSUME NEW i \in 1..bound.code PROVE Holders(i)' = Holders(i)
    BY DEF Holders
  <1>2. ASSUME NEW i \in 1..bound.code PROVE Status(i)' = Status(i)
    BY <1>1 DEF Status
  <1> QED
    BY <1>1, <1>2, HoldersStay DEF Statuses, codeView

\* The requests that leave the status of every code as it is.
LEMMA QuietRequest ==
  ASSUME AccountsInv, NEW c \in Call, call[c].pc # "apply",
         \E job \in AnyCall : job.pc # "apply" /\ Goto(c, job),
         UNCHANGED <<bound, issued, used>>, DOMAIN code' = DOMAIN code
  PROVE  codeView' = codeView
  <1>1. PICK job \in AnyCall : job.pc # "apply" /\ Goto(c, job)
    OBVIOUS
  <1>2. call \in [Call -> AnyCall]
    BY Parts DEF UserFacts
  <1>3. call'[c] = job /\ \A q \in Call \ {c} : call'[q] = call[q]
    BY <1>1, <1>2, GotoFacts
  <1> QED
    BY <1>1, <1>3, StatusesStay

\* A code that is deleted and not spent is withdrawn.
LEMMA DeletedAreWithdrawn ==
  ASSUME AccountsInv, AccountsInv', NEW c \in Call, call[c].pc # "apply", call'[c].pc # "apply",
         \A q \in Call \ {c} : call'[q] = call[q], UNCHANGED <<bound, issued, used>>,
         DOMAIN code' \subseteq DOMAIN code
  PROVE  Promise!CodeNext
  <1> DEFINE ids == DOMAIN code \ DOMAIN code'
  <1>1. /\ bound.code \in Nat /\ issued <= bound.code /\ DOMAIN code \subseteq 1..issued
        /\ issued \in Nat /\ SpentOnce
    BY CodeDomain DEF AccountsInv, AccountsTypeOK, OtpInv
  <1>2. StatusesAre /\ StatusesAre'
    BY StatusIs, PrimedParts
  <1>3. ids \in SUBSET (1..bound.code)
    BY <1>1
  <1>4. ASSUME NEW i \in ids PROVE /\ Status(i) \in {"open", "spent"} /\ Status(i)' = "void"
                               /\ Holders(i)' = {}
    <2>1. i \in 1..bound.code /\ i \in DOMAIN code /\ i \notin DOMAIN code' /\ i <= issued
      BY <1>1, <1>3
    <2>2. used[i] = 0 /\ \A q \in Call : ~(call[q].pc = "apply" /\ call[q].id = i)
      BY <1>1, <2>1 DEF SpentOnce
    <2>3. \A q \in Call : ~(call'[q].pc = "apply" /\ call'[q].id = i)
      BY <2>2
    <2>4. Status(i) = "open"
      BY <1>2, <2>1 DEF StatusesAre
    <2>5. Status(i)' = "void"
      BY <1>2, <2>1, <2>2, <2>3 DEF StatusesAre
    <2>6. Holders(i)' = {}
      BY <2>3 DEF Holders
    <2> QED
      BY <2>4, <2>5, <2>6
  <1>5. ASSUME NEW i \in (1..bound.code) \ ids
        PROVE  Status(i)' = Status(i) /\ Holders(i)' = Holders(i)
    <2>1. i \in DOMAIN code' <=> i \in DOMAIN code
      BY <1>5
    <2>2. Holders(i)' = Holders(i)
      BY DEF Holders
    <2> QED
      BY <2>1, <2>2 DEF Status
  <1> HIDE DEF ids
  <1> QED
    BY <1>3, <1>4, <1>5, CodesWithdrawn

LEMMA CreateCodeIssues ==
  ASSUME AccountsInv, AccountsInv', NEW c \in Call, CreateCode(c)
  PROVE  Promise!CodeNext
  <1>0. issued \in Nat
    BY CodeDomain, Parts DEF UserFacts, OtpInv
  <1>n. PICK n \in Nat : n = issued + 1
    BY <1>0
  <1>1. /\ call[c].pc = "create" /\ issued < bound.code /\ issued' = n
        /\ DOMAIN code' = DOMAIN code \cup {n}
        /\ Goto(c, [pc |-> "deliver", id |-> n]) /\ UNCHANGED <<bound, used>>
    BY <1>n DEF CreateCode
  <1>2. /\ bound.code \in Nat /\ issued \in Nat /\ DOMAIN code \subseteq 1..issued
        /\ n \in 1..bound.code /\ call \in [Call -> AnyCall]
    BY <1>1, <1>n, CodeDomain, Parts DEF UserFacts, OtpInv
  <1>3. call'[c].pc = "deliver" /\ \A q \in Call \ {c} : call'[q] = call[q]
    <2>1. [pc |-> "deliver", id |-> n] \in AnyCall
      BY <1>2 DEF AnyCall, CodeJob
    <2> QED
      BY <1>1, <1>2, <2>1, GotoFacts
  <1>4. Status(n) = "none" /\ Status(n)' = "open"
    <2>1. n > issued /\ n \in DOMAIN code'
      BY <1>1, <1>2, <1>n
    <2> QED
      BY <1>1, <1>2, <2>1, StatusIs, PrimedParts DEF StatusesAre
  <1>4a. ASSUME NEW i \in 1..bound.code PROVE Holders(i)' = Holders(i)
    BY <1>1, <1>3 DEF Holders
  <1>5. ASSUME NEW i \in (1..bound.code) \ {n} PROVE Status(i)' = Status(i)
    <2>1. (i \in DOMAIN code' <=> i \in DOMAIN code) /\ (i > issued' <=> i > issued)
      BY <1>1, <1>2, <1>n
    <2> QED
      BY <1>1, <1>4a, <2>1 DEF Status
  <1>6. Promise!Move(n, "none", "open")
    BY <1>1, <1>2, <1>4, <1>5, CodeMoves
  <1>7. n \in DOMAIN Statuses
    BY <1>2 DEF Statuses
  <1>8. Holding' = Holding
    BY <1>1, <1>4a, HoldersStay
  <1> QED
    BY <1>1, <1>6, <1>7, <1>8 DEF Promise!CodeNext, Promise!Issue, Statuses, Holding

LEMMA SpendCodeSpends ==
  ASSUME AccountsInv, AccountsInv', NEW c \in Call, SpendCode(c)
  PROVE  Promise!CodeNext
  <1>k. PICK k : k = call[c].id
    OBVIOUS
  <1> DEFINE email == call[c].purpose = "EMAIL_VERIFICATION"
             apply == [pc |-> "apply", user |-> call[c].user,
                       purpose |-> call[c].purpose, id |-> k]
  <1>1. /\ call[c].pc = "compare" /\ k \in DOMAIN code /\ DOMAIN code' = DOMAIN code \ {k}
        /\ used' = IF email THEN [used EXCEPT ![k] = @ + 1] ELSE used
        /\ Goto(c, IF email THEN Free ELSE apply) /\ UNCHANGED <<bound, issued>>
    BY <1>k DEF SpendCode, Spendable, Without
  <1>2. /\ bound.code \in Nat /\ issued \in Nat /\ DOMAIN code \subseteq 1..issued
        /\ issued <= bound.code /\ call \in [Call -> AnyCall]
        /\ used \in [1..bound.code -> Nat] /\ SpentOnce
    BY CodeDomain, Parts DEF UserFacts, OtpInv, OtpTypeOK
  <1>3. k \in 1..bound.code /\ k \in 1..issued /\ used[k] = 0
    BY <1>1, <1>2 DEF SpentOnce
  <1>4. apply \in AnyCall /\ apply.pc = "apply" /\ apply.id = k
    <2>1. call[c].user \in User /\ call[c].purpose \in Purpose
      BY <1>1, <1>2, JobFields
    <2> QED
      BY <1>3, <2>1 DEF AnyCall, CodeJob
  <1> HIDE DEF apply
  <1>5. /\ call'[c] = IF email THEN Free ELSE apply
        /\ \A q \in Call \ {c} : call'[q] = call[q]
    BY <1>1, <1>2, <1>4, FreeJob, GotoFacts
  <1>6. StatusesAre /\ StatusesAre'
    BY StatusIs, PrimedParts
  <1>7. Status(k) = "open"
    BY <1>1, <1>3, <1>6 DEF StatusesAre
  <1>8a. ASSUME NEW i \in (1..bound.code) \ {k} PROVE Holders(i)' = Holders(i)
    BY <1>1, <1>4, <1>5, FreeJob DEF Holders
  <1>8b. Holders(k) = {}
    BY <1>1, <1>3, NoHolders
  <1>8. ASSUME NEW i \in (1..bound.code) \ {k} PROVE Status(i)' = Status(i)
    <2>1. (i \in DOMAIN code' <=> i \in DOMAIN code) /\ used'[i] = used[i]
      BY <1>1, <1>2
    <2>2. Holders(i)' = Holders(i)
      BY <1>8a, <1>8
    <2> QED
      BY <1>1, <2>1, <2>2 DEF Status
  <1>9. k \in DOMAIN Statuses
    BY <1>3 DEF Statuses
  <1>10. CASE email
    <2>1. used'[k] > 0
      BY <1>1, <1>2, <1>3, <1>10
    <2>2. Status(k)' = "applied"
      BY <1>1, <1>3, <1>6, <2>1 DEF StatusesAre
    <2>3. Promise!Move(k, "open", "applied")
      BY <1>1, <1>3, <1>7, <1>8, <2>2, CodeMoves
    <2>4. Holders(k)' = Holders(k)
      BY <1>1, <1>5, <1>10, FreeJob DEF Holders
    <2>5. \A i \in 1..bound.code : Holders(i)' = Holders(i)
      BY <1>8a, <2>4
    <2>6. Holding' = Holding
      BY <1>1, <2>5, HoldersStay
    <2>7. Promise!SpendAndApply(k)
      BY <1>1, <1>10, <2>3, <2>6 DEF Promise!SpendAndApply, Holding
    <2> QED
      BY <1>9, <2>7 DEF Promise!CodeNext, Statuses
  <1>11. CASE ~email
    <2>1. call'[c].pc = "apply" /\ call'[c].id = k
      BY <1>4, <1>5, <1>11
    <2>2. Status(k)' = "spent"
      BY <1>1, <1>3, <1>6, <2>1 DEF StatusesAre
    <2>3. Promise!Move(k, "open", "spent")
      BY <1>1, <1>3, <1>7, <1>8, <2>2, CodeMoves
    <2>4. Holders(k)' = {c}
      BY <1>5, <1>8b, <2>1 DEF Holders
    <2>5. Holding' = [Holding EXCEPT ![k] = {c}]
      BY <1>1, <1>3, <1>8a, <2>4, HoldersChange
    <2>6. Promise!Spend(k, c)
      BY <1>1, <1>11, <2>3, <2>5 DEF Promise!Spend, Holding
    <2> QED
      BY <1>9, <2>6 DEF Promise!CodeNext, Statuses
  <1> QED
    BY <1>10, <1>11

LEMMA ResetApplies ==
  ASSUME AccountsInv, AccountsInv', NEW c \in Call, ResetPassword(c) \/ ResetPin(c)
  PROVE  Promise!CodeNext
  <1>k. PICK k : k = call[c].id
    OBVIOUS
  <1>1. /\ call[c].pc = "apply" /\ used' = [used EXCEPT ![k] = @ + 1] /\ End(c)
        /\ UNCHANGED <<bound, code, issued>>
    BY <1>k DEF ResetPassword, ResetPin, Took
  <1>2. /\ bound.code \in Nat /\ issued \in Nat /\ issued <= bound.code
        /\ call \in [Call -> AnyCall] /\ used \in [1..bound.code -> Nat] /\ SpentOnce
    BY CodeDomain, Parts DEF UserFacts, OtpInv, OtpTypeOK
  <1>3. call'[c].pc = "free" /\ \A q \in Call \ {c} : call'[q] = call[q]
    BY <1>1, <1>2, EndFacts
  <1>4. k \in 1..bound.code /\ used[k] = 0
    BY <1>1, <1>2, <1>k DEF SpentOnce
  <1>5. Status(k) = "spent"
    BY <1>1, <1>4, <1>k, StatusIs DEF StatusesAre
  <1>6. Status(k)' = "applied"
    <2>1. used'[k] > 0
      BY <1>1, <1>2, <1>4
    <2> QED
      BY <1>1, <1>4, <2>1, PrimedParts DEF StatusesAre
  <1>6a. ASSUME NEW i \in (1..bound.code) \ {k} PROVE Holders(i)' = Holders(i)
    BY <1>3, <1>k DEF Holders
  <1>6b. Holders(k)' = {}
    <2>1. Holders(k) = {c}
      BY <1>1, <1>k, OneHolder
    <2> QED
      BY <1>3, <2>1 DEF Holders
  <1>7. ASSUME NEW i \in (1..bound.code) \ {k} PROVE Status(i)' = Status(i)
    <2>1. used'[i] = used[i]
      BY <1>1, <1>2
    <2> QED
      BY <1>1, <1>6a, <2>1 DEF Status
  <1>8. Promise!Move(k, "spent", "applied")
    BY <1>1, <1>4, <1>5, <1>6, <1>7, CodeMoves
  <1>9. k \in DOMAIN Statuses
    BY <1>4 DEF Statuses
  <1>10. Holding' = [Holding EXCEPT ![k] = {}]
    BY <1>1, <1>4, <1>6a, <1>6b, HoldersChange
  <1>11. Promise!Apply(k)
    BY <1>1, <1>8, <1>10 DEF Promise!Apply, Holding
  <1> QED
    BY <1>9, <1>11 DEF Promise!CodeNext, Statuses

\* A restart loses what was spent and had not taken effect.
LEMMA RestartWithdraws ==
  ASSUME AccountsInv, AccountsInv', Restart, UNCHANGED <<codeVars, session>>
  PROVE  Promise!CodeNext
  <1> DEFINE ids == {i \in 1..bound.code :
                       \E q \in Call : call[q].pc = "apply" /\ call[q].id = i}
  <1>1. /\ \A q \in Call : call'[q].pc = "free"
        /\ UNCHANGED <<bound, code, issued, used>>
    BY FreeJob DEF Restart, codeVars
  <1>2. SpentOnce /\ issued \in Nat
    BY CodeDomain DEF AccountsInv, AccountsTypeOK, OtpInv
  <1>2a. \A i : Holders(i)' = {}
    BY <1>1 DEF Holders
  <1>3. ASSUME NEW i \in ids PROVE Status(i) \in {"open", "spent"} /\ Status(i)' = "void"
    <2>1. PICK q \in Call : call[q].pc = "apply" /\ call[q].id = i
      OBVIOUS
    <2>2. i \in 1..bound.code /\ i <= issued /\ i \notin DOMAIN code /\ used[i] = 0
      BY <1>2, <2>1 DEF SpentOnce
    <2>3. Status(i) = "spent"
      BY <2>1, <2>2, StatusIs DEF StatusesAre
    <2>4. \A d \in Call : ~(call'[d].pc = "apply" /\ call'[d].id = i)
      BY <1>1
    <2>5. Status(i)' = "void"
      BY <1>1, <2>2, <2>4, PrimedParts DEF StatusesAre
    <2> QED
      BY <2>3, <2>5
  <1>4. ASSUME NEW i \in (1..bound.code) \ ids
        PROVE  Status(i)' = Status(i) /\ Holders(i)' = Holders(i)
    <2>1. Holders(i) = {}
      BY DEF Holders
    <2> QED
      BY <1>1, <1>2a, <2>1 DEF Status
  <1>5. ids \in SUBSET (1..bound.code)
    OBVIOUS
  <1> HIDE DEF ids
  <1> QED
    BY <1>1, <1>2a, <1>3, <1>4, <1>5, CodesWithdrawn

\* The steps that OneTimeCode does not see.
LEMMA QuietSteps ==
  ASSUME AccountsInv, NEW c \in Call,
         \/ \E u \in User, p \in Purpose : RequestCode(c, u, p)
         \/ \E u \in User, p \in Purpose, guess \in mailed \cup {0} : SubmitCode(c, u, p, guess)
         \/ CheckCooldown(c) \/ DeliverCode(c) \/ LookUpCode(c) \/ MissCode(c) \/ SpendFails(c)
  PROVE  codeView' = codeView
  <1>1. /\ call[c].pc \in {"free", "cooldown", "deliver", "lookup", "compare"}
        /\ UNCHANGED <<bound, issued, used>>
    <2>1. CASE \/ \E u \in User, p \in Purpose : RequestCode(c, u, p)
               \/ \E u \in User, p \in Purpose, guess \in mailed \cup {0} :
                    SubmitCode(c, u, p, guess)
      BY <2>1, FreeJob DEF RequestCode, SubmitCode, codeVars
    <2>2. CASE CheckCooldown(c) \/ LookUpCode(c) \/ SpendFails(c)
      BY <2>2 DEF CheckCooldown, LookUpCode, SpendFails, codeVars
    <2>3. CASE DeliverCode(c) \/ MissCode(c)
      BY <2>3 DEF DeliverCode, MissCode
    <2> QED
      BY <2>1, <2>2, <2>3
  <1>2. DOMAIN code' = DOMAIN code
    <2>1. CASE MissCode(c)
      BY <2>1 DEF MissCode
    <2>2. CASE ~MissCode(c)
      BY <2>2 DEF RequestCode, SubmitCode, CheckCooldown, DeliverCode, LookUpCode, SpendFails,
         codeVars
    <2> QED
      BY <2>1, <2>2
  <1>3. \E job : job.pc # "apply" /\ Goto(c, job)
    <2>1. CASE CheckCooldown(c)
      <3>1. call[c] \in [pc : {"cooldown", "clear", "create"}, user : User, purpose : Purpose]
        <4>1. call[c].pc = "cooldown" /\ call[c] \in AnyCall
          BY <2>1, Parts DEF CheckCooldown, UserFacts
        <4> QED
          BY <4>1 DEF AnyCall, Free, CodeJob, SessionJob, PinJob
      <3>2. [call[c] EXCEPT !.pc = "clear"].pc = "clear"
        BY <3>1
      <3>3. Goto(c, Free) \/ Goto(c, [call[c] EXCEPT !.pc = "clear"])
        BY <2>1 DEF CheckCooldown
      <3> QED
        BY <3>2, <3>3, FreeJob
    <2>2. CASE LookUpCode(c)
      BY <2>2, FreeJob DEF LookUpCode
    <2>3. CASE DeliverCode(c) \/ MissCode(c) \/ SpendFails(c)
      BY <2>3, FreeJob DEF DeliverCode, MissCode, SpendFails, End
    <2>4. CASE \/ \E u \in User, p \in Purpose : RequestCode(c, u, p)
               \/ \E u \in User, p \in Purpose, guess \in mailed \cup {0} :
                    SubmitCode(c, u, p, guess)
      BY <2>4 DEF RequestCode, SubmitCode
    <2> QED
      BY <2>1, <2>2, <2>3, <2>4
  <1>4. PICK job : job.pc # "apply" /\ Goto(c, job)
    BY <1>3
  <1>5. call'[c] = job /\ \A q \in Call \ {c} : call'[q] = call[q]
    <2>1. call \in [Call -> AnyCall]
      BY Parts DEF UserFacts
    <2> QED
      BY <1>4, <2>1 DEF Goto
  <1> QED
    BY <1>1, <1>2, <1>4, <1>5, StatusesStay

LEMMA QuietSessionSteps ==
  ASSUME AccountsInv, UNCHANGED codeVars,
         \/ SessionNext
         \/ \E u \in User : ToggleUserStatus(u)
         \/ \E c \in Call :
              WritePin(c) \/ \E u \in User : BeginCreatePin(c, u) \/ BeginUpdatePin(c, u)
  PROVE  codeView' = codeView
  <1>1. UNCHANGED <<bound, issued, used>> /\ DOMAIN code' = DOMAIN code
    <2>1. bound' = bound
      BY DEF SessionNext, ExpireSession, Logout, DeleteAccount, Login, BeginChangePassword,
         GoogleLogin, Refresh, Refresh_AnyToken, Stamp, Mint, Rotate, ChangePassword,
         ToggleUserStatus, WritePin, BeginCreatePin, BeginUpdatePin, BeginUpdatePin_Any
    <2> QED
      BY SMTT(20), <2>1 DEF codeVars
  <1>2. \/ call' = call
        \/ \E c \in Call :
             /\ call[c].pc \in {"free", "stamp", "mint", "rotate", "rewrite", "pin"}
             /\ \E job : job.pc # "apply" /\ Goto(c, job)
    <2>1. CASE SessionNext
      <3>1. ASSUME NEW c \in Call, NEW u \in User,
                   \/ Login(c, u) \/ BeginChangePassword(c, u)
                   \/ \E proven \in BOOLEAN : GoogleLogin(c, u, proven)
            PROVE  call[c].pc = "free" /\ \E job : job.pc # "apply" /\ Goto(c, job)
        BY <3>1, FreeJob DEF Login, BeginChangePassword, GoogleLogin
      <3>2. ASSUME NEW c \in Call, NEW s \in DOMAIN session, Refresh(c, s)
            PROVE  call[c].pc = "free" /\ \E job : job.pc # "apply" /\ Goto(c, job)
        BY <3>2, FreeJob DEF Refresh, Refresh_AnyToken
      <3>3. ASSUME NEW c \in Call, Stamp(c) \/ Mint(c) \/ Rotate(c) \/ ChangePassword(c)
            PROVE  /\ call[c].pc \in {"stamp", "mint", "rotate", "rewrite"}
                   /\ \E job : job.pc # "apply" /\ Goto(c, job)
        BY <3>3, FreeJob DEF Stamp, Mint, Rotate, ChangePassword, End
      <3>4. (\E s \in DOMAIN session : ExpireSession(s) \/ Logout(s))
              \/ (\E u \in User : DeleteAccount(u)) => call' = call
        BY DEF ExpireSession, Logout, DeleteAccount
      <3> QED
        BY <2>1, <3>1, <3>2, <3>3, <3>4 DEF SessionNext
    <2>2. CASE \E u \in User : ToggleUserStatus(u)
      BY <2>2 DEF ToggleUserStatus
    <2>3. ASSUME NEW c \in Call,
                 WritePin(c) \/ \E u \in User : BeginCreatePin(c, u) \/ BeginUpdatePin(c, u)
          PROVE  call[c].pc \in {"free", "pin"} /\ \E job : job.pc # "apply" /\ Goto(c, job)
      BY <2>3, FreeJob DEF WritePin, End, BeginCreatePin, BeginUpdatePin, BeginUpdatePin_Any
    <2> QED
      BY <2>1, <2>2, <2>3
  <1>3. CASE call' = call
    BY <1>1, <1>3, StatusesStay
  <1>4. ASSUME NEW c \in Call,
               call[c].pc \in {"free", "stamp", "mint", "rotate", "rewrite", "pin"},
               NEW job, job.pc # "apply", Goto(c, job)
        PROVE  codeView' = codeView
    <2>1. call \in [Call -> AnyCall]
      BY Parts DEF UserFacts
    <2>2. call'[c] = job /\ \A q \in Call \ {c} : call'[q] = call[q]
      BY <1>4, <2>1 DEF Goto
    <2> QED
      BY <1>1, <1>4, <2>2, StatusesStay
  <1> QED
    BY <1>2, <1>3, <1>4

LEMMA InitRefines == AccountsInit => Promise!CodeInit
  <1> SUFFICES ASSUME AccountsInit, NEW i \in 1..bound.code
               PROVE  Status(i) = "none" /\ Holders(i) = {} /\ used[i] = 0
    BY DEF Promise!CodeInit
  <1>1. issued = 0 /\ i > issued
    BY BoundOf DEF AccountsInit, OtpInit, CredentialsInit
  <1>2. used[i] = 0
    BY DEF AccountsInit, OtpInit
  <1> QED
    BY <1>1, <1>2, InitInv, StatusIs, NoHolders DEF StatusesAre

LEMMA StepRefines ==
  AccountsInv /\ AccountsInv' /\ [AccountsNext]_accountVars
    => Promise!CodeNext \/ codeView' = codeView
  <1> SUFFICES ASSUME AccountsInv, AccountsInv', [AccountsNext]_accountVars
               PROVE  Promise!CodeNext \/ codeView' = codeView
    OBVIOUS
  <1>1. CASE UNCHANGED accountVars
    BY <1>1, StatusesStay DEF accountVars, codeVars
  <1>2. CASE OtpNext /\ UNCHANGED session
    <2>1. ASSUME NEW i \in DOMAIN code, Elapse(i) PROVE codeView' = codeView
      BY <2>1, StatusesStay DEF Elapse
    <2>2. ASSUME NEW c \in Call, ClearCodes(c) \/ DiscardCode(c) PROVE Promise!CodeNext
      <3>1. PICK job : /\ job.pc # "apply" /\ Goto(c, job) /\ call[c].pc # "apply"
                       /\ UNCHANGED <<bound, issued, used>> /\ DOMAIN code' \subseteq DOMAIN code
        <4>1. CASE ClearCodes(c)
          <5>1. call[c] \in [pc : {"cooldown", "clear", "create"}, user : User, purpose : Purpose]
            <6>1. call[c].pc = "clear" /\ call[c] \in AnyCall
              BY <4>1, Parts DEF ClearCodes, UserFacts
            <6> QED
              BY <6>1 DEF AnyCall, Free, CodeJob, SessionJob, PinJob
          <5>2. [call[c] EXCEPT !.pc = "create"].pc = "create"
            BY <5>1
          <5> QED
            BY <4>1, <5>2 DEF ClearCodes, Without
        <4>2. CASE DiscardCode(c)
          BY <4>2, FreeJob DEF DiscardCode, Without, End
        <4> QED
          BY <2>2, <4>1, <4>2
      <3>2. call'[c] = job /\ \A q \in Call \ {c} : call'[q] = call[q]
        <4>1. call \in [Call -> AnyCall]
          BY Parts DEF UserFacts
        <4> QED
          BY <3>1, <4>1 DEF Goto
      <3> QED
        BY <3>1, <3>2, DeletedAreWithdrawn
    <2> QED
      BY <1>2, <2>1, <2>2, QuietSteps, CreateCodeIssues, SpendCodeSpends DEF OtpNext
  <1>3. CASE SessionNext /\ UNCHANGED codeVars
    BY <1>3, QuietSessionSteps
  <1>4. CASE \E u \in User : ToggleUserStatus(u) /\ UNCHANGED <<codeVars, session>>
    BY <1>4, QuietSessionSteps
  <1>5. CASE Restart /\ UNCHANGED <<codeVars, session>>
    BY <1>5, RestartWithdraws
  <1>6. ASSUME NEW c \in Call,
               \/ ResetPassword(c) \/ ResetPin(c) \/ WritePin(c)
               \/ \E u \in User : BeginCreatePin(c, u) \/ BeginUpdatePin(c, u)
        PROVE  Promise!CodeNext \/ codeView' = codeView
    <2>1. CASE ResetPassword(c) \/ ResetPin(c)
      BY <2>1, ResetApplies
    <2>2. CASE WritePin(c) \/ \E u \in User : BeginCreatePin(c, u) \/ BeginUpdatePin(c, u)
      <3>1. UNCHANGED codeVars
        BY <2>2 DEF WritePin, BeginCreatePin, BeginUpdatePin, BeginUpdatePin_Any
      <3> QED
        BY <2>2, <3>1, QuietSessionSteps
    <2> QED
      BY <1>6, <2>1, <2>2
  <1> QED
    BY <1>1, <1>2, <1>3, <1>4, <1>5, <1>6 DEF AccountsNext

\* verifyPurposeOtp deletes the code it spends by its id, so that of the
\* requests that hold one code one goes on, and the reset it authorises takes
\* effect once or, after a crash, not at all.
THEOREM CodesRefineOneTimeCode == AccountsSpec => ImplementsOneTimeCode
  <1>1. AccountsInv /\ AccountsInv' /\ [AccountsNext]_accountVars
          => [Promise!CodeNext]_Promise!oneTimeVars
    BY StepRefines DEF Promise!oneTimeVars, codeView, Statuses, Holding
  <1> QED
    BY <1>1, InitRefines, AccountsInvariant, PTL
       DEF AccountsSpec, ImplementsOneTimeCode, Promise!CodeSpec
=============================================================================
