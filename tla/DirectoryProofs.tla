-------------------------- MODULE DirectoryProofs --------------------------
(***************************************************************************)
(* DirectoryInv is an inductive invariant of Directory, whatever the sets  *)
(* of ids, values and requests: each part keeps its own, and no step       *)
(* touches two of them.  The parts come first: the admins, the locations,  *)
(* the catalogue, registration and the inbox; then the theorems.           *)
(***************************************************************************)
EXTENDS Directory, TLAPS

-----------------------------------------------------------------------------
(* The admins: the invariant, and what a step may do to the managers *)

LEMMA GrantedPermissions == Granted \subseteq SUBSET Permission
  <1>1. \A role \in DOMAIN DefaultPermissions : DefaultPermissions[role] \subseteq Permission
    BY DEF DefaultPermissions, Permission
  <1> QED
    BY <1>1, AdminsAssumption DEF Granted

LEMMA WorkFacts ==
  /\ NoWork \in AdminJob /\ NoWork.op = "none" /\ "actor" \notin DOMAIN NoWork
  /\ \A job \in AdminJob :
       /\ job.op \in {"check", "create", "update", "delete", "read", "toggle"} =>
            "actor" \in DOMAIN job /\ job.actor \in Admin
       /\ job.op \in {"check", "create", "seed"} => job.new \in AdminType
       /\ job.op \in {"update", "delete", "read", "toggle", "reseed"} => job.id \in Admin
       /\ job.op = "update" =>
            job.mail \in Mail /\ job.nick \in Nick /\ job.permissions \subseteq Permission
       /\ job.op = "toggle" => job.seen \in BOOLEAN
  BY DEF NoWork, AdminJob

LEMMA AdminsInitInv == AdminsInit => AdminsInv
  <1> SUFFICES ASSUME AdminsInit PROVE AdminsInv
    OBVIOUS
  <1>1. PICK a \in Admin :
          admin = [b \in {a} |->
                     SuperAdmin(CHOOSE mail \in Mail : TRUE, CHOOSE nick \in Nick : TRUE)]
    BY DEF AdminsInit
  <1>2. SuperAdmin(CHOOSE mail \in Mail : TRUE, CHOOSE nick \in Nick : TRUE) \in AdminType
    <2>1. (CHOOSE mail \in Mail : TRUE) \in Mail /\ (CHOOSE nick \in Nick : TRUE) \in Nick
      BY AdminsAssumption
    <2> QED
      BY <2>1 DEF SuperAdmin, AdminType
  <1>3. AdminsTypeOK
    BY <1>1, <1>2, WorkFacts DEF AdminsInit, AdminsTypeOK
  <1>4. AdminsUnique
    BY <1>1 DEF AdminsUnique
  <1>5. ActorsStand /\ ActsOnAnother
    BY WorkFacts DEF AdminsInit, ActorsStand, ActsOnAnother
  <1> QED
    BY <1>3, <1>4, <1>5 DEF AdminsInv

-----------------------------------------------------------------------------
(* The two kinds of steps *)

\* A request that begins or goes on: it has an actor who passes the guards, or
\* is the seed.
LEMMA ProceedKeepsInv ==
  ASSUME AdminsInv, NEW c \in AdminCall, NEW job \in AdminJob,
         managing' = [managing EXCEPT ![c] = job],
         UNCHANGED <<admin, former, fallen>>,
         "actor" \in DOMAIN job /\ c \notin fallen => Manages(job.actor, admin),
         job.op \in {"delete", "read", "toggle"} => job.actor # job.id
  PROVE  AdminsInv'
  <1>0. AdminsTypeOK
    BY DEF AdminsInv
  <1>1. managing'[c] = job /\ \A d \in AdminCall \ {c} : managing'[d] = managing[d]
    BY <1>0 DEF AdminsTypeOK
  <1>2. AdminsTypeOK' /\ AdminsUnique'
    BY <1>0 DEF AdminsInv, AdminsTypeOK, AdminsUnique
  <1>3. ActorsStand'
    <2> SUFFICES ASSUME NEW d \in AdminCall \ fallen, "actor" \in DOMAIN managing'[d]
                 PROVE  Manages(managing'[d].actor, admin)
      BY DEF ActorsStand, Manages
    <2>1. CASE d = c
      BY <1>1, <2>1
    <2>2. CASE d # c
      BY <1>1, <2>2 DEF AdminsInv, ActorsStand
    <2> QED
      BY <2>1, <2>2
  <1>4. ActsOnAnother'
    BY <1>1 DEF AdminsInv, ActsOnAnother
  <1> QED
    BY <1>2, <1>3, <1>4 DEF AdminsInv

\* A request that ends: whoever falls by it is on record.
LEMMA StoreKeepsInv ==
  ASSUME AdminsInv, NEW c \in AdminCall, NEW admins, Store(c, admins),
         DOMAIN admins \subseteq Admin \ former, admins \in [DOMAIN admins -> AdminType],
         \A a, b \in DOMAIN admins :
           a # b => admins[a].mail # admins[b].mail /\ admins[a].nick # admins[b].nick
  PROVE  AdminsInv'
  <1>0. AdminsTypeOK
    BY DEF AdminsInv
  <1>1. /\ admin' = admins
        /\ managing' = [managing EXCEPT ![c] = NoWork]
        /\ former' = former \cup (DOMAIN admin \ DOMAIN admins)
        /\ fallen' = (fallen \ {c}) \cup
                       {d \in AdminCall \ {c} : /\ "actor" \in DOMAIN managing[d]
                                                /\ ~Manages(managing[d].actor, admins)}
    BY DEF Store
  <1>2. managing'[c] = NoWork /\ \A d \in AdminCall \ {c} : managing'[d] = managing[d]
    BY <1>0, <1>1 DEF AdminsTypeOK
  <1>3. AdminsTypeOK'
    <2>1. managing' \in [AdminCall -> AdminJob]
      BY <1>0, <1>1, WorkFacts DEF AdminsTypeOK
    <2> QED
      BY <1>0, <1>1, <2>1 DEF AdminsTypeOK
  <1>4. AdminsUnique'
    BY <1>1 DEF AdminsUnique
  <1>5. ActorsStand'
    <2> SUFFICES ASSUME NEW d \in AdminCall \ fallen', "actor" \in DOMAIN managing'[d]
                 PROVE  Manages(managing'[d].actor, admins)
      BY <1>1 DEF ActorsStand, Manages
    <2>1. d # c
      BY <1>2, WorkFacts
    <2> QED
      BY <1>1, <1>2, <2>1
  <1>6. ActsOnAnother'
    <2> SUFFICES ASSUME NEW d \in AdminCall, managing'[d].op \in {"delete", "read", "toggle"}
                 PROVE  managing'[d].actor # managing'[d].id
      BY DEF ActsOnAnother
    <2>1. d # c
      BY <1>2, WorkFacts
    <2> QED
      BY <1>2, <2>1 DEF AdminsInv, ActsOnAnother
  <1> QED
    BY <1>3, <1>4, <1>5, <1>6 DEF AdminsInv

\* The guards let pass whom Manages names.
LEMMA GuardFacts == \A a : May(a, "MANAGE_ADMINS") <=> Manages(a, admin)
  BY DEF May, Manages

-----------------------------------------------------------------------------
(* Every step *)

LEMMA UndertakeKeepsInv ==
  ASSUME AdminsInv, NEW c \in AdminCall, NEW job \in AdminJob, Undertake(c, job),
         job.op \in {"delete", "read", "toggle"} => job.actor # job.id
  PROVE  AdminsInv'
  BY GuardFacts, ProceedKeepsInv DEF Undertake

LEMMA BeginKeepsInv ==
  ASSUME AdminsInv, NEW c \in AdminCall, NEW actor \in Admin,
         \/ \E mail \in Mail, nick \in Nick, granted \in Granted :
              \/ BeginCreate(c, actor, mail, nick, granted)
              \/ \E a \in Admin : BeginUpdate(c, actor, a, mail, nick, granted)
         \/ \E a \in Admin : BeginDelete(c, actor, a) \/ BeginToggle(c, actor, a)
  PROVE  AdminsInv'
  <1>0. \A granted \in Granted : granted \subseteq Permission
    BY GrantedPermissions
  <1>1. ASSUME NEW mail \in Mail, NEW nick \in Nick, NEW granted \in Granted,
               BeginCreate(c, actor, mail, nick, granted)
        PROVE  AdminsInv'
    <2> DEFINE job == [op |-> "check", actor |-> actor,
                       new |-> [mail |-> mail, nick |-> nick, active |-> TRUE,
                                permissions |-> granted]]
    <2>1. job \in AdminJob /\ job.op = "check"
      BY <1>0 DEF AdminJob, AdminType
    <2>2. Undertake(c, job)
      BY <1>1 DEF BeginCreate
    <2> HIDE DEF job
    <2> QED
      BY <2>1, <2>2, UndertakeKeepsInv
  <1>2. ASSUME NEW mail \in Mail, NEW nick \in Nick, NEW granted \in Granted, NEW a \in Admin,
               BeginUpdate(c, actor, a, mail, nick, granted)
        PROVE  AdminsInv'
    <2> DEFINE job == [op |-> "update", actor |-> actor, id |-> a, mail |-> mail, nick |-> nick,
                       permissions |-> granted]
    <2>1. job \in AdminJob /\ job.op = "update"
      BY <1>0 DEF AdminJob
    <2>2. Undertake(c, job)
      BY <1>2 DEF BeginUpdate
    <2> HIDE DEF job
    <2> QED
      BY <2>1, <2>2, UndertakeKeepsInv
  <1>3. ASSUME NEW a \in Admin, BeginDelete(c, actor, a) PROVE AdminsInv'
    <2> DEFINE job == [op |-> "delete", actor |-> actor, id |-> a]
    <2>1. job \in AdminJob /\ job.actor # job.id
      BY <1>3 DEF AdminJob, BeginDelete, Another
    <2>2. Undertake(c, job)
      BY <1>3 DEF BeginDelete
    <2> HIDE DEF job
    <2> QED
      BY <2>1, <2>2, UndertakeKeepsInv
  <1>4. ASSUME NEW a \in Admin, BeginToggle(c, actor, a) PROVE AdminsInv'
    <2> DEFINE job == [op |-> "read", actor |-> actor, id |-> a]
    <2>1. job \in AdminJob /\ job.actor # job.id
      BY <1>4 DEF AdminJob, BeginToggle, Another
    <2>2. Undertake(c, job)
      BY <1>4 DEF BeginToggle
    <2> HIDE DEF job
    <2> QED
      BY <2>1, <2>2, UndertakeKeepsInv
  <1> QED
    BY <1>1, <1>2, <1>3, <1>4

LEMMA CheckKnownKeepsInv ==
  ASSUME AdminsInv, NEW c \in AdminCall, CheckKnown(c)
  PROVE  AdminsInv'
  <1>0. managing[c] \in AdminJob
    BY DEF AdminsInv, AdminsTypeOK
  <1> DEFINE job == [managing[c] EXCEPT !.op = "create"]
  <1>1. managing[c].op = "check" /\ Proceed(c, job)
    BY DEF CheckKnown
  <1>2. managing[c] \in [op : {"check", "create"}, actor : Admin, new : AdminType]
    BY <1>0, <1>1 DEF AdminJob, NoWork
  <1>3. /\ job \in AdminJob /\ job.op = "create"
        /\ job.actor = managing[c].actor /\ "actor" \in DOMAIN managing[c]
    BY <1>2 DEF AdminJob
  <1> HIDE DEF job
  <1>4. c \notin fallen => Manages(job.actor, admin)
    BY <1>3 DEF AdminsInv, ActorsStand
  <1> QED
    BY <1>1, <1>3, <1>4, ProceedKeepsInv DEF Proceed

LEMMA ReadStatusKeepsInv ==
  ASSUME AdminsInv, NEW c \in AdminCall, ReadStatus(c)
  PROVE  AdminsInv'
  <1>0. managing[c] \in AdminJob /\ admin \in [DOMAIN admin -> AdminType]
    BY DEF AdminsInv, AdminsTypeOK
  <1> DEFINE job == [op |-> "toggle", actor |-> managing[c].actor, id |-> managing[c].id,
                     seen |-> admin[managing[c].id].active]
  <1>1. managing[c].op = "read" /\ managing[c].id \in DOMAIN admin /\ Proceed(c, job)
    BY DEF ReadStatus
  <1>2. managing[c].actor \in Admin /\ managing[c].id \in Admin /\ "actor" \in DOMAIN managing[c]
    BY <1>0, <1>1, WorkFacts
  <1>3. admin[managing[c].id].active \in BOOLEAN
    BY <1>0, <1>1 DEF AdminType
  <1>4. /\ job \in AdminJob /\ job.op = "toggle"
        /\ job.actor = managing[c].actor /\ job.id = managing[c].id
    BY <1>2, <1>3 DEF AdminJob
  <1> HIDE DEF job
  <1>5. c \notin fallen => Manages(job.actor, admin)
    BY <1>2, <1>4 DEF AdminsInv, ActorsStand
  <1>6. job.actor # job.id
    BY <1>1, <1>4 DEF AdminsInv, ActsOnAnother
  <1> QED
    BY <1>1, <1>4, <1>5, <1>6, ProceedKeepsInv DEF Proceed

LEMMA FindSeededKeepsInv ==
  ASSUME AdminsInv, NEW c \in AdminCall, NEW mail \in Mail, NEW nick \in Nick,
         FindSeeded(c, mail, nick)
  PROVE  AdminsInv'
  <1>1. ASSUME NEW a \in Known(mail, nick), Proceed(c, [op |-> "reseed", id |-> a])
        PROVE  AdminsInv'
    <2> DEFINE job == [op |-> "reseed", id |-> a]
    <2>1. a \in Admin
      BY DEF Known, AdminsInv, AdminsTypeOK
    <2>2. job \in AdminJob /\ "actor" \notin DOMAIN job /\ job.op = "reseed"
      BY <2>1 DEF AdminJob
    <2> HIDE DEF job
    <2> QED
      BY <1>1, <2>2, ProceedKeepsInv DEF Proceed, job
  <1>2. ASSUME Proceed(c, [op |-> "seed", new |-> SuperAdmin(mail, nick)])
        PROVE  AdminsInv'
    <2> DEFINE job == [op |-> "seed", new |-> SuperAdmin(mail, nick)]
    <2>1. SuperAdmin(mail, nick) \in AdminType
      BY DEF SuperAdmin, AdminType
    <2>2. job \in AdminJob /\ "actor" \notin DOMAIN job /\ job.op = "seed"
      BY <2>1 DEF AdminJob
    <2> HIDE DEF job
    <2> QED
      BY <1>2, <2>2, ProceedKeepsInv DEF Proceed, job
  <1> QED
    BY <1>1, <1>2 DEF FindSeeded

\* What is stored of the accounts by each of the last steps.
LEMMA StoringKeepsInv ==
  ASSUME AdminsInv, NEW c \in AdminCall,
         \/ \E a \in Admin : CreateAdmin(c, a)
         \/ UpdateAdmin(c) \/ DeleteAdmin(c) \/ ToggleAdminStatus(c) \/ Reseed(c) \/ Abandon(c)
  PROVE  AdminsInv'
  <1>0. /\ managing[c] \in AdminJob /\ admin \in [DOMAIN admin -> AdminType]
        /\ DOMAIN admin \subseteq Admin /\ DOMAIN admin \cap former = {}
    BY DEF AdminsInv, AdminsTypeOK
  <1>1. \A a, b \in DOMAIN admin :
          a # b => admin[a].mail # admin[b].mail /\ admin[a].nick # admin[b].nick
    BY DEF AdminsInv, AdminsUnique
  <1>2. ASSUME NEW a \in Admin, CreateAdmin(c, a) PROVE AdminsInv'
    <2> DEFINE new    == managing[c].new
               admins == [b \in DOMAIN admin \cup {a} |-> IF b = a THEN new ELSE admin[b]]
    <2>1. /\ Store(c, admins) /\ a \notin DOMAIN admin /\ a \notin former
          /\ \A b \in DOMAIN admin : admin[b].mail # new.mail /\ admin[b].nick # new.nick
      BY <1>2 DEF CreateAdmin, Taken, Known
    <2>2. new \in AdminType
      BY <1>0, <1>2, WorkFacts DEF CreateAdmin
    <2>3. DOMAIN admins \subseteq Admin \ former /\ admins \in [DOMAIN admins -> AdminType]
      BY <1>0, <2>1, <2>2
    <2>4. \A b, d \in DOMAIN admins :
            b # d => admins[b].mail # admins[d].mail /\ admins[b].nick # admins[d].nick
      BY <1>1, <2>1
    <2> HIDE DEF admins
    <2> QED
      BY <2>1, <2>3, <2>4, StoreKeepsInv
  <1>3. CASE UpdateAdmin(c)
    <2> DEFINE job    == managing[c]
               admins == [admin EXCEPT ![job.id].mail = job.mail, ![job.id].nick = job.nick,
                                       ![job.id].permissions = job.permissions]
    <2>1. /\ Store(c, admins) /\ job.id \in DOMAIN admin
          /\ \A b \in DOMAIN admin \ {job.id} : admin[b].mail # job.mail /\ admin[b].nick # job.nick
      BY <1>3 DEF UpdateAdmin, Taken, Known
    <2>2. job.mail \in Mail /\ job.nick \in Nick /\ job.permissions \subseteq Permission
      BY <1>0, <1>3, WorkFacts DEF UpdateAdmin
    <2>3. admins \in [DOMAIN admin -> AdminType]
      BY <1>0, <2>1, <2>2 DEF AdminType
    <2>4. /\ admins[job.id].mail = job.mail /\ admins[job.id].nick = job.nick
          /\ \A b \in DOMAIN admin \ {job.id} : admins[b] = admin[b]
      BY <1>0, <2>1 DEF AdminType
    <2> HIDE DEF admins
    <2>5. DOMAIN admins = DOMAIN admin
      BY <2>3
    <2>6. \A b, d \in DOMAIN admins :
            b # d => admins[b].mail # admins[d].mail /\ admins[b].nick # admins[d].nick
      BY <1>1, <2>1, <2>4, <2>5
    <2> QED
      BY <1>0, <2>1, <2>3, <2>5, <2>6, StoreKeepsInv
  <1>4. CASE DeleteAdmin(c)
    <2> DEFINE admins == [b \in DOMAIN admin \ {managing[c].id} |-> admin[b]]
    <2>1. Store(c, admins)
      BY <1>4 DEF DeleteAdmin
    <2>2. /\ DOMAIN admins \subseteq Admin \ former /\ admins \in [DOMAIN admins -> AdminType]
          /\ \A b, d \in DOMAIN admins :
               b # d => admins[b].mail # admins[d].mail /\ admins[b].nick # admins[d].nick
      BY <1>0, <1>1
    <2> HIDE DEF admins
    <2> QED
      BY <2>1, <2>2, StoreKeepsInv
  <1>5. CASE ToggleAdminStatus(c)
    <2> DEFINE a      == managing[c].id
               admins == [admin EXCEPT ![a].active = ~managing[c].seen]
    <2>1. Store(c, admins) /\ a \in DOMAIN admin
      BY <1>5 DEF ToggleAdminStatus
    <2>2. admins \in [DOMAIN admin -> AdminType]
      BY <1>0, <2>1 DEF AdminType
    <2>3. \A b \in DOMAIN admin : admins[b].mail = admin[b].mail /\ admins[b].nick = admin[b].nick
      BY <1>0, <2>1 DEF AdminType
    <2> HIDE DEF admins
    <2>4. DOMAIN admins = DOMAIN admin
      BY <2>2
    <2>5. \A b, d \in DOMAIN admins :
            b # d => admins[b].mail # admins[d].mail /\ admins[b].nick # admins[d].nick
      BY <1>1, <2>3, <2>4
    <2> QED
      BY <1>0, <2>1, <2>2, <2>4, <2>5, StoreKeepsInv
  <1>6. CASE Reseed(c)
    <2> DEFINE a      == managing[c].id
               admins == [admin EXCEPT ![a].active = TRUE, ![a].permissions = Permission]
    <2>1. Store(c, admins) /\ a \in DOMAIN admin
      BY <1>6 DEF Reseed
    <2>2. admins \in [DOMAIN admin -> AdminType]
      BY <1>0, <2>1 DEF AdminType
    <2>3. \A b \in DOMAIN admin : admins[b].mail = admin[b].mail /\ admins[b].nick = admin[b].nick
      BY <1>0, <2>1 DEF AdminType
    <2> HIDE DEF admins
    <2>4. DOMAIN admins = DOMAIN admin
      BY <2>2
    <2>5. \A b, d \in DOMAIN admins :
            b # d => admins[b].mail # admins[d].mail /\ admins[b].nick # admins[d].nick
      BY <1>1, <2>3, <2>4
    <2> QED
      BY <1>0, <2>1, <2>2, <2>4, <2>5, StoreKeepsInv
  <1>7. CASE Abandon(c)
    BY <1>0, <1>1, <1>7, StoreKeepsInv DEF Abandon
  <1> QED
    BY <1>2, <1>3, <1>4, <1>5, <1>6, <1>7

LEMMA AdminsNextKeepsInv == AdminsInv /\ [AdminsNext]_adminVars => AdminsInv'
  <1> SUFFICES ASSUME AdminsInv, [AdminsNext]_adminVars PROVE AdminsInv'
    OBVIOUS
  <1>1. CASE UNCHANGED adminVars
    BY <1>1 DEF adminVars, AdminsInv, AdminsTypeOK, AdminsUnique, ActorsStand, Manages,
                ActsOnAnother
  <1>2. CASE AdminsNext
    <2> PICK c \in AdminCall :
          \/ \E mail \in Mail, nick \in Nick :
               \/ FindSeeded(c, mail, nick)
               \/ \E actor \in Admin, granted \in Granted :
                    \/ BeginCreate(c, actor, mail, nick, granted)
                    \/ \E a \in Admin : BeginUpdate(c, actor, a, mail, nick, granted)
          \/ \E actor, a \in Admin : BeginDelete(c, actor, a) \/ BeginToggle(c, actor, a)
          \/ \E a \in Admin : CreateAdmin(c, a)
          \/ CheckKnown(c) \/ UpdateAdmin(c) \/ DeleteAdmin(c) \/ ReadStatus(c)
          \/ ToggleAdminStatus(c) \/ Reseed(c)
          \/ managing[c] # NoWork /\ Abandon(c)
      BY <1>2 DEF AdminsNext
    <2> QED
      BY FindSeededKeepsInv, BeginKeepsInv, CheckKnownKeepsInv, ReadStatusKeepsInv, StoringKeepsInv
  <1> QED
    BY <1>1, <1>2

-----------------------------------------------------------------------------
(* The managers *)

\* The last manager falls by an update of his own account or by a request whose
\* actor has fallen: nothing else takes his standing from him.
LEMMA ManagersStep ==
  ASSUME AdminsInv, [AdminsNext]_adminVars, Managers(admin) # {}, Managers(admin') = {}
  PROVE  \E c \in AdminCall :
           \/ c \in fallen
           \/ managing[c].op = "update" /\ managing[c].actor = managing[c].id
  <1>0. /\ admin \in [DOMAIN admin -> AdminType] /\ DOMAIN admin \subseteq Admin
        /\ managing \in [AdminCall -> AdminJob]
    BY DEF AdminsInv, AdminsTypeOK
  <1>1. PICK m \in Admin : Manages(m, admin)
    BY DEF Managers
  <1>2. \A a \in Admin : ~Manages(a, admin')
    BY DEF Managers
  <1>3. admin' # admin
    BY <1>1, <1>2
  <1>4. PICK c \in AdminCall :
          \/ \E a \in Admin : CreateAdmin(c, a)
          \/ UpdateAdmin(c) \/ DeleteAdmin(c) \/ ToggleAdminStatus(c) \/ Reseed(c)
    BY <1>3 DEF adminVars, AdminsNext, FindSeeded, BeginCreate, BeginUpdate, BeginDelete,
                BeginToggle, Undertake, CheckKnown, ReadStatus, Proceed, Abandon, Store
  <1>5. \A a \in Admin : ~CreateAdmin(c, a)
    <2> SUFFICES ASSUME NEW a \in Admin, CreateAdmin(c, a) PROVE FALSE
      OBVIOUS
    <2>1. /\ admin' = [b \in DOMAIN admin \cup {a} |->
                         IF b = a THEN managing[c].new ELSE admin[b]]
          /\ a \notin DOMAIN admin
      BY DEF CreateAdmin, Store
    <2>2. m \in DOMAIN admin' /\ admin'[m] = admin[m]
      BY <1>1, <2>1 DEF Manages
    <2> QED
      BY <1>1, <1>2, <2>2 DEF Manages
  <1>6. ~Reseed(c)
    <2> SUFFICES ASSUME Reseed(c) PROVE FALSE
      OBVIOUS
    <2> DEFINE a == managing[c].id
    <2>1. /\ a \in DOMAIN admin
          /\ admin' = [admin EXCEPT ![a].active = TRUE, ![a].permissions = Permission]
      BY DEF Reseed, Store
    <2>2. a \in DOMAIN admin' /\ admin'[a].active = TRUE /\ admin'[a].permissions = Permission
      BY <1>0, <2>1 DEF AdminType
    <2>3. Manages(a, admin')
      BY <2>2 DEF Manages, Permission
    <2> QED
      BY <1>0, <1>2, <2>1, <2>3
  \* The others leave their actor alone, who manages unless he has fallen.
  <1>7. CASE UpdateAdmin(c) \/ DeleteAdmin(c) \/ ToggleAdminStatus(c)
    <2> DEFINE actor == managing[c].actor
               a     == managing[c].id
    <2>1. /\ managing[c].op \in {"update", "delete", "toggle"}
          /\ \A b \in DOMAIN admin \ {a} : b \in DOMAIN admin' /\ admin'[b] = admin[b]
      BY <1>0, <1>7 DEF UpdateAdmin, DeleteAdmin, ToggleAdminStatus, Store
    <2>2. "actor" \in DOMAIN managing[c] /\ actor \in Admin
      BY <1>0, <2>1, WorkFacts
    <2>3. CASE c \notin fallen /\ actor # a
      <3>1. Manages(actor, admin)
        BY <2>2, <2>3 DEF AdminsInv, ActorsStand
      <3>2. Manages(actor, admin')
        BY <2>1, <2>3, <3>1 DEF Manages
      <3> QED
        BY <1>2, <2>2, <3>2
    <2>4. managing[c].op \in {"delete", "toggle"} => actor # a
      BY DEF AdminsInv, ActsOnAnother
    <2> QED
      BY <2>1, <2>3, <2>4
  <1> QED
    BY <1>4, <1>5, <1>6, <1>7

-----------------------------------------------------------------------------
(* The locations.  A step puts a state (PutStateKeepsInv), puts an area       *)
(* (PutAreaKeepsInv), moves a request on (AskKeepsInv) or deletes something.  *)

LEMMA JobFacts ==
  /\ NoRequest \in LocationJob /\ NoRequest.op = "none"
  /\ \A job \in LocationJob :
       /\ job.op = "deleteCountry" => job.id \in Country
       /\ job.op = "deleteState" => job.id \in State
       /\ job.op \in {"createArea", "seedArea"} => job.state \in State /\ job.country \in Country
       /\ job.op = "seedState" => job.country \in Country
  BY DEF NoRequest, LocationJob

LEMMA PutType ==
  ASSUME NEW S, NEW stored, stored \in [DOMAIN stored -> S], NEW id, NEW doc \in S
  PROVE  Put(stored, id, doc) \in [DOMAIN stored \cup {id} -> S]
  BY DEF Put

LEMMA LocationsInitInv == LocationsInit => LocationsInv
  <1> SUFFICES ASSUME LocationsInit PROVE LocationsInv
    OBVIOUS
  <1>1. DOMAIN state = {} /\ DOMAIN area = {}
    BY DEF LocationsInit
  <1>2. LocationsTypeOK
    <2>1. state \in [{} -> Country] /\ area \in [{} -> [state : State, country : Country]]
      BY DEF LocationsInit
    <2> QED
      BY <1>1, <2>1, JobFacts DEF LocationsInit, LocationsTypeOK
  <1>3. OrphansCameLate /\ MisplacedOnlyByMoves
    BY <1>1 DEF OrphansCameLate, MisplacedOnlyByMoves
  <1>4. CountsHold /\ StatesKnown /\ CountriesHold
    BY <1>1, JobFacts DEF LocationsInit, CountsHold, StatesKnown, CountriesHold
  <1>5. BuriedIsGone
    BY <1>1 DEF LocationsInit, BuriedIsGone
  <1> QED
    BY <1>2, <1>3, <1>4, <1>5 DEF LocationsInv

LEMMA AskKeepsInv ==
  ASSUME LocationsInv, NEW call \in LocationCall, NEW job \in LocationJob,
         locating' = [locating EXCEPT ![call] = job],
         UNCHANGED <<country, state, area, buried, moved, astray>>,
         job.op = "deleteCountry" => \A s \in DOMAIN state : state[s] = job.id => s \in astray,
         job.op = "deleteState" => \A a \in DOMAIN area : area[a].state = job.id => a \in astray,
         job.op \in {"createArea", "seedArea"} =>
           job.state \in DOMAIN state /\ state[job.state] = job.country
  PROVE  LocationsInv'
  <1>0. LocationsTypeOK
    BY DEF LocationsInv
  <1>1. locating'[call] = job /\ \A q \in LocationCall \ {call} : locating'[q] = locating[q]
    BY <1>0 DEF LocationsTypeOK
  <1>2. LocationsTypeOK'
    BY <1>0 DEF LocationsTypeOK
  <1>3. OrphansCameLate' /\ MisplacedOnlyByMoves' /\ BuriedIsGone'
    BY DEF LocationsInv, OrphansCameLate, MisplacedOnlyByMoves, BuriedIsGone
  <1>4. CountsHold'
    BY <1>1 DEF LocationsInv, CountsHold
  <1>5. StatesKnown'
    BY <1>1 DEF LocationsInv, StatesKnown
  <1>6. CountriesHold'
    BY <1>1 DEF LocationsInv, CountriesHold
  <1> QED
    BY <1>2, <1>3, <1>4, <1>5, <1>6 DEF LocationsInv

\* The requests that a step leaves as they are, or ends.
Onward(q) == locating'[q] \in {locating[q], NoRequest}

LEMMA PutStateKeepsInv ==
  ASSUME LocationsInv, NEW s \in State, NEW c \in Country, PutState(s, c), s \notin buried,
         moved \subseteq moved', moved' \subseteq State \cup Area,
         s \in DOMAIN state => s \in moved',
         locating' \in [LocationCall -> LocationJob],
         \A q \in LocationCall :
           \/ Onward(q)
           \/ locating'[q].op = "seedArea" /\ locating'[q].state = s /\ locating'[q].country = c
  PROVE  LocationsInv'
  <1>0. LocationsTypeOK
    BY DEF LocationsInv
  <1>1. /\ state' = Put(state, s, c)
        /\ astray' = IF c \in country \ Leaving THEN astray \ {s} ELSE astray \cup {s}
        /\ UNCHANGED <<country, area, buried>>
    BY DEF PutState
  <1>2. /\ DOMAIN state' = DOMAIN state \cup {s} /\ state'[s] = c
        /\ \A t \in DOMAIN state : t # s => state'[t] = state[t]
    BY <1>1 DEF Put
  <1>3. state' \in [DOMAIN state' -> Country]
    BY <1>0, <1>1, <1>2, PutType DEF LocationsTypeOK
  <1>4. /\ \A a \in Area : a \in astray => a \in astray'
        /\ \A t \in State : t # s => (t \in astray <=> t \in astray')
    BY <1>1, LocationsAssumption
  <1>5. LocationsTypeOK'
    BY <1>0, <1>1, <1>2, <1>3 DEF LocationsTypeOK
  <1>6. OrphansCameLate'
    <2>1. ASSUME NEW t \in DOMAIN state' PROVE state'[t] \in country \/ t \in astray'
      <3>1. CASE t = s
        BY <1>1, <1>2, <3>1
      <3>2. CASE t # s
        BY <1>0, <1>2, <1>4, <3>2 DEF LocationsInv, OrphansCameLate, LocationsTypeOK
      <3> QED
        BY <3>1, <3>2
    <2>2. ASSUME NEW a \in DOMAIN area PROVE area[a].state \in DOMAIN state' \/ a \in astray'
      BY <1>0, <1>2, <1>4 DEF LocationsInv, OrphansCameLate, LocationsTypeOK
    <2> QED
      BY <1>1, <2>1, <2>2 DEF OrphansCameLate
  <1>7. MisplacedOnlyByMoves'
    <2> SUFFICES ASSUME NEW a \in DOMAIN area, area[a].state \in DOMAIN state',
                        state'[area[a].state] # area[a].country
                 PROVE  a \in moved' \/ area[a].state \in moved'
      BY <1>1 DEF MisplacedOnlyByMoves
    <2>1. CASE area[a].state = s
      BY <1>1, <2>1 DEF LocationsInv, StatesKnown
    <2>2. CASE area[a].state # s
      BY <1>2, <2>2 DEF LocationsInv, MisplacedOnlyByMoves
    <2> QED
      BY <2>1, <2>2
  <1>8. CountsHold'
    <2> SUFFICES ASSUME NEW q \in LocationCall
                 PROVE  /\ locating'[q].op = "deleteCountry" =>
                             \A t \in DOMAIN state' : state'[t] = locating'[q].id => t \in astray'
                        /\ locating'[q].op = "deleteState" =>
                             \A a \in DOMAIN area : area[a].state = locating'[q].id => a \in astray'
      BY <1>1 DEF CountsHold
    <2>1. locating'[q].op \in {"deleteCountry", "deleteState"} => locating'[q] = locating[q]
      BY JobFacts DEF Onward
    <2>2. ASSUME locating'[q].op = "deleteCountry", NEW t \in DOMAIN state',
                 state'[t] = locating'[q].id
          PROVE  t \in astray'
      <3>1. locating[q].op = "deleteCountry" /\ state'[t] = locating[q].id
        BY <2>1, <2>2
      <3>2. CASE t = s
        <4>1. c \in Leaving
          BY <1>2, <3>1, <3>2 DEF Leaving
        <4> QED
          BY <1>1, <3>2, <4>1
      <3>3. CASE t # s
        BY <1>0, <1>2, <1>4, <2>2, <3>1, <3>3 DEF LocationsInv, CountsHold, LocationsTypeOK
      <3> QED
        BY <3>2, <3>3
    <2>3. ASSUME locating'[q].op = "deleteState", NEW a \in DOMAIN area,
                 area[a].state = locating'[q].id
          PROVE  a \in astray'
      BY <1>0, <1>4, <2>1, <2>3 DEF LocationsInv, CountsHold, LocationsTypeOK
    <2> QED
      BY <2>2, <2>3
  <1>9. StatesKnown'
    <2>1. \A a \in DOMAIN area \ moved' : area[a].state \in DOMAIN state' \cup buried
      BY <1>2 DEF LocationsInv, StatesKnown
    <2>2. ASSUME NEW q \in LocationCall, locating'[q].op \in {"createArea", "seedArea"}
          PROVE  locating'[q].state \in DOMAIN state' \cup buried
      <3>1. CASE locating'[q] = locating[q]
        BY <1>2, <2>2, <3>1 DEF LocationsInv, StatesKnown
      <3>2. CASE locating'[q].state = s
        BY <1>2, <3>2
      <3> QED
        BY <2>2, <3>1, <3>2, JobFacts DEF Onward
    <2> QED
      BY <1>1, <2>1, <2>2 DEF StatesKnown
  <1>10. CountriesHold'
    <2> SUFFICES ASSUME NEW q \in LocationCall, locating'[q].op \in {"createArea", "seedArea"},
                        locating'[q].state \in DOMAIN state'
                 PROVE  \/ state'[locating'[q].state] = locating'[q].country
                        \/ locating'[q].state \in moved'
      BY DEF CountriesHold
    <2>1. CASE locating'[q] = locating[q]
      <3>1. CASE locating[q].state = s
        BY <2>1, <3>1 DEF LocationsInv, StatesKnown
      <3>2. CASE locating[q].state # s
        BY <1>2, <2>1, <3>2 DEF LocationsInv, CountriesHold
      <3> QED
        BY <3>1, <3>2
    <2>2. CASE locating'[q].state = s /\ locating'[q].country = c
      BY <1>2, <2>2
    <2> QED
      BY <2>1, <2>2, JobFacts DEF Onward
  <1>11. BuriedIsGone'
    BY <1>1, <1>2 DEF LocationsInv, BuriedIsGone
  <1> QED
    BY <1>5, <1>6, <1>7, <1>8, <1>9, <1>10, <1>11 DEF LocationsInv

LEMMA PutAreaKeepsInv ==
  ASSUME LocationsInv, NEW a \in Area, NEW s \in State, NEW c \in Country, PutArea(a, s, c),
         a \notin buried,
         moved \subseteq moved', moved' \subseteq State \cup Area,
         \/ a \in moved'
         \/ /\ s \in DOMAIN state \cup buried
            /\ s \in DOMAIN state => state[s] = c \/ s \in moved,
         locating' \in [LocationCall -> LocationJob],
         \A q \in LocationCall : Onward(q)
  PROVE  LocationsInv'
  <1>0. LocationsTypeOK
    BY DEF LocationsInv
  <1>1. /\ area' = Put(area, a, [state |-> s, country |-> c])
        /\ astray' = IF s \in DOMAIN state \ Leaving THEN astray \ {a} ELSE astray \cup {a}
        /\ UNCHANGED <<country, state, buried>>
    BY DEF PutArea
  <1>2. /\ DOMAIN area' = DOMAIN area \cup {a}
        /\ area'[a].state = s /\ area'[a].country = c
        /\ \A b \in DOMAIN area : b # a => area'[b] = area[b]
    BY <1>1 DEF Put
  <1>3. area' \in [DOMAIN area' -> [state : State, country : Country]]
    BY <1>0, <1>1, <1>2, PutType DEF LocationsTypeOK
  <1>4. /\ \A t \in State : t \in astray => t \in astray'
        /\ \A b \in Area : b # a => (b \in astray <=> b \in astray')
    BY <1>1, LocationsAssumption
  <1>5. LocationsTypeOK'
    BY <1>0, <1>1, <1>2, <1>3 DEF LocationsTypeOK
  <1>6. OrphansCameLate'
    <2>1. ASSUME NEW t \in DOMAIN state PROVE state[t] \in country \/ t \in astray'
      BY <1>0, <1>4 DEF LocationsInv, OrphansCameLate, LocationsTypeOK
    <2>2. ASSUME NEW b \in DOMAIN area' PROVE area'[b].state \in DOMAIN state \/ b \in astray'
      <3>1. CASE b = a
        BY <1>1, <1>2, <3>1
      <3>2. CASE b # a
        BY <1>0, <1>2, <1>4, <3>2 DEF LocationsInv, OrphansCameLate, LocationsTypeOK
      <3> QED
        BY <3>1, <3>2
    <2> QED
      BY <1>1, <2>1, <2>2 DEF OrphansCameLate
  <1>7. MisplacedOnlyByMoves'
    <2> SUFFICES ASSUME NEW b \in DOMAIN area', area'[b].state \in DOMAIN state,
                        state[area'[b].state] # area'[b].country
                 PROVE  b \in moved' \/ area'[b].state \in moved'
      BY <1>1 DEF MisplacedOnlyByMoves
    <2>1. CASE b = a
      BY <1>2, <2>1
    <2>2. CASE b # a
      BY <1>2, <2>2 DEF LocationsInv, MisplacedOnlyByMoves
    <2> QED
      BY <2>1, <2>2
  <1>8. CountsHold'
    <2> SUFFICES ASSUME NEW q \in LocationCall
                 PROVE  /\ locating'[q].op = "deleteCountry" =>
                             \A t \in DOMAIN state : state[t] = locating'[q].id => t \in astray'
                        /\ locating'[q].op = "deleteState" =>
                             \A b \in DOMAIN area' : area'[b].state = locating'[q].id => b \in astray'
      BY <1>1 DEF CountsHold
    <2>1. locating'[q].op \in {"deleteCountry", "deleteState"} => locating'[q] = locating[q]
      BY JobFacts DEF Onward
    <2>2. ASSUME locating'[q].op = "deleteCountry", NEW t \in DOMAIN state,
                 state[t] = locating'[q].id
          PROVE  t \in astray'
      BY <1>0, <1>4, <2>1, <2>2 DEF LocationsInv, CountsHold, LocationsTypeOK
    <2>3. ASSUME locating'[q].op = "deleteState", NEW b \in DOMAIN area',
                 area'[b].state = locating'[q].id
          PROVE  b \in astray'
      <3>1. locating[q].op = "deleteState" /\ area'[b].state = locating[q].id
        BY <2>1, <2>3
      <3>2. CASE b = a
        <4>1. s \in Leaving
          BY <1>2, <3>1, <3>2 DEF Leaving
        <4> QED
          BY <1>1, <3>2, <4>1
      <3>3. CASE b # a
        BY <1>0, <1>2, <1>4, <2>3, <3>1, <3>3 DEF LocationsInv, CountsHold, LocationsTypeOK
      <3> QED
        BY <3>2, <3>3
    <2> QED
      BY <2>2, <2>3
  <1>9. StatesKnown'
    <2>1. \A b \in DOMAIN area' \ moved' : area'[b].state \in DOMAIN state \cup buried
      <3> SUFFICES ASSUME NEW b \in DOMAIN area' \ moved'
                   PROVE  area'[b].state \in DOMAIN state \cup buried
        OBVIOUS
      <3>1. CASE b = a
        BY <1>2, <3>1
      <3>2. CASE b # a
        BY <1>2, <3>2 DEF LocationsInv, StatesKnown
      <3> QED
        BY <3>1, <3>2
    <2>2. ASSUME NEW q \in LocationCall, locating'[q].op \in {"createArea", "seedArea"}
          PROVE  locating'[q].state \in DOMAIN state \cup buried
      BY <2>2, JobFacts DEF LocationsInv, StatesKnown, Onward
    <2> QED
      BY <1>1, <2>1, <2>2 DEF StatesKnown
  <1>10. CountriesHold'
    BY <1>1, JobFacts DEF LocationsInv, CountriesHold, Onward
  <1>11. BuriedIsGone'
    BY <1>1, <1>2 DEF LocationsInv, BuriedIsGone
  <1> QED
    BY <1>5, <1>6, <1>7, <1>8, <1>9, <1>10, <1>11 DEF LocationsInv

LEMMA CreateCountryKeepsInv ==
  ASSUME LocationsInv, NEW c \in Country, CreateCountry(c)
  PROVE  LocationsInv'
  <1>1. /\ country' = country \cup {c} /\ c \notin buried
        /\ UNCHANGED <<state, area, locating, buried, moved, astray>>
    BY DEF CreateCountry, Fresh
  <1>2. LocationsTypeOK'
    BY <1>1 DEF LocationsInv, LocationsTypeOK
  <1>3. OrphansCameLate' /\ MisplacedOnlyByMoves'
    BY <1>1 DEF LocationsInv, OrphansCameLate, MisplacedOnlyByMoves
  <1>4. CountsHold' /\ StatesKnown' /\ CountriesHold'
    BY <1>1 DEF LocationsInv, CountsHold, StatesKnown, CountriesHold
  <1>5. BuriedIsGone'
    BY <1>1 DEF LocationsInv, BuriedIsGone
  <1> QED
    BY <1>2, <1>3, <1>4, <1>5 DEF LocationsInv

\* The other requests stay as they are when one is answered.
LEMMA AnswerFacts ==
  ASSUME LocationsTypeOK, NEW call \in LocationCall, Answer(call)
  PROVE  /\ locating' \in [LocationCall -> LocationJob]
         /\ \A q \in LocationCall : Onward(q)
  BY JobFacts DEF LocationsTypeOK, Answer, Onward

\* What holds of the requests holds of those that go on.
LEMMA OnwardCounts ==
  ASSUME LocationsInv, \A q \in LocationCall : Onward(q), UNCHANGED astray,
         DOMAIN state' \subseteq DOMAIN state, \A t \in DOMAIN state' : state'[t] = state[t],
         DOMAIN area' \subseteq DOMAIN area, \A b \in DOMAIN area' : area'[b] = area[b]
  PROVE  CountsHold'
  <1> SUFFICES ASSUME NEW q \in LocationCall
               PROVE  /\ locating'[q].op = "deleteCountry" =>
                           \A t \in DOMAIN state' : state'[t] = locating'[q].id => t \in astray'
                      /\ locating'[q].op = "deleteState" =>
                           \A b \in DOMAIN area' : area'[b].state = locating'[q].id => b \in astray'
    BY DEF CountsHold
  <1>1. locating'[q].op \in {"deleteCountry", "deleteState"} => locating'[q] = locating[q]
    BY JobFacts DEF Onward
  <1> QED
    BY <1>1 DEF LocationsInv, CountsHold

LEMMA DeleteCountryKeepsInv ==
  ASSUME LocationsInv, NEW call \in LocationCall, DeleteCountry(call)
  PROVE  LocationsInv'
  <1> DEFINE c == locating[call].id
  <1>0. LocationsTypeOK
    BY DEF LocationsInv
  <1>1. /\ locating[call].op = "deleteCountry" /\ c \in Country
        /\ country' = country \ {c} /\ buried' = buried \cup {c}
        /\ UNCHANGED <<state, area, moved, astray>>
    BY <1>0, JobFacts DEF DeleteCountry, LocationsTypeOK
  <1>2. locating' \in [LocationCall -> LocationJob] /\ \A q \in LocationCall : Onward(q)
    BY <1>0, AnswerFacts DEF DeleteCountry
  <1>3. LocationsTypeOK'
    BY <1>0, <1>1, <1>2 DEF LocationsTypeOK
  <1>4. OrphansCameLate'
    <2>1. \A s \in DOMAIN state : state[s] = c => s \in astray
      BY <1>1 DEF LocationsInv, CountsHold
    <2> QED
      BY <1>1, <2>1 DEF LocationsInv, OrphansCameLate
  <1>5. MisplacedOnlyByMoves'
    BY <1>1 DEF LocationsInv, MisplacedOnlyByMoves
  <1>6. CountsHold'
    BY <1>1, <1>2, OnwardCounts
  <1>7. StatesKnown'
    BY <1>1, <1>2, JobFacts DEF LocationsInv, StatesKnown, Onward
  <1>8. CountriesHold'
    BY <1>1, <1>2, JobFacts DEF LocationsInv, CountriesHold, Onward
  <1>9. BuriedIsGone'
    <2>1. c \notin DOMAIN state \cup DOMAIN area
      BY <1>0, <1>1, LocationsAssumption DEF LocationsTypeOK
    <2> QED
      BY <1>1, <2>1 DEF LocationsInv, BuriedIsGone
  <1> QED
    BY <1>3, <1>4, <1>5, <1>6, <1>7, <1>8, <1>9 DEF LocationsInv

LEMMA DeleteStateKeepsInv ==
  ASSUME LocationsInv, NEW call \in LocationCall, DeleteState(call)
  PROVE  LocationsInv'
  <1> DEFINE s == locating[call].id
  <1>0. LocationsTypeOK
    BY DEF LocationsInv
  <1>1. /\ locating[call].op = "deleteState" /\ s \in State
        /\ state' = [t \in DOMAIN state \ {s} |-> state[t]] /\ buried' = buried \cup {s}
        /\ UNCHANGED <<country, area, moved, astray>>
    BY <1>0, JobFacts DEF DeleteState, LocationsTypeOK
  <1>2. locating' \in [LocationCall -> LocationJob] /\ \A q \in LocationCall : Onward(q)
    BY <1>0, AnswerFacts DEF DeleteState
  <1>3. DOMAIN state' = DOMAIN state \ {s} /\ \A t \in DOMAIN state' : state'[t] = state[t]
    BY <1>1
  <1>4. LocationsTypeOK'
    <2>1. state' \in [DOMAIN state' -> Country]
      BY <1>0, <1>1, <1>3 DEF LocationsTypeOK
    <2> QED
      BY <1>0, <1>1, <1>2, <1>3, <2>1 DEF LocationsTypeOK
  <1>5. OrphansCameLate'
    <2>1. \A a \in DOMAIN area : area[a].state = s => a \in astray
      BY <1>1 DEF LocationsInv, CountsHold
    <2> QED
      BY <1>1, <1>3, <2>1 DEF LocationsInv, OrphansCameLate
  <1>6. MisplacedOnlyByMoves'
    BY <1>1, <1>3 DEF LocationsInv, MisplacedOnlyByMoves
  <1>7. CountsHold'
    BY <1>1, <1>2, <1>3, OnwardCounts
  <1>8. StatesKnown'
    BY <1>1, <1>2, <1>3, JobFacts DEF LocationsInv, StatesKnown, Onward
  <1>9. CountriesHold'
    BY <1>1, <1>2, <1>3, JobFacts DEF LocationsInv, CountriesHold, Onward
  <1>10. BuriedIsGone'
    <2>1. s \notin country \cup DOMAIN area
      BY <1>0, <1>1, LocationsAssumption DEF LocationsTypeOK
    <2> QED
      BY <1>1, <1>3, <2>1 DEF LocationsInv, BuriedIsGone
  <1> QED
    BY <1>4, <1>5, <1>6, <1>7, <1>8, <1>9, <1>10 DEF LocationsInv

LEMMA DeleteAreaKeepsInv ==
  ASSUME LocationsInv, NEW a \in Area, DeleteArea(a)
  PROVE  LocationsInv'
  <1>0. LocationsTypeOK
    BY DEF LocationsInv
  <1>1. /\ area' = [b \in DOMAIN area \ {a} |-> area[b]] /\ buried' = buried \cup {a}
        /\ UNCHANGED <<country, state, locating, moved, astray>>
    BY DEF DeleteArea
  <1>2. DOMAIN area' = DOMAIN area \ {a} /\ \A b \in DOMAIN area' : area'[b] = area[b]
    BY <1>1
  <1>3. LocationsTypeOK'
    <2>1. area' \in [DOMAIN area' -> [state : State, country : Country]]
      BY <1>0, <1>1, <1>2 DEF LocationsTypeOK
    <2> QED
      BY <1>0, <1>1, <1>2, <2>1 DEF LocationsTypeOK
  <1>4. OrphansCameLate' /\ MisplacedOnlyByMoves'
    BY <1>1, <1>2 DEF LocationsInv, OrphansCameLate, MisplacedOnlyByMoves
  <1>5. CountsHold'
    BY <1>1, <1>2, OnwardCounts DEF Onward
  <1>6. StatesKnown' /\ CountriesHold'
    BY <1>1, <1>2 DEF LocationsInv, StatesKnown, CountriesHold
  <1>7. BuriedIsGone'
    <2>1. a \notin country \cup DOMAIN state
      BY <1>0, LocationsAssumption DEF LocationsTypeOK
    <2> QED
      BY <1>1, <1>2, <2>1 DEF LocationsInv, BuriedIsGone
  <1> QED
    BY <1>3, <1>4, <1>5, <1>6, <1>7 DEF LocationsInv

\* A state that is stored for the first time, moved, or seeded.
LEMMA StateStepsKeepInv ==
  ASSUME LocationsInv, NEW s \in State, NEW c \in Country,
         CreateState(s, c) \/ UpdateState(s, c)
  PROVE  LocationsInv'
  <1>0. LocationsTypeOK
    BY DEF LocationsInv
  <1>1. UNCHANGED locating /\ PutState(s, c)
    BY DEF CreateState, UpdateState
  <1>2. locating' \in [LocationCall -> LocationJob] /\ \A q \in LocationCall : Onward(q)
    BY <1>0, <1>1 DEF LocationsTypeOK, Onward
  <1>3. /\ moved \subseteq moved' /\ moved' \subseteq State \cup Area
        /\ s \in DOMAIN state => s \in moved'
        /\ s \notin buried
    BY <1>0 DEF CreateState, UpdateState, Fresh, LocationsTypeOK, LocationsInv, BuriedIsGone
  <1> QED
    BY <1>1, <1>2, <1>3, PutStateKeepsInv

LEMMA SeedStateKeepsInv ==
  ASSUME LocationsInv, NEW call \in LocationCall, NEW s \in State, SeedState(call, s)
  PROVE  LocationsInv'
  <1> DEFINE c   == locating[call].country
             job == [op |-> "seedArea", state |-> s, country |-> c]
  <1>0. LocationsTypeOK
    BY DEF LocationsInv
  <1>1. /\ c \in Country
        /\ locating' = [locating EXCEPT ![call] = job]
        /\ UNCHANGED moved
        /\ \/ Fresh(s, DOMAIN state) /\ PutState(s, c)
           \/ /\ s \in DOMAIN state /\ state[s] = c
              /\ UNCHANGED <<country, state, area, buried, astray>>
    BY <1>0, JobFacts DEF SeedState, LocationsTypeOK
  <1>2. job \in LocationJob
    BY <1>1 DEF LocationJob
  <1>3. CASE Fresh(s, DOMAIN state) /\ PutState(s, c)
    <2>1. /\ locating' \in [LocationCall -> LocationJob]
          /\ \A q \in LocationCall :
               \/ Onward(q)
               \/ locating'[q].op = "seedArea" /\ locating'[q].state = s /\ locating'[q].country = c
      BY <1>0, <1>1, <1>2 DEF LocationsTypeOK, Onward
    <2>2. /\ moved \subseteq moved' /\ moved' \subseteq State \cup Area
          /\ s \notin buried /\ s \notin DOMAIN state
      BY <1>0, <1>1, <1>3 DEF Fresh, LocationsTypeOK
    <2> HIDE DEF c
    <2> QED
      BY <1>1, <1>3, <2>1, <2>2, PutStateKeepsInv
  <1>4. CASE s \in DOMAIN state /\ state[s] = c /\ UNCHANGED <<country, state, area, buried, astray>>
    BY <1>1, <1>2, <1>4, AskKeepsInv
  <1> QED
    BY <1>1, <1>3, <1>4

\* An area that is created, moved or seeded.
LEMMA AreaStepsKeepInv ==
  ASSUME LocationsInv, NEW a \in Area
  PROVE  /\ \A s \in State, c \in Country : UpdateArea(a, s, c) => LocationsInv'
         /\ \A call \in LocationCall : CreateArea(call, a) \/ SeedArea(call, a) => LocationsInv'
  <1>0. LocationsTypeOK
    BY DEF LocationsInv
  <1>1. ASSUME NEW s \in State, NEW c \in Country, UpdateArea(a, s, c) PROVE LocationsInv'
    <2>1. UNCHANGED locating /\ PutArea(a, s, c) /\ a \in moved' /\ a \notin buried
      BY <1>1 DEF UpdateArea, LocationsInv, BuriedIsGone
    <2>2. locating' \in [LocationCall -> LocationJob] /\ \A q \in LocationCall : Onward(q)
      BY <1>0, <2>1 DEF LocationsTypeOK, Onward
    <2>3. moved \subseteq moved' /\ moved' \subseteq State \cup Area
      BY <1>0, <1>1 DEF UpdateArea, LocationsTypeOK
    <2> QED
      BY <2>1, <2>2, <2>3, PutAreaKeepsInv
  <1>2. ASSUME NEW call \in LocationCall, CreateArea(call, a) \/ SeedArea(call, a)
        PROVE  LocationsInv'
    <2> DEFINE s == locating[call].state
               c == locating[call].country
    <2>1. /\ locating[call].op \in {"createArea", "seedArea"}
          /\ PutArea(a, s, c) /\ Answer(call) /\ UNCHANGED moved
      BY <1>2 DEF CreateArea, SeedArea
    <2>2. s \in State /\ c \in Country
      BY <1>0, <2>1, JobFacts DEF LocationsTypeOK
    <2>3. a \notin buried
      BY <1>2 DEF CreateArea, SeedArea, Fresh, LocationsInv, BuriedIsGone
    <2>4. s \in DOMAIN state \cup buried /\ (s \in DOMAIN state => state[s] = c \/ s \in moved)
      BY <2>1 DEF LocationsInv, StatesKnown, CountriesHold
    <2>5. locating' \in [LocationCall -> LocationJob] /\ \A q \in LocationCall : Onward(q)
      BY <1>0, <2>1, AnswerFacts
    <2>6. moved \subseteq moved' /\ moved' \subseteq State \cup Area
      BY <1>0, <2>1 DEF LocationsTypeOK
    <2> HIDE DEF s, c
    <2> QED
      BY <2>1, <2>2, <2>3, <2>4, <2>5, <2>6, PutAreaKeepsInv
  <1> QED
    BY <1>1, <1>2

\* A request that begins, or fails.
LEMMA AsksKeepInv ==
  ASSUME LocationsInv, NEW call \in LocationCall
  PROVE  /\ \A c \in Country : CountStates(call, c) \/ SeedCountry(call, c) => LocationsInv'
         /\ \A s \in State : CountAreas(call, s) => LocationsInv'
         /\ \A s \in State, c \in Country : ReadState(call, s, c) => LocationsInv'
         /\ Refuse(call) => LocationsInv'
  <1>1. ASSUME NEW c \in Country, CountStates(call, c) PROVE LocationsInv'
    <2> DEFINE job == [op |-> "deleteCountry", id |-> c]
    <2>1. job \in LocationJob
      BY DEF LocationJob
    <2> QED
      BY <1>1, <2>1, AskKeepsInv DEF CountStates, Ask
  <1>2. ASSUME NEW c \in Country, SeedCountry(call, c) PROVE LocationsInv'
    <2> DEFINE job == [op |-> "seedState", country |-> c]
    <2>1. job \in LocationJob
      BY DEF LocationJob
    <2> QED
      BY <1>2, <2>1, AskKeepsInv DEF SeedCountry, Ask
  <1>3. ASSUME NEW s \in State, CountAreas(call, s) PROVE LocationsInv'
    <2> DEFINE job == [op |-> "deleteState", id |-> s]
    <2>1. job \in LocationJob
      BY DEF LocationJob
    <2> QED
      BY <1>3, <2>1, AskKeepsInv DEF CountAreas, Ask
  <1>4. ASSUME NEW s \in State, NEW c \in Country, ReadState(call, s, c) PROVE LocationsInv'
    <2> DEFINE job == [op |-> "createArea", state |-> s, country |-> c]
    <2>1. job \in LocationJob
      BY DEF LocationJob
    <2> QED
      BY <1>4, <2>1, AskKeepsInv DEF ReadState, Ask
  <1>5. ASSUME Refuse(call) PROVE LocationsInv'
    BY <1>5, JobFacts, AskKeepsInv DEF Refuse, Answer
  <1> QED
    BY <1>1, <1>2, <1>3, <1>4, <1>5

LEMMA LocationsNextKeepsInv ==
  ASSUME LocationsInv, [LocationRequest \/ LocationStep]_locationVars
  PROVE  LocationsInv'
  <1>1. CASE LocationRequest
    <2>1. ASSUME NEW c \in Country, CreateCountry(c) PROVE LocationsInv'
      BY <2>1, CreateCountryKeepsInv
    <2>2. ASSUME NEW s \in State, NEW c \in Country, CreateState(s, c) \/ UpdateState(s, c)
          PROVE  LocationsInv'
      BY <2>2, StateStepsKeepInv
    <2>3. ASSUME NEW a \in Area, DeleteArea(a) PROVE LocationsInv'
      BY <2>3, DeleteAreaKeepsInv
    <2> QED
      BY <1>1, <2>1, <2>2, <2>3, AreaStepsKeepInv, AsksKeepInv DEF LocationRequest
  <1>2. CASE LocationStep
    <2>1. PICK call \in LocationCall :
            \/ \E c \in Country : SeedCountry(call, c)
            \/ \E s \in State : SeedState(call, s)
            \/ \E a \in Area : CreateArea(call, a) \/ SeedArea(call, a)
            \/ DeleteCountry(call) \/ DeleteState(call)
            \/ locating[call] # NoRequest /\ Refuse(call)
      BY <1>2 DEF LocationStep
    <2>2. ASSUME NEW s \in State, SeedState(call, s) PROVE LocationsInv'
      BY <2>2, SeedStateKeepsInv
    <2>3. ASSUME DeleteCountry(call) \/ DeleteState(call) PROVE LocationsInv'
      BY <2>3, DeleteCountryKeepsInv, DeleteStateKeepsInv
    <2> QED
      BY <2>1, <2>2, <2>3, AreaStepsKeepInv, AsksKeepInv
  <1>3. CASE UNCHANGED locationVars
    <2>1. UNCHANGED <<country, state, area, locating, buried, moved, astray>>
      BY <1>3 DEF locationVars
    <2>2. LocationsTypeOK'
      BY <2>1 DEF LocationsInv, LocationsTypeOK
    <2>3. OrphansCameLate' /\ MisplacedOnlyByMoves' /\ BuriedIsGone'
      BY <2>1 DEF LocationsInv, OrphansCameLate, MisplacedOnlyByMoves, BuriedIsGone
    <2>4. CountsHold' /\ StatesKnown' /\ CountriesHold'
      BY <2>1 DEF LocationsInv, CountsHold, StatesKnown, CountriesHold
    <2> QED
      BY <2>2, <2>3, <2>4 DEF LocationsInv
  <1> QED
    BY <1>1, <1>2, <1>3

-----------------------------------------------------------------------------
(* The catalogue *)

Toggle == [pc : {"toggle"}, id : Item, seen : BOOLEAN]

LEMMA ToggleFacts == \A t \in Toggle : t # NoToggle /\ t.id \in Item /\ t.seen \in BOOLEAN
  BY DEF Toggle, NoToggle

LEMMA CatalogueInitInv == CatalogueInit => CatalogueInv
  <1> SUFFICES ASSUME CatalogueInit PROVE CatalogueInv
    OBVIOUS
  <1>1. DOMAIN item = {} /\ item \in [{} -> ItemType]
    BY DEF CatalogueInit
  <1>2. CatalogueTypeOK
    BY <1>1 DEF CatalogueInit, CatalogueTypeOK
  <1>3. CopiesWereOffered /\ FreshToggles /\ TogglesKnown
    BY <1>1 DEF CatalogueInit, CopiesWereOffered, Offers, FreshToggles, TogglesKnown
  <1> QED
    BY <1>2, <1>3 DEF CatalogueInv

LEMMA ChangeKeepsInv ==
  ASSUME CatalogueInv, NEW items, items \in [DOMAIN items -> ItemType],
         DOMAIN items \subseteq Item \ withdrawn, NEW c \in SUBSET CatalogueCall,
         Change(items, c)
  PROVE  CatalogueInv'
  <1>0. CatalogueTypeOK
    BY DEF CatalogueInv
  <1>1. /\ item' = items /\ offered' = offered \cup Offers(items)
        /\ withdrawn' = withdrawn \cup (DOMAIN item \ DOMAIN items)
        /\ UNCHANGED request
    BY DEF Change
  <1>2. /\ toggling' \in [CatalogueCall -> {NoToggle} \cup Toggle]
        /\ \A d \in CatalogueCall : toggling'[d] # NoToggle => d \notin c /\ toggling'[d] = toggling[d]
    BY <1>0 DEF Change, CatalogueTypeOK, Toggle
  <1>3. /\ stale' \subseteq CatalogueCall
        /\ \A d \in CatalogueCall \ c :
             \/ d \in stale
             \/ /\ toggling[d] # NoToggle /\ toggling[d].id \in DOMAIN items
                /\ items[toggling[d].id].active # item[toggling[d].id].active
             => d \in stale'
    BY DEF Change
  <1>4. CatalogueTypeOK'
    <2>1. offered' \subseteq Item \X Price
      BY <1>0, <1>1 DEF CatalogueTypeOK, Offers
    <2> QED
      BY <1>0, <1>1, <1>2, <1>3, <2>1 DEF CatalogueTypeOK, Toggle
  <1>5. CopiesWereOffered'
    <2>1. Offers(item') \subseteq offered'
      BY <1>1
    <2> QED
      BY <1>1, <2>1 DEF CatalogueInv, CopiesWereOffered, Offers
  <1>6. TogglesKnown'
    BY <1>1, <1>2 DEF CatalogueInv, TogglesKnown
  <1>7. FreshToggles'
    <2> SUFFICES ASSUME NEW d \in CatalogueCall \ stale', toggling'[d] # NoToggle,
                        toggling'[d].id \in DOMAIN items
                 PROVE  items[toggling'[d].id].active = toggling'[d].seen
      BY <1>1 DEF FreshToggles
    <2>1. d \notin c /\ toggling'[d] = toggling[d]
      BY <1>2
    <2>2. d \notin stale /\ items[toggling[d].id].active = item[toggling[d].id].active
      BY <1>3, <2>1
    <2>3. toggling[d].id \in DOMAIN item
      BY <2>1 DEF CatalogueInv, TogglesKnown
    <2> QED
      BY <2>1, <2>2, <2>3 DEF CatalogueInv, FreshToggles
  <1> QED
    BY <1>4, <1>5, <1>6, <1>7 DEF CatalogueInv

\* An item is created, changed, deleted or toggled.
LEMMA ItemStepsKeepInv ==
  ASSUME CatalogueInv
  PROVE  /\ \A i \in Item, points \in Price :
              CreateItem(i, points) \/ UpdateItem(i, points) \/ SeedItem(i, points) => CatalogueInv'
         /\ \A i \in Item : DeleteItem(i) => CatalogueInv'
         /\ \A c \in CatalogueCall : ToggleItem(c) \/ DropToggle(c) => CatalogueInv'
  <1>0. /\ DOMAIN item \subseteq Item \ withdrawn /\ item \in [DOMAIN item -> ItemType]
        /\ \A i \in DOMAIN item : item[i].points \in Price /\ item[i].active \in BOOLEAN
    BY DEF CatalogueInv, CatalogueTypeOK, ItemType
  <1>1. ASSUME NEW i \in Item, NEW points \in Price, CreateItem(i, points) PROVE CatalogueInv'
    <2> DEFINE items == With(i, [points |-> points, active |-> TRUE])
    <2>1. [points |-> points, active |-> TRUE] \in ItemType
      BY DEF ItemType
    <2>2. DOMAIN items = DOMAIN item \cup {i} /\ items \in [DOMAIN item \cup {i} -> ItemType]
      BY <1>0, <2>1 DEF With
    <2>3. DOMAIN items \subseteq Item \ withdrawn
      BY <1>0, <1>1, <2>2 DEF CreateItem
    <2>4. Change(items, {})
      BY <1>1 DEF CreateItem
    <2> HIDE DEF items
    <2> QED
      BY <2>2, <2>3, <2>4, ChangeKeepsInv
  <1>2. ASSUME NEW i \in Item, NEW points \in Price, UpdateItem(i, points) \/ SeedItem(i, points)
        PROVE  CatalogueInv'
    <2>1. PICK doc \in ItemType : Change([item EXCEPT ![i] = doc], {}) /\ i \in DOMAIN item
      <3>1. CASE UpdateItem(i, points)
        <4>1. [item[i] EXCEPT !.points = points] \in ItemType
          BY <1>0, <3>1 DEF UpdateItem, ItemType
        <4>2. Change([item EXCEPT ![i] = [item[i] EXCEPT !.points = points]], {})
          BY <3>1 DEF UpdateItem
        <4> QED
          BY <3>1, <4>1, <4>2 DEF UpdateItem
      <3>2. CASE SeedItem(i, points)
        <4>1. [points |-> points, active |-> TRUE] \in ItemType
          BY DEF ItemType
        <4> QED
          BY <3>2, <4>1 DEF SeedItem
      <3> QED
        BY <1>2, <3>1, <3>2
    <2> DEFINE items == [item EXCEPT ![i] = doc]
    <2>2. DOMAIN items = DOMAIN item /\ items \in [DOMAIN item -> ItemType]
      BY <1>0
    <2>3. Change(items, {})
      BY <2>1
    <2> HIDE DEF items
    <2> QED
      BY <1>0, <2>2, <2>3, ChangeKeepsInv
  <1>3. ASSUME NEW i \in Item, DeleteItem(i) PROVE CatalogueInv'
    <2> DEFINE items == [j \in DOMAIN item \ {i} |-> item[j]]
    <2>1. DOMAIN items \subseteq DOMAIN item /\ items \in [DOMAIN items -> ItemType]
      BY <1>0
    <2>2. Change(items, {})
      BY <1>3 DEF DeleteItem
    <2> HIDE DEF items
    <2> QED
      BY <1>0, <2>1, <2>2, ChangeKeepsInv
  <1>4. ASSUME NEW c \in CatalogueCall, ToggleItem(c) PROVE CatalogueInv'
    <2> DEFINE i     == toggling[c].id
               items == [item EXCEPT ![i].active = Flipped(toggling[c].seen)]
    <2>1. i \in DOMAIN item /\ Change(items, {c})
      BY <1>4 DEF ToggleItem
    <2>2. Flipped(toggling[c].seen) \in BOOLEAN
      BY DEF Flipped
    <2>3. [item[i] EXCEPT !.active = Flipped(toggling[c].seen)] \in ItemType
      BY <1>0, <2>1, <2>2 DEF ItemType
    <2>4. DOMAIN items = DOMAIN item /\ items \in [DOMAIN item -> ItemType]
      BY <1>0, <2>3
    <2> HIDE DEF items
    <2> QED
      BY <1>0, <2>1, <2>4, ChangeKeepsInv
  <1>5. ASSUME NEW c \in CatalogueCall, DropToggle(c) PROVE CatalogueInv'
    BY <1>0, <1>5, ChangeKeepsInv DEF DropToggle
  <1> QED
    BY <1>1, <1>2, <1>3, <1>4, <1>5

LEMMA BeginToggleKeepsInv ==
  ASSUME CatalogueInv, NEW c \in CatalogueCall, NEW i \in Item, BeginToggleItem(c, i)
  PROVE  CatalogueInv'
  <1>0. CatalogueTypeOK
    BY DEF CatalogueInv
  <1> DEFINE job == [pc |-> "toggle", id |-> i, seen |-> item[i].active]
  <1>1. /\ i \in DOMAIN item /\ toggling' = [toggling EXCEPT ![c] = job]
        /\ UNCHANGED <<item, request, offered, withdrawn, stale>>
    BY DEF BeginToggleItem
  <1>2. job \in Toggle
    BY <1>0, <1>1 DEF CatalogueTypeOK, ItemType, Toggle
  <1>3. toggling'[c] = job /\ \A d \in CatalogueCall \ {c} : toggling'[d] = toggling[d]
    BY <1>0, <1>1 DEF CatalogueTypeOK
  <1>4. CatalogueTypeOK'
    BY <1>0, <1>1, <1>2 DEF CatalogueTypeOK, Toggle
  <1>5. CopiesWereOffered'
    BY <1>1 DEF CatalogueInv, CopiesWereOffered, Offers
  <1>6. FreshToggles'
    BY <1>1, <1>3 DEF CatalogueInv, FreshToggles
  <1>7. TogglesKnown'
    BY <1>1, <1>3 DEF CatalogueInv, TogglesKnown
  <1> QED
    BY <1>4, <1>5, <1>6, <1>7 DEF CatalogueInv

LEMMA DepositStepsKeepInv ==
  ASSUME CatalogueInv, NEW d \in Request,
         \/ CreateDeposit(d) \/ DropDeposit(d)
         \/ \E i \in Item : BeginDeposit(d, i)
  PROVE  CatalogueInv'
  <1>0. CatalogueTypeOK
    BY DEF CatalogueInv
  <1>1. UNCHANGED <<item, toggling, offered, withdrawn, stale>>
    BY DEF CreateDeposit, DropDeposit, BeginDeposit
  <1>2. FreshToggles' /\ TogglesKnown'
    BY <1>1 DEF CatalogueInv, FreshToggles, TogglesKnown
  <1>3. PICK job \in {NotMade} \cup [pc : {"copy", "stored"}, item : Item, points : Price] :
          /\ request' = [request EXCEPT ![d] = job]
          /\ job # NotMade => <<job.item, job.points>> \in offered
    <2>1. CASE \E i \in Item : BeginDeposit(d, i)
      <3>1. PICK i \in Item : BeginDeposit(d, i)
        BY <2>1
      <3> DEFINE job == [pc |-> "copy", item |-> i, points |-> item[i].points]
      <3>2. i \in DOMAIN item /\ item[i].active /\ request' = [request EXCEPT ![d] = job]
        BY <3>1 DEF BeginDeposit, Orderable
      <3>3. item[i] \in ItemType
        BY <1>0, <3>2 DEF CatalogueTypeOK
      <3>4. item[i].points \in Price /\ item[i] = [points |-> item[i].points, active |-> TRUE]
        BY <3>2, <3>3 DEF ItemType
      <3>5. <<i, item[i].points>> \in offered
        BY <3>2, <3>4 DEF CatalogueInv, CopiesWereOffered, Offers
      <3>6. /\ job \in [pc : {"copy", "stored"}, item : Item, points : Price]
            /\ <<job.item, job.points>> \in offered
        BY <3>4, <3>5
      <3> HIDE DEF job
      <3> QED
        BY <3>2, <3>6
    <2>2. CASE CreateDeposit(d)
      <3> DEFINE job == [request[d] EXCEPT !.pc = "stored"]
      <3>1. request[d].pc = "copy" /\ request' = [request EXCEPT ![d] = job]
        BY <2>2 DEF CreateDeposit
      <3>2. request[d] # NotMade
        BY <3>1 DEF NotMade
      <3>3. request[d] \in [pc : {"copy", "stored"}, item : Item, points : Price]
        BY <1>0, <3>2 DEF CatalogueTypeOK
      <3>4. /\ job \in [pc : {"copy", "stored"}, item : Item, points : Price]
            /\ job.item = request[d].item /\ job.points = request[d].points
        BY <3>3
      <3>5. <<job.item, job.points>> \in offered
        BY <3>2, <3>4 DEF CatalogueInv, CopiesWereOffered
      <3> HIDE DEF job
      <3> QED
        BY <3>1, <3>4, <3>5
    <2>3. CASE DropDeposit(d)
      BY <2>3 DEF DropDeposit
    <2> QED
      BY <2>1, <2>2, <2>3
  <1>4. CatalogueTypeOK'
    BY <1>0, <1>1, <1>3 DEF CatalogueTypeOK
  <1>5. CopiesWereOffered'
    <2>1. Offers(item') \subseteq offered'
      BY <1>1 DEF CatalogueInv, CopiesWereOffered
    <2>2. \A e \in Request : request'[e] # NotMade =>
            <<request'[e].item, request'[e].points>> \in offered
      BY <1>0, <1>3 DEF CatalogueInv, CopiesWereOffered, CatalogueTypeOK
    <2> QED
      BY <1>1, <2>1, <2>2 DEF CopiesWereOffered, Offers, NotMade
  <1> QED
    BY <1>2, <1>4, <1>5 DEF CatalogueInv

LEMMA CatalogueNextKeepsInv ==
  ASSUME CatalogueInv, [ItemRequest \/ CatalogueStep]_catalogueVars
  PROVE  CatalogueInv'
  <1>1. CASE ItemRequest
    BY <1>1, ItemStepsKeepInv, BeginToggleKeepsInv DEF ItemRequest
  <1>2. CASE CatalogueStep
    BY <1>2, ItemStepsKeepInv, DepositStepsKeepInv DEF CatalogueStep
  <1>3. CASE UNCHANGED catalogueVars
    <2>1. UNCHANGED <<item, toggling, request, offered, withdrawn, stale>>
      BY <1>3 DEF catalogueVars
    <2>2. CatalogueTypeOK' /\ FreshToggles' /\ TogglesKnown'
      BY <2>1 DEF CatalogueInv, CatalogueTypeOK, FreshToggles, TogglesKnown
    <2>3. CopiesWereOffered'
      BY <2>1 DEF CatalogueInv, CopiesWereOffered, Offers, NotMade
    <2> QED
      BY <2>2, <2>3 DEF CatalogueInv
  <1> QED
    BY <1>1, <1>2, <1>3

\* A toggle that is not stale flips the status.
LEMMA ToggleStep ==
  ASSUME CatalogueInv, NEW c \in CatalogueCall, ToggleItem(c), c \notin stale
  PROVE  item'[toggling[c].id].active # item[toggling[c].id].active
  <1> DEFINE i == toggling[c].id
  <1>1. /\ toggling[c] # NoToggle /\ i \in DOMAIN item
        /\ item' = [item EXCEPT ![i].active = ~toggling[c].seen]
    BY DEF ToggleItem, Change, Flipped
  <1>2. item[i].active = toggling[c].seen /\ item[i] \in ItemType
    BY <1>1 DEF CatalogueInv, FreshToggles, CatalogueTypeOK
  <1>3. item'[i].active = ~toggling[c].seen
    BY <1>1, <1>2 DEF ItemType
  <1> QED
    BY <1>2, <1>3

-----------------------------------------------------------------------------
(* Registration *)

Drawing == [pc : {"draw", "create"}, email : Email, phone : Phone,
            referrer : SUBSET Account, code : Code \cup {NoCode}, draws : 0..MaxDraws]

LEMMA RegistrationInitInv == RegistrationInit => RegistrationInv
  <1> SUFFICES ASSUME RegistrationInit PROVE RegistrationInv
    OBVIOUS
  <1>1. DOMAIN account = {} /\ account \in [{} -> AccountType]
    BY DEF RegistrationInit
  <1>2. RegistrationTypeOK
    BY <1>1 DEF RegistrationInit, RegistrationTypeOK, RegistrationJob
  <1>3. AccountsUnique /\ CodesUnique /\ DrawsUnique
    BY <1>1 DEF RegistrationInit, AccountsUnique, CodesUnique, DrawsUnique, Open
  <1> QED
    BY <1>2, <1>3 DEF RegistrationInv

\* A request goes on to anything but the creation of its user.
LEMMA ContinueKeepsInv ==
  ASSUME RegistrationInv, NEW r \in Registrant, NEW job \in RegistrationJob,
         Continue(r, job), job.pc # "create", UNCHANGED <<account, sharing>>
  PROVE  RegistrationInv'
  <1>1. /\ registering' \in [Registrant -> RegistrationJob]
        /\ registering'[r] = job /\ \A q \in Registrant \ {r} : registering'[q] = registering[q]
    BY DEF Continue, RegistrationInv, RegistrationTypeOK
  <1>2. RegistrationTypeOK'
    BY <1>1 DEF RegistrationInv, RegistrationTypeOK
  <1>3. AccountsUnique' /\ CodesUnique'
    BY DEF RegistrationInv, AccountsUnique, CodesUnique
  <1>4. DrawsUnique'
    BY <1>1 DEF RegistrationInv, DrawsUnique
  <1> QED
    BY <1>2, <1>3, <1>4 DEF RegistrationInv

LEMMA RegistrationBegins ==
  ASSUME RegistrationInv, NEW r \in Registrant
  PROVE  /\ GiveUp(r) => RegistrationInv'
         /\ \A email \in Email, phone \in Phone, given \in Code \cup {NoCode} :
              BeginRegister(r, email, phone, given) => RegistrationInv'
         /\ \A referrer \in SUBSET Account : FindReferrer(r, referrer) => RegistrationInv'
  <1>0. registering[r] \in RegistrationJob /\ MaxDraws \in Nat
    BY RegistrationAssumption DEF RegistrationInv, RegistrationTypeOK
  <1>1. ASSUME GiveUp(r) PROVE RegistrationInv'
    <2>1. Open \in RegistrationJob /\ Open.pc # "create"
      BY DEF RegistrationJob, Open
    <2> QED
      BY <1>1, <2>1, ContinueKeepsInv DEF GiveUp
  <1>2. ASSUME NEW email \in Email, NEW phone \in Phone, NEW given \in Code \cup {NoCode},
               BeginRegister(r, email, phone, given)
        PROVE  RegistrationInv'
    <2> DEFINE job == [pc |-> "referrer", email |-> email, phone |-> phone, given |-> given]
    <2>1. job \in RegistrationJob /\ job.pc # "create"
      BY DEF RegistrationJob
    <2>2. Continue(r, job) /\ UNCHANGED <<account, sharing>>
      BY <1>2 DEF BeginRegister
    <2> HIDE DEF job
    <2> QED
      BY <2>1, <2>2, ContinueKeepsInv
  <1>3. ASSUME NEW referrer \in SUBSET Account, FindReferrer(r, referrer) PROVE RegistrationInv'
    <2> DEFINE old == registering[r]
               job == [pc |-> "draw", email |-> old.email, phone |-> old.phone,
                       referrer |-> referrer, code |-> NoCode, draws |-> 0]
    <2>1. old.pc = "referrer" /\ Continue(r, job) /\ UNCHANGED <<account, sharing>>
      BY <1>3 DEF FindReferrer
    <2>2. old.email \in Email /\ old.phone \in Phone
      BY <1>0, <2>1 DEF RegistrationJob, Open
    <2>3. job \in RegistrationJob /\ job.pc # "create"
      BY <1>0, <2>2 DEF RegistrationJob
    <2> HIDE DEF job
    <2> QED
      BY <2>1, <2>3, ContinueKeepsInv
  <1> QED
    BY <1>1, <1>2, <1>3

LEMMA DrawingFacts ==
  ASSUME RegistrationTypeOK, NEW r \in Registrant, registering[r].pc \in {"draw", "create"}
  PROVE  registering[r] \in Drawing
  BY DEF RegistrationTypeOK, RegistrationJob, Drawing, Open

LEMMA DrawCodeKeepsInv ==
  ASSUME RegistrationInv, NEW r \in Registrant, NEW code \in Code, DrawCode(r, code)
  PROVE  RegistrationInv'
  <1>0. RegistrationTypeOK /\ MaxDraws \in Nat
    BY RegistrationAssumption DEF RegistrationInv
  <1> DEFINE old == registering[r]
             job == [old EXCEPT !.draws = @ + 1,
                                !.pc    = IF InUse(code) THEN "draw" ELSE "create",
                                !.code  = IF InUse(code) THEN NoCode ELSE code]
  <1>1. /\ old.pc = "draw" /\ old.draws < MaxDraws
        /\ registering' = [registering EXCEPT ![r] = job]
        /\ sharing' = IF \E q \in Registrant \ {r} : /\ registering[q].pc = "create"
                                                     /\ registering[q].code = code
                        THEN sharing \cup {code} ELSE sharing
        /\ UNCHANGED account
    BY DEF DrawCode, Continue, Patient
  <1>2. old \in Drawing
    BY <1>0, <1>1, DrawingFacts
  <1>3. /\ job \in Drawing
        /\ job.pc = IF InUse(code) THEN "draw" ELSE "create"
        /\ ~InUse(code) => job.code = code
    <2>1. old.draws + 1 \in 0..MaxDraws
      BY <1>0, <1>1, <1>2 DEF Drawing
    <2> HIDE DEF old
    <2> QED
      BY <1>2, <2>1 DEF Drawing
  <1>4. /\ registering' \in [Registrant -> RegistrationJob] /\ registering'[r] = job
        /\ \A q \in Registrant \ {r} : registering'[q] = registering[q]
    <2>1. job \in RegistrationJob
      BY <1>3 DEF RegistrationJob, Drawing
    <2> HIDE DEF job
    <2> QED
      BY <1>0, <1>1, <2>1 DEF RegistrationTypeOK
  <1>5. sharing \subseteq sharing' /\ sharing' \subseteq Code
    BY <1>0, <1>1 DEF RegistrationTypeOK
  <1>6. RegistrationTypeOK'
    BY <1>0, <1>1, <1>4, <1>5 DEF RegistrationTypeOK
  <1>7. AccountsUnique' /\ CodesUnique'
    BY <1>1, <1>5 DEF RegistrationInv, AccountsUnique, CodesUnique
  <1>8. DrawsUnique'
    <2> HIDE DEF job
    <2> SUFFICES ASSUME NEW p \in Registrant, registering'[p].pc = "create"
                 PROVE  /\ registering'[p].code \in Code
                        /\ \A q \in Registrant \ {p} :
                             registering'[q].pc = "create"
                               /\ registering'[q].code = registering'[p].code =>
                                 registering'[p].code \in sharing'
                        /\ \A a \in DOMAIN account :
                             account[a].code = registering'[p].code => registering'[p].code \in sharing'
      BY <1>1 DEF DrawsUnique
    <2>1. CASE p = r
      <3>1. ~InUse(code) /\ registering'[p].code = code
        BY <1>3, <1>4, <2>1
      <3>2. \A a \in DOMAIN account : account[a].code # code
        BY <3>1 DEF InUse
      <3>3. ASSUME NEW q \in Registrant \ {p}, registering'[q].pc = "create",
                   registering'[q].code = code
            PROVE  code \in sharing'
        BY <1>1, <1>4, <2>1, <3>3
      <3> QED
        BY <3>1, <3>2, <3>3
    <2>2. CASE p # r
      <3>1. registering'[p] = registering[p]
        BY <1>4, <2>2
      <3>2. /\ registering[p].code \in Code
            /\ \A a \in DOMAIN account :
                 account[a].code = registering[p].code => registering[p].code \in sharing
        BY <3>1 DEF RegistrationInv, DrawsUnique
      <3>3. ASSUME NEW q \in Registrant \ {p}, registering'[q].pc = "create",
                   registering'[q].code = registering[p].code
            PROVE  registering[p].code \in sharing'
        <4>1. CASE q = r
          <5>1. registering'[q].code = code
            BY <1>3, <1>4, <3>3, <4>1
          <5> QED
            BY <1>1, <2>2, <3>1, <3>3, <5>1
        <4>2. CASE q # r
          BY <1>4, <1>5, <3>1, <3>3, <4>2 DEF RegistrationInv, DrawsUnique
        <4> QED
          BY <4>1, <4>2
      <3> QED
        BY <1>5, <3>1, <3>2, <3>3
    <2> QED
      BY <2>1, <2>2
  <1> QED
    BY <1>6, <1>7, <1>8 DEF RegistrationInv

LEMMA CreateUserKeepsInv ==
  ASSUME RegistrationInv, NEW r \in Registrant, NEW a \in Account, CreateUser(r, a)
  PROVE  RegistrationInv'
  <1>0. RegistrationTypeOK
    BY DEF RegistrationInv
  <1> DEFINE job == registering[r]
             row == [email |-> job.email, phone |-> job.phone, code |-> job.code,
                     active |-> TRUE, referrer |-> job.referrer]
  <1>1. /\ job.pc = "create" /\ a \notin DOMAIN account /\ Free(job.email, job.phone)
        /\ account' = [b \in DOMAIN account \cup {a} |-> IF b # a THEN account[b] ELSE row]
        /\ registering' = [registering EXCEPT ![r] = Open]
        /\ UNCHANGED sharing
    BY DEF CreateUser, Continue
  <1>2. job \in Drawing /\ job.code \in Code
    BY <1>0, <1>1, DrawingFacts DEF RegistrationInv, DrawsUnique
  <1>3. /\ row \in AccountType
        /\ row.email = job.email /\ row.phone = job.phone /\ row.code = job.code
    BY <1>2 DEF Drawing, AccountType
  <1> HIDE DEF row
  <1>4. /\ DOMAIN account' = DOMAIN account \cup {a} /\ account'[a] = row
        /\ \A b \in DOMAIN account : account'[b] = account[b]
    BY <1>1
  <1>5. /\ registering' \in [Registrant -> RegistrationJob] /\ registering'[r] = Open
        /\ \A q \in Registrant \ {r} : registering'[q] = registering[q]
    BY <1>0, <1>1 DEF RegistrationTypeOK, RegistrationJob
  <1>6. RegistrationTypeOK'
    <2>1. account' \in [DOMAIN account' -> AccountType]
      BY <1>0, <1>1, <1>3, <1>4 DEF RegistrationTypeOK
    <2> QED
      BY <1>0, <1>1, <1>4, <1>5, <2>1 DEF RegistrationTypeOK
  <1>7. AccountsUnique'
    <2>1. \A b \in DOMAIN account : account[b].email # row.email /\ account[b].phone # row.phone
      BY <1>1, <1>3 DEF Free, Registered
    <2> QED
      BY <1>4, <2>1 DEF RegistrationInv, AccountsUnique
  <1>8. CodesUnique'
    <2>1. \A b \in DOMAIN account : account[b].code = row.code => row.code \in sharing
      BY <1>1, <1>3 DEF RegistrationInv, DrawsUnique
    <2> QED
      BY <1>1, <1>4, <2>1 DEF RegistrationInv, CodesUnique
  <1>9. DrawsUnique'
    <2> SUFFICES ASSUME NEW p \in Registrant, registering'[p].pc = "create"
                 PROVE  /\ registering'[p].code \in Code
                        /\ \A q \in Registrant \ {p} :
                             registering'[q].pc = "create"
                               /\ registering'[q].code = registering'[p].code =>
                                 registering'[p].code \in sharing
                        /\ \A b \in DOMAIN account' :
                             account'[b].code = registering'[p].code => registering'[p].code \in sharing
      BY <1>1 DEF DrawsUnique
    <2>1. p # r /\ registering'[p] = registering[p]
      BY <1>5 DEF Open
    <2>2. \A q \in Registrant : registering'[q].pc = "create" => registering'[q] = registering[q]
      BY <1>5 DEF Open
    <2>3. row.code = registering[p].code => registering[p].code \in sharing
      BY <1>1, <1>3, <2>1 DEF RegistrationInv, DrawsUnique
    <2> QED
      BY <1>4, <2>1, <2>2, <2>3 DEF RegistrationInv, DrawsUnique
  <1> QED
    BY <1>6, <1>7, <1>8, <1>9 DEF RegistrationInv

LEMMA ToggleActiveKeepsInv ==
  ASSUME RegistrationInv, NEW a \in Account, ToggleActive(a)
  PROVE  RegistrationInv'
  <1>0. RegistrationTypeOK
    BY DEF RegistrationInv
  <1>1. /\ a \in DOMAIN account /\ account' = [account EXCEPT ![a].active = ~account[a].active]
        /\ UNCHANGED <<registering, sharing>>
    BY DEF ToggleActive
  <1>2. \A b \in DOMAIN account :
          /\ account[b] \in AccountType /\ account'[b] \in AccountType
          /\ account'[b].email = account[b].email /\ account'[b].phone = account[b].phone
          /\ account'[b].code = account[b].code
    BY <1>0, <1>1 DEF RegistrationTypeOK, AccountType
  <1>3. DOMAIN account' = DOMAIN account /\ account' \in [DOMAIN account -> AccountType]
    BY <1>1, <1>2
  <1>4. RegistrationTypeOK'
    BY <1>0, <1>1, <1>3 DEF RegistrationTypeOK
  <1>5. AccountsUnique' /\ CodesUnique' /\ DrawsUnique'
    BY <1>1, <1>2, <1>3 DEF RegistrationInv, AccountsUnique, CodesUnique, DrawsUnique
  <1> QED
    BY <1>4, <1>5 DEF RegistrationInv

LEMMA RegistrationNextKeepsInv ==
  ASSUME RegistrationInv, [RegistrationNext]_registrationVars
  PROVE  RegistrationInv'
  <1>1. CASE RegistrationNext
    <2>1. ASSUME NEW r \in Registrant,
                 \/ GiveUp(r)
                 \/ \E email \in Email, phone \in Phone, given \in Code \cup {NoCode} :
                      BeginRegister(r, email, phone, given)
                 \/ FindReferrer(r, Nobody) \/ \E a \in Account : FindReferrer(r, {a})
          PROVE  RegistrationInv'
      <3>1. Nobody \in SUBSET Account /\ \A a \in Account : {a} \in SUBSET Account
        BY DEF Nobody
      <3> QED
        BY <2>1, <3>1, RegistrationBegins
    <2> QED
      BY <1>1, <2>1, DrawCodeKeepsInv, CreateUserKeepsInv, ToggleActiveKeepsInv DEF RegistrationNext
  <1>2. CASE UNCHANGED registrationVars
    <2>1. UNCHANGED <<account, registering, sharing>>
      BY <1>2 DEF registrationVars
    <2> QED
      BY <2>1 DEF RegistrationInv, RegistrationTypeOK, AccountsUnique, CodesUnique, DrawsUnique
  <1> QED
    BY <1>1, <1>2

-----------------------------------------------------------------------------
(* The inbox *)

InboxSteps == InboxNext \/ \E to \in SUBSET Reader : Broadcast(to)

NoteType == [user : Reader, readAt : 0..MaxReads, broadcast : BOOLEAN]

LEMMA InboxInitInv == InboxInit => InboxTypeOK
  <1> SUFFICES ASSUME InboxInit PROVE InboxTypeOK
    OBVIOUS
  <1>1. DOMAIN note = {} /\ note \in [{} -> NoteType]
    BY DEF InboxInit
  <1> QED
    BY <1>1, InboxAssumption DEF InboxInit, InboxTypeOK, NoteType

\* What a step of the inbox does to the notifications.
LEMMA NoteStep ==
  ASSUME InboxTypeOK, InboxSteps
  PROVE  /\ note' \in [DOMAIN note' -> [user : Reader, readAt : 0..MaxReads, broadcast : BOOLEAN]]
         /\ DOMAIN note' \subseteq Note /\ DOMAIN note \subseteq DOMAIN note'
         /\ \A n \in DOMAIN note :
              \/ note'[n] = note[n]
              \/ note[n].readAt = 0 /\ note'[n] = [note[n] EXCEPT !.readAt = reads']
  <1>0. /\ note \in [DOMAIN note -> NoteType] /\ DOMAIN note \subseteq Note
        /\ reads \in 0..MaxReads /\ MaxReads \in Nat
    BY InboxAssumption DEF InboxTypeOK, NoteType
  <1>1. ASSUME NEW n \in Note, NEW u \in Reader, NEW broadcast \in BOOLEAN, Stored(n, u, broadcast)
        PROVE  /\ note' \in [DOMAIN note' -> NoteType]
               /\ DOMAIN note' \subseteq Note /\ DOMAIN note \subseteq DOMAIN note'
               /\ \A m \in DOMAIN note : note'[m] = note[m]
    <2> DEFINE doc == [user |-> u, readAt |-> 0, broadcast |-> broadcast]
    <2>1. doc \in NoteType
      BY <1>0 DEF NoteType
    <2>2. /\ n \notin DOMAIN note
          /\ note' = [m \in DOMAIN note \cup {n} |-> IF m = n THEN doc ELSE note[m]]
      BY <1>1 DEF Stored
    <2> HIDE DEF doc
    <2>3. DOMAIN note' = DOMAIN note \cup {n} /\ \A m \in DOMAIN note : note'[m] = note[m]
      BY <2>2
    <2>4. note' \in [DOMAIN note' -> NoteType]
      BY <1>0, <2>1, <2>2, <2>3
    <2> QED
      BY <1>0, <2>3, <2>4
  <1>2. ASSUME NEW u \in Reader, NEW ids, Mark(u, ids)
        PROVE  /\ note' \in [DOMAIN note' -> NoteType]
               /\ DOMAIN note' \subseteq Note /\ DOMAIN note \subseteq DOMAIN note'
               /\ \A n \in DOMAIN note :
                    \/ note'[n] = note[n]
                    \/ note[n].readAt = 0 /\ note'[n] = [note[n] EXCEPT !.readAt = reads']
    <2>1. reads' \in 0..MaxReads
      BY <1>0, <1>2 DEF Mark
    <2>2. \A n \in DOMAIN note : [note[n] EXCEPT !.readAt = reads'] \in NoteType
      BY <1>0, <2>1 DEF NoteType
    <2>3. note' = [n \in DOMAIN note |->
                     IF n \in Unread(u) \cap ids THEN [note[n] EXCEPT !.readAt = reads'] ELSE note[n]]
      BY <1>2 DEF Mark
    <2>4. DOMAIN note' = DOMAIN note /\ note' \in [DOMAIN note' -> NoteType]
      BY <1>0, <2>2, <2>3
    <2>5. \A n \in DOMAIN note :
            \/ note'[n] = note[n]
            \/ note[n].readAt = 0 /\ note'[n] = [note[n] EXCEPT !.readAt = reads']
      BY <2>3 DEF Unread
    <2> QED
      BY <1>0, <2>4, <2>5
  <1>3. CASE UNCHANGED note
    BY <1>0, <1>3 DEF NoteType
  <1>4. ASSUME NEW u \in Reader, NEW n \in Note, NotifyUserSafely(n, u) \/ BroadcastTo(n, u)
        PROVE  UNCHANGED note \/ \E broadcast \in BOOLEAN : Stored(n, u, broadcast)
    BY <1>4 DEF NotifyUserSafely, BroadcastTo
  <1>5. ASSUME NEW u, NEW to, ToggleReader(u) \/ Broadcast(to) PROVE UNCHANGED note
    BY <1>5 DEF ToggleReader, Broadcast
  <1> HIDE DEF NoteType
  <1>6. /\ note' \in [DOMAIN note' -> NoteType]
        /\ DOMAIN note' \subseteq Note /\ DOMAIN note \subseteq DOMAIN note'
        /\ \A n \in DOMAIN note :
             \/ note'[n] = note[n]
             \/ note[n].readAt = 0 /\ note'[n] = [note[n] EXCEPT !.readAt = reads']
    <2>1. CASE \E to \in SUBSET Reader : Broadcast(to)
      BY <1>3, <1>5, <2>1 DEF NoteType
    <2>2. CASE InboxNext
      <3>1. PICK u \in Reader :
              \/ ToggleReader(u)
              \/ Mark(u, Note)
              \/ \E n \in Note : NotifyUserSafely(n, u) \/ BroadcastTo(n, u) \/ Mark(u, {n})
        BY <2>2 DEF InboxNext
      <3>2. CASE ToggleReader(u)
        BY <1>3, <1>5, <3>2 DEF NoteType
      <3>3. CASE Mark(u, Note)
        BY <1>2, <3>3
      <3>4. CASE \E n \in Note : NotifyUserSafely(n, u) \/ BroadcastTo(n, u) \/ Mark(u, {n})
        <4>1. PICK n \in Note : NotifyUserSafely(n, u) \/ BroadcastTo(n, u) \/ Mark(u, {n})
          BY <3>4
        <4>2. CASE Mark(u, {n})
          BY <1>2, <4>2
        <4>3. CASE UNCHANGED note
          BY <1>3, <4>3 DEF NoteType
        <4>4. CASE \E broadcast \in BOOLEAN : Stored(n, u, broadcast)
          BY <1>1, <4>4
        <4> QED
          BY <1>4, <4>1, <4>2, <4>3, <4>4
      <3> QED
        BY <3>1, <3>2, <3>3, <3>4
    <2> QED
      BY <2>1, <2>2 DEF InboxSteps
  <1> QED
    BY <1>6 DEF NoteType

LEMMA InboxStepKeepsInv ==
  ASSUME InboxTypeOK, [InboxSteps]_inboxVars
  PROVE  InboxTypeOK'
  <1>1. CASE InboxSteps
    <2>1. /\ note' \in [DOMAIN note' -> [user : Reader, readAt : 0..MaxReads, broadcast : BOOLEAN]]
          /\ DOMAIN note' \subseteq Note
      BY <1>1, NoteStep
    <2> DEFINE Rest == /\ reachable' \subseteq Reader
                       /\ sending' \subseteq audience' /\ audience' \subseteq Reader
                       /\ reads' \in 0..MaxReads
    <2>2. Rest
      <3>1. ASSUME NEW u \in Reader, ToggleReader(u) PROVE Rest
        BY <3>1 DEF ToggleReader, InboxTypeOK
      <3>2. ASSUME NEW u \in Reader, NEW ids, Mark(u, ids) PROVE Rest
        BY <3>2, InboxAssumption DEF Mark, InboxTypeOK
      <3>3. ASSUME NEW u \in Reader, NEW n \in Note, NotifyUserSafely(n, u) \/ BroadcastTo(n, u)
            PROVE  Rest
        BY <3>3 DEF NotifyUserSafely, BroadcastTo, InboxTypeOK
      <3>4. ASSUME NEW to, Broadcast(to) PROVE Rest
        BY <3>4 DEF Broadcast, InboxTypeOK
      <3> HIDE DEF Rest
      <3> QED
        BY <1>1, <3>1, <3>2, <3>3, <3>4 DEF InboxSteps, InboxNext
    <2> QED
      BY <2>1, <2>2 DEF InboxTypeOK
  <1>2. CASE UNCHANGED inboxVars
    BY <1>2 DEF inboxVars, InboxTypeOK
  <1> QED
    BY <1>1, <1>2

-----------------------------------------------------------------------------
(* The parts together *)

LEMMA PartSteps ==
  ASSUME [Next]_vars
  PROVE  /\ [AdminsNext]_adminVars
         /\ [LocationRequest \/ LocationStep]_locationVars
         /\ [ItemRequest \/ CatalogueStep]_catalogueVars
         /\ [RegistrationNext]_registrationVars
         /\ [InboxSteps]_inboxVars
  BY DEF vars, Next, AdminsPart, LocationsPart, CataloguePart, RegistrationPart, InboxPart,
         InboxSteps

LEMMA DirectoryInitInv == Init => DirectoryInv
  BY AdminsInitInv, LocationsInitInv, CatalogueInitInv, RegistrationInitInv, InboxInitInv
     DEF Init, DirectoryInv

LEMMA DirectoryNextKeepsInv == DirectoryInv /\ [Next]_vars => DirectoryInv'
  BY PartSteps, AdminsNextKeepsInv, LocationsNextKeepsInv, CatalogueNextKeepsInv,
     RegistrationNextKeepsInv, InboxStepKeepsInv
     DEF DirectoryInv

\* What is stored has its type, names and addresses are unique, and every
\* request in flight knows what its check has read or what overtook it.
THEOREM DirectoryInvariant == Spec => []DirectoryInv
  <1> QED
    BY DirectoryInitInv, DirectoryNextKeepsInv, PTL DEF Spec

\* A state without its country, or an area without its state, was put there
\* when its parent was gone or about to be deleted (deleteCountry, deleteState).
THEOREM OrphansCameAfterTheCount == Spec => []OrphansCameLate
  <1>1. DirectoryInv => OrphansCameLate
    BY DEF DirectoryInv, LocationsInv
  <1> QED
    BY <1>1, DirectoryInvariant, PTL

\* The country of an area is that of its state, but for what an update moved.
THEOREM AreasAreInTheirCountry == Spec => []MisplacedOnlyByMoves
  <1>1. DirectoryInv => MisplacedOnlyByMoves
    BY DEF DirectoryInv, LocationsInv
  <1> QED
    BY <1>1, DirectoryInvariant, PTL

\* A deposit stores points its item was offered for (DepositsService.create).
THEOREM SnapshotsWereOffered == Spec => []SnapshotWasOffered
  <1>1. DirectoryInv => SnapshotWasOffered
    <2> SUFFICES ASSUME DirectoryInv, NEW d \in Request, request[d].pc = "stored"
                 PROVE  <<request[d].item, request[d].points>> \in offered
      BY DEF SnapshotWasOffered
    <2>1. request[d] # NotMade
      BY DEF NotMade
    <2> QED
      BY <2>1 DEF DirectoryInv, CatalogueInv, CopiesWereOffered
  <1> QED
    BY <1>1, DirectoryInvariant, PTL

\* A referral code means one user, unless requests that overlapped drew it.
THEOREM ReferralCodesUnique == Spec => []CodesUnique
  <1>1. DirectoryInv => CodesUnique
    BY DEF DirectoryInv, RegistrationInv
  <1> QED
    BY <1>1, DirectoryInvariant, PTL

\* The last admin who manages admins falls by his own update, or by the request
\* of an actor who had lost the permission since his request was admitted.
THEOREM ManagersFallByOverlap == Spec => LastManagerFallsByOverlap
  <1>1. DirectoryInv /\ [Next]_vars =>
          [Managers(admin) # {} /\ Managers(admin') = {} =>
             \E c \in AdminCall :
               \/ c \in fallen
               \/ managing[c].op = "update" /\ managing[c].actor = managing[c].id]_admin
    BY PartSteps, ManagersStep DEF DirectoryInv
  <1> QED
    BY <1>1, DirectoryInvariant, PTL DEF Spec, LastManagerFallsByOverlap

\* A toggle of an item flips its status, unless another request changed the
\* status after the toggle had read it (ItemsService.toggleStatus).
THEOREM ItemTogglesFlip == Spec => TogglesFlip
  <1>1. DirectoryInv /\ [Next]_vars =>
          [\A c \in CatalogueCall : ToggleItem(c) /\ c \notin stale =>
             item'[toggling[c].id].active # item[toggling[c].id].active]_<<item, toggling>>
    BY ToggleStep DEF DirectoryInv
  <1> QED
    BY <1>1, DirectoryInvariant, PTL DEF Spec, TogglesFlip

\* The time a notification was first read stands (markRead, markAllRead).
THEOREM FirstReadsStand == Spec => FirstReadStands
  <1>1. DirectoryInv /\ [Next]_vars =>
          [\A n \in DOMAIN note :
             \/ note'[n] = note[n]
             \/ note[n].readAt = 0 /\ note'[n] = [note[n] EXCEPT !.readAt = reads']]_note
    <2> SUFFICES ASSUME DirectoryInv, [Next]_vars, note' # note, NEW n \in DOMAIN note
                 PROVE  \/ note'[n] = note[n]
                        \/ note[n].readAt = 0 /\ note'[n] = [note[n] EXCEPT !.readAt = reads']
      OBVIOUS
    <2>1. InboxSteps
      BY PartSteps DEF inboxVars
    <2> QED
      BY <2>1, NoteStep DEF DirectoryInv
  <1> QED
    BY <1>1, DirectoryInvariant, PTL DEF Spec, FirstReadStands
=============================================================================
