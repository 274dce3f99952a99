---------------------------- MODULE Accounts_proof ----------------------------
(***************************************************************************)
(* Theorems of Accounts, for any number of commands, users and persons,    *)
(* and whatever the fields of a command say.                               *)
(*                                                                         *)
(* No username ever becomes an administrator's, and a password command     *)
(* only goes on with a user who is none: found by the identifier of the    *)
(* command, or with a username that is not held by an administrator. The   *)
(* invariant says where each handler stands with the command it received,  *)
(* while others race with it, answers are lost, power fails and the        *)
(* register is rewritten without a lock.                                   *)
(***************************************************************************)
EXTENDS Accounts, TLAPS

Pc == {"idle", "done", "reply", "fail", "auth", "poll", "credentials", "person",
       "readRegister", "open", "sync", "replace", "delPerson", "delUser", "lookUp",
       "delFound", "untrack", "list", "delCredentials", "recreate", "states", "readIds",
       "whoExists", "rename", "renamePerson"}

(* A username that is not an administrator's, with the usernames as in l. *)
NotHeld(n, l) == n = None \/ l[n] \notin Admin

HaTyped ==
    /\ users \subseteq issued /\ issued \subseteq User /\ persons \subseteq Person
    /\ name \in [User -> Login \union {None}] /\ login \in [Login -> User \union {None}]
    /\ attr \in [Person -> User \union Person \union {None}]
    /\ Admin \subseteq issued

Shared == register \in SUBSET Entry

File == (SUBSET Entry) \union {Torn}
Order == [op : Command \union {None}, arg : Request]

Locals ==
    /\ pc \in [Handler -> Pc]
    /\ cmd \in [Handler -> Order]
    /\ mine \in [Handler -> Local]
    /\ temp \in [Handler -> File]

(* A handler at p, with the command c, the variables m and the temporary file t: which
   command it is in; *)
Course(p, c) ==
    /\ p \in {"auth", "poll", "credentials", "person", "readRegister"} => c.op = "create"
    /\ p \in {"delPerson", "delUser", "lookUp", "delFound", "untrack"} => c.op = "delete"
    /\ p \in {"list", "delCredentials", "recreate"} => c.op = "password"
    /\ p \in {"states", "readIds", "whoExists"} => c.op = "fetch"
    /\ p \in {"rename", "renamePerson"} => c.op = "update"
    /\ p \in {"open", "sync", "replace"} => c.op \in {"create", "delete"}

(* what it names, and what it has learnt; *)
Hands(p, c, m, l) ==
    /\ c.op = "create" => c.arg.username # None
    /\ m.seen # {} => \A r \in m.list : r.auth \in m.seen \union {None}
    /\ p = "delCredentials" => m.user = c.arg.auth \/ NotHeld(c.arg.username, l)

(* what it has made so far, and whom it is about to change. *)
Work(p, c, m, t) ==
    /\ c.op = "create" /\ p \in {"readRegister", "open", "sync", "replace", "reply"} => m.person \in Person
    /\ p = "replace" => t = m.entries
    /\ p \in {"open", "sync", "replace"} =>
          \A e \in m.read \ m.entries : c.op = "delete" /\ e.id = c.arg.person
    /\ p \in {"poll", "credentials", "delCredentials", "recreate"} => m.user \in User \ Admin
    /\ p \in {"person", "delFound"} => m.user \in User
    /\ p = "delCredentials" => c.arg.username # None
    /\ p = "delUser" => c.arg.auth # None

HandlerInv(p, c, m, t, l) == Course(p, c) /\ Hands(p, c, m, l) /\ Work(p, c, m, t)
LocalInv(h) == HandlerInv(pc[h], cmd[h], mine[h], temp[h], login)

Inv == HaTyped /\ Shared /\ Locals /\ \A h \in Handler : LocalInv(h)

-----------------------------------------------------------------------------
(* A step of one handler, and what it may do to everybody's usernames.       *)

Shrinks == \A n \in Login : login'[n] \in Admin => login[n] \in Admin

Only(h) == \A g \in Handler \ {h} :
    pc'[g] = pc[g] /\ cmd'[g] = cmd[g] /\ mine'[g] = mine[g] /\ temp'[g] = temp[g]

LEMMA HandsKept ==
    ASSUME Shrinks, NEW p, NEW c \in Order, NEW m \in Local, Hands(p, c, m, login)
    PROVE  Hands(p, c, m, login')
<1>1. c.arg.username \in Login \union {None}
  BY DEF Order, Request
<1>2. NotHeld(c.arg.username, login) => NotHeld(c.arg.username, login')
  BY <1>1 DEF NotHeld, Shrinks
<1> QED
  BY <1>2 DEF Hands

LEMMA OthersKept ==
    ASSUME Inv, HaTyped', Shared', Locals', Shrinks, NEW h \in Handler, Only(h), LocalInv(h)'
    PROVE  Inv'
<1>1. ASSUME NEW g \in Handler \ {h}
      PROVE  LocalInv(g)'
  <2>1. /\ HandlerInv(pc[g], cmd[g], mine[g], temp[g], login)
        /\ cmd[g] \in Order /\ mine[g] \in Local /\ temp[g] \in File
    BY DEF Inv, Locals, LocalInv
  <2>2. HandlerInv(pc[g], cmd[g], mine[g], temp[g], login')
    BY <2>1, HandsKept DEF HandlerInv
  <2> QED
    BY <2>2 DEF LocalInv, Only
<1> QED
  BY <1>1 DEF Inv

(* What has to be shown of a step of handler h. *)
StepInv(h) == HaTyped' /\ Shared' /\ Locals' /\ Shrinks /\ Only(h) /\ LocalInv(h)'

LEMMA HaKept ==
    ASSUME Inv, UNCHANGED ha
    PROVE  HaTyped' /\ Shrinks
BY DEF Inv, HaTyped, Shrinks, ha

(* What h is after a step that moves it to `to`, with the locals m. *)
LEMMA MoveTyped ==
    ASSUME Inv, NEW h \in Handler, NEW to \in Pc, NEW m \in Local,
           pc' = [pc EXCEPT ![h] = to], mine' = [mine EXCEPT ![h] = m], UNCHANGED <<cmd, temp>>
    PROVE  Locals' /\ Only(h) /\ pc'[h] = to /\ mine'[h] = m /\ cmd'[h] = cmd[h] /\ temp'[h] = temp[h]
BY DEF Inv, Locals, Only

(* A step that leaves the files alone and of its variables changes the user or the
   person at most: most steps are such.                                       *)
LEMMA MoveStep ==
    ASSUME Inv, HaTyped', Shrinks, NEW h \in Handler, NEW to \in Pc, NEW m \in Local,
           pc' = [pc EXCEPT ![h] = to], mine' = [mine EXCEPT ![h] = m],
           UNCHANGED <<cmd, temp, register>>,
           m.read = mine[h].read, m.entries = mine[h].entries, m.list = mine[h].list,
           m.seen = mine[h].seen,
           to = "delCredentials" => m.user = Arg(h).auth \/ NotHeld(Arg(h).username, login),
           Course(to, cmd[h]), Work(to, cmd[h], m, temp[h])
    PROVE  StepInv(h)
<1>1. Locals' /\ Only(h) /\ pc'[h] = to /\ mine'[h] = m /\ cmd'[h] = cmd[h] /\ temp'[h] = temp[h]
  BY MoveTyped
<1>2. Shared'
  BY DEF Inv, Shared
<1>3. /\ HandlerInv(pc[h], cmd[h], mine[h], temp[h], login)
      /\ cmd[h] \in Order /\ mine[h] \in Local /\ temp[h] \in File
  BY DEF Inv, Locals, LocalInv
<1>4. Hands(to, cmd[h], m, login)
  BY <1>3 DEF HandlerInv, Hands, Arg
<1>5. Hands(to, cmd[h], m, login')
  BY <1>3, <1>4, HandsKept
<1> QED
  BY <1>1, <1>2, <1>5 DEF StepInv, LocalInv, HandlerInv

-----------------------------------------------------------------------------
(* The creation of a user. *)

LEMMA CreateInv ==
    ASSUME Inv, NEW h \in Handler, CreateStep(h)
    PROVE  StepInv(h)
<1> USE DEF Pc, None
<1>1. /\ HaTyped /\ Locals /\ LocalInv(h) /\ mine[h] \in Local /\ cmd[h].arg \in Request /\ pc[h] \in Pc
      /\ mine = [mine EXCEPT ![h] = mine[h]]
  BY DEF Inv, Locals, Order
<1>2. cmd[h].op = "create" /\ Arg(h).username \in Login
  BY <1>1 DEF CreateStep, CreateAuth, Poll, CreateCredentials, CreatePerson, At, LocalInv,
     HandlerInv, Course, Hands, Arg, Request
<1>3. CASE CreateAuth(h)
  <2>1. UNCHANGED <<cmd, temp, register>>
    BY <1>3 DEF CreateAuth, disk
  <2>2. CASE Goto(h, "fail") /\ UNCHANGED <<ha, mine>>
    <3>1. Course("fail", cmd[h]) /\ Work("fail", cmd[h], mine[h], temp[h])
      BY <1>2 DEF Course, Work
    <3> QED
      BY <1>1, <2>1, <2>2, <3>1, HaKept, MoveStep DEF Goto
  <2>3. ASSUME NEW u \in User \ issued, NEW to \in {"poll", "fail"},
               \/ UNCHANGED ha
               \/ /\ users' = users \union {u} /\ issued' = issued \union {u}
                  /\ name' = [name EXCEPT ![u] = Arg(h).username]
                  /\ UNCHANGED <<login, persons, attr>>,
               Goto(h, to), mine' = [mine EXCEPT ![h].user = u]
        PROVE  StepInv(h)
    <3> DEFINE m == [mine[h] EXCEPT !.user = u]
    <3>1. m \in Local /\ mine' = [mine EXCEPT ![h] = m] /\ m.user = u
          /\ m.read = mine[h].read /\ m.entries = mine[h].entries /\ m.list = mine[h].list
          /\ m.seen = mine[h].seen
      BY <1>1, <2>3 DEF Local, Locals
    <3>2. HaTyped' /\ Shrinks
      BY <1>1, <1>2, <2>3 DEF HaTyped, Shrinks, ha
    <3>3. u \in User \ Admin
      BY <1>1 DEF HaTyped
    <3> HIDE DEF m
    <3>4. Course(to, cmd[h]) /\ Work(to, cmd[h], m, temp[h])
      BY <1>2, <3>1, <3>3 DEF Course, Work
    <3>5. pc' = [pc EXCEPT ![h] = to] /\ to \in Pc /\ to # "delCredentials"
      BY <2>3 DEF Goto
    <3> QED
      BY <2>1, <3>1, <3>2, <3>4, <3>5, MoveStep
  <2>4. CASE \E u \in User \ issued, to \in {"poll", "fail"} :
               /\ \/ UNCHANGED ha
                  \/ /\ users' = users \union {u} /\ issued' = issued \union {u}
                     /\ name' = [name EXCEPT ![u] = Arg(h).username]
                     /\ UNCHANGED <<login, persons, attr>>
               /\ Goto(h, to) /\ mine' = [mine EXCEPT ![h].user = u]
    BY <2>3, <2>4, Zenon
  <2> QED
    BY <1>3, <2>2, <2>4 DEF CreateAuth, Ask
<1>4. CASE Poll(h)
  <2>1. PICK to \in {"credentials", "fail"} : Goto(h, to)
    BY <1>4 DEF Poll
  <2>2. Course(to, cmd[h]) /\ Work(to, cmd[h], mine[h], temp[h])
    BY <1>1, <1>2, <1>4 DEF Poll, At, LocalInv, HandlerInv, Course, Work
  <2>3. UNCHANGED <<ha, mine, cmd, temp, register>>
    BY <1>4 DEF Poll, disk
  <2>4. mine' = [mine EXCEPT ![h] = mine[h]] /\ pc' = [pc EXCEPT ![h] = to] /\ to \in Pc
    BY <1>1, <2>1, <2>3 DEF Goto
  <2>5. HaTyped' /\ Shrinks
    BY <2>3, HaKept
  <2> HIDE DEF Pc
  <2> QED
    BY <1>1, <2>2, <2>3, <2>4, <2>5, MoveStep
<1>5. CASE CreateCredentials(h)
  <2>1. mine[h].user \in User \ Admin /\ pc[h] = "credentials"
    BY <1>1, <1>5 DEF CreateCredentials, At, LocalInv, HandlerInv, Work
  <2>2. PICK to \in {"person", "fail"} :
          /\ Goto(h, to)
          /\ \/ UNCHANGED ha /\ to = "fail"
             \/ /\ login' = [login EXCEPT ![Arg(h).username] = mine[h].user]
                /\ UNCHANGED <<users, issued, name, persons, attr>>
    BY <1>5 DEF CreateCredentials, Ask
  <2>3. HaTyped' /\ Shrinks
    BY <1>1, <1>2, <2>1, <2>2 DEF HaTyped, Shrinks, ha
  <2>5. Course(to, cmd[h]) /\ Work(to, cmd[h], mine[h], temp[h])
    BY <1>2, <2>1, <2>2 DEF Course, Work
  <2>6. UNCHANGED <<mine, cmd, temp, register>>
    BY <1>5 DEF CreateCredentials, disk
  <2>7. pc' = [pc EXCEPT ![h] = to] /\ mine' = [mine EXCEPT ![h] = mine[h]] /\ to \in Pc
    BY <1>1, <2>2, <2>6 DEF Goto
  <2> HIDE DEF Pc
  <2> QED
    BY <1>1, <2>2, <2>3, <2>5, <2>6, <2>7, MoveStep
<1>6. CASE CreatePerson(h)
  <2>0. pc[h] = "person"
    BY <1>6 DEF CreatePerson, At
  <2>1. mine[h].user \in User
    BY <1>1, <2>0 DEF LocalInv, HandlerInv, Work
  <2>2. UNCHANGED <<cmd, temp, register>>
    BY <1>6 DEF CreatePerson, disk
  <2>3. CASE Goto(h, "fail") /\ UNCHANGED <<ha, mine>>
    <3>1. Course("fail", cmd[h]) /\ Work("fail", cmd[h], mine[h], temp[h])
      BY <1>2 DEF Course, Work
    <3> QED
      BY <1>1, <2>2, <2>3, <3>1, HaKept, MoveStep DEF Goto
  <2>4. ASSUME NEW p \in Person \ persons, NEW to \in {"readRegister", "fail"},
               \/ UNCHANGED ha
               \/ /\ persons' = persons \union {p}
                  /\ attr' = [attr EXCEPT ![p] = mine[h].user]
                  /\ UNCHANGED <<users, issued, name, login>>,
               Goto(h, to), mine' = [mine EXCEPT ![h].person = p]
        PROVE  StepInv(h)
    <3> DEFINE m == [mine[h] EXCEPT !.person = p]
    <3>1. m \in Local /\ mine' = [mine EXCEPT ![h] = m] /\ m.person = p
          /\ m.read = mine[h].read /\ m.entries = mine[h].entries /\ m.list = mine[h].list
          /\ m.seen = mine[h].seen
      BY <1>1, <2>4 DEF Local, Locals
    <3>2. HaTyped' /\ Shrinks
      BY <1>1, <2>1, <2>4 DEF HaTyped, Shrinks, ha
    <3> HIDE DEF m
    <3>3. Course(to, cmd[h]) /\ Work(to, cmd[h], m, temp[h])
      BY <1>2, <2>4, <3>1 DEF Course, Work
    <3>4. pc' = [pc EXCEPT ![h] = to] /\ to \in Pc /\ to # "delCredentials"
      BY <2>4 DEF Goto
    <3> HIDE DEF Pc
    <3> QED
      BY <2>2, <3>1, <3>2, <3>3, <3>4, MoveStep
  <2>5. CASE \E p \in Person \ persons, to \in {"readRegister", "fail"} :
               /\ \/ UNCHANGED ha
                  \/ /\ persons' = persons \union {p}
                     /\ attr' = [attr EXCEPT ![p] = mine[h].user]
                     /\ UNCHANGED <<users, issued, name, login>>
               /\ Goto(h, to) /\ mine' = [mine EXCEPT ![h].person = p]
    BY <2>4, <2>5
  <2> QED
    BY <1>6, <2>3, <2>5 DEF CreatePerson, Ask
<1> QED
  BY <1>3, <1>4, <1>5, <1>6 DEF CreateStep

-----------------------------------------------------------------------------
(* The other commands. *)

(* A step of h alone, in full. *)
LEMMA AnyStep ==
    ASSUME Inv, HaTyped', Shared', Shrinks, NEW h \in Handler, NEW to \in Pc, NEW c \in Order,
           NEW m \in Local, NEW t \in File,
           pc' = [pc EXCEPT ![h] = to], cmd' = [cmd EXCEPT ![h] = c],
           mine' = [mine EXCEPT ![h] = m], temp' = [temp EXCEPT ![h] = t],
           HandlerInv(to, c, m, t, login')
    PROVE  StepInv(h)
<1>1. Locals' /\ Only(h) /\ pc'[h] = to /\ mine'[h] = m /\ cmd'[h] = c /\ temp'[h] = t
  BY DEF Inv, Locals, Only
<1> QED
  BY <1>1 DEF StepInv, LocalInv

(* What is known of a handler. *)
LEMMA Known ==
    ASSUME Inv, NEW h \in Handler
    PROVE  /\ HaTyped /\ Shared /\ Locals
           /\ Course(pc[h], cmd[h]) /\ Hands(pc[h], cmd[h], mine[h], login)
           /\ Work(pc[h], cmd[h], mine[h], temp[h])
           /\ mine[h] \in Local /\ cmd[h] \in Order /\ temp[h] \in File /\ pc[h] \in Pc
           /\ cmd[h].arg \in Request /\ cmd[h].op \in Command \union {None}
           /\ mine = [mine EXCEPT ![h] = mine[h]] /\ cmd = [cmd EXCEPT ![h] = cmd[h]]
           /\ temp = [temp EXCEPT ![h] = temp[h]]
BY DEF Inv, LocalInv, HandlerInv, Locals, Order

LEMMA DeleteInv ==
    ASSUME Inv, NEW h \in Handler, DeleteStep(h)
    PROVE  StepInv(h)
<1> USE DEF Pc, None
<1>1. cmd[h].op = "delete" /\ pc[h] \in {"delPerson", "delUser", "lookUp", "delFound"}
  BY Known DEF DeleteStep, DeletePerson, DeleteUser, LookUp, DeleteFound, At, Course
<1>2. UNCHANGED <<cmd, temp, register>>
  BY DEF DeleteStep, DeletePerson, DeleteUser, LookUp, DeleteFound, disk
<1>3. ASSUME HaTyped', Shrinks, UNCHANGED mine, NEW to \in {"delUser", "lookUp", "untrack", "fail"},
             Goto(h, to), to = "delUser" => Arg(h).auth # None
      PROVE  StepInv(h)
  <2>1. Course(to, cmd[h]) /\ Work(to, cmd[h], mine[h], temp[h])
    BY <1>1, <1>3 DEF Course, Work, Arg
  <2>2. mine' = [mine EXCEPT ![h] = mine[h]] /\ mine[h] \in Local /\ to \in Pc
    BY <1>3, Known
  <2>3. pc' = [pc EXCEPT ![h] = to]
    BY <1>3 DEF Goto
  <2> HIDE DEF Pc
  <2> QED
    BY <1>2, <1>3, <2>1, <2>2, <2>3, MoveStep
<1>4. ASSUME NEW u \in User, Expunge(u)
      PROVE  HaTyped' /\ Shrinks
  <2>1. HaTyped /\ None \notin Admin
    BY Known, SetsApart
  <2> QED
    BY <1>4, <2>1, SetsApart DEF Expunge, HaTyped, Shrinks
<1>5. CASE DeletePerson(h)
  <2>1. PICK to \in {"delUser", "lookUp"} : Goto(h, to) /\ (to = "delUser" => Arg(h).auth # None)
    BY <1>5 DEF DeletePerson, Ask
  <2>2. HaTyped' /\ Shrinks
    <3>1. CASE UNCHANGED ha
      BY <3>1, HaKept
    <3>2. CASE persons' = persons \ {Arg(h).person} /\ UNCHANGED <<users, issued, name, login, attr>>
      BY <3>2, Known DEF HaTyped, Shrinks
    <3> QED
      BY <1>5, <3>1, <3>2 DEF DeletePerson, Ask
  <2>3. UNCHANGED mine
    BY <1>5 DEF DeletePerson
  <2> QED
    BY <1>3, <2>1, <2>2, <2>3
<1>6. CASE DeleteUser(h)
  <2>1. PICK to \in {"untrack", "fail"} : Goto(h, to)
    BY <1>6 DEF DeleteUser, Ask
  <2>2. UNCHANGED ha \/ (Arg(h).auth \in users /\ Expunge(Arg(h).auth))
    BY <1>6 DEF DeleteUser, Ask
  <2>3. HaTyped' /\ Shrinks
    BY <1>4, <2>2, HaKept, Known DEF HaTyped
  <2>4. UNCHANGED mine
    BY <1>6 DEF DeleteUser
  <2> QED
    BY <1>3, <2>1, <2>3, <2>4
<1>7. CASE LookUp(h)
  <2>1. UNCHANGED ha
    BY <1>7 DEF LookUp
  <2>2. HaTyped' /\ Shrinks
    BY <2>1, HaKept
  <2>3. CASE UNCHANGED mine /\ Goto(h, "untrack")
    BY <1>3, <2>2, <2>3
  <2>4. ASSUME NEW u \in users, mine' = [mine EXCEPT ![h].user = u], Goto(h, "delFound")
        PROVE  StepInv(h)
    <3> DEFINE m == [mine[h] EXCEPT !.user = u]
    <3>0. u \in User /\ mine[h] \in Local /\ mine \in [Handler -> Local]
      BY <2>4, Known DEF Locals, HaTyped
    <3>1. m \in Local /\ mine' = [mine EXCEPT ![h] = m] /\ m.user = u
          /\ m.read = mine[h].read /\ m.entries = mine[h].entries /\ m.list = mine[h].list
          /\ m.seen = mine[h].seen
      BY <2>4, <3>0 DEF Local
    <3> HIDE DEF m
    <3>2. Course("delFound", cmd[h]) /\ Work("delFound", cmd[h], m, temp[h])
      BY <1>1, <3>0, <3>1 DEF Course, Work
    <3>3. pc' = [pc EXCEPT ![h] = "delFound"] /\ "delFound" \in Pc
      BY <2>4 DEF Goto
    <3> HIDE DEF Pc
    <3> QED
      BY <1>2, <2>2, <3>1, <3>2, <3>3, MoveStep
  <2> QED
    BY <1>7, <2>3, <2>4 DEF LookUp
<1>8. CASE DeleteFound(h)
  <2>1. PICK to \in {"untrack", "fail"} : Goto(h, to)
    BY <1>8 DEF DeleteFound, Ask
  <2>2. UNCHANGED ha \/ (mine[h].user \in users /\ Expunge(mine[h].user))
    BY <1>8 DEF DeleteFound, Ask
  <2>3. HaTyped' /\ Shrinks
    BY <1>4, <2>2, HaKept, Known DEF HaTyped
  <2>4. UNCHANGED mine
    BY <1>8 DEF DeleteFound
  <2> QED
    BY <1>3, <2>1, <2>3, <2>4
<1> QED
  BY <1>5, <1>6, <1>7, <1>8 DEF DeleteStep

LEMMA PasswordInv ==
    ASSUME Inv, NEW h \in Handler, PasswordStep(h)
    PROVE  StepInv(h)
<1> USE DEF Pc, None
<1>1. cmd[h].op = "password"
  BY Known DEF PasswordStep, ListUsers, DeleteCredentials, Recreate, At, Course
<1>2. UNCHANGED <<cmd, temp, register>>
  BY DEF PasswordStep, ListUsers, DeleteCredentials, Recreate, disk
<1>3. ASSUME HaTyped', Shrinks, UNCHANGED mine, NEW to \in {"recreate", "reply", "fail"},
             Goto(h, to), to = "recreate" => mine[h].user \in User \ Admin
      PROVE  StepInv(h)
  <2>1. Course(to, cmd[h]) /\ Work(to, cmd[h], mine[h], temp[h])
    BY <1>1, <1>3 DEF Course, Work
  <2>2. mine' = [mine EXCEPT ![h] = mine[h]] /\ mine[h] \in Local /\ to \in Pc
    BY <1>3, Known
  <2>3. pc' = [pc EXCEPT ![h] = to]
    BY <1>3 DEF Goto
  <2> HIDE DEF Pc
  <2> QED
    BY <1>2, <1>3, <2>1, <2>2, <2>3, MoveStep
<1>4. CASE ListUsers(h)
  <2>1. UNCHANGED ha
    BY <1>4 DEF ListUsers
  <2>2. HaTyped' /\ Shrinks
    BY <2>1, HaKept
  <2>3. CASE UNCHANGED mine /\ Goto(h, "fail")
    BY <1>3, <2>2, <2>3
  <2>4. ASSUME NEW u \in users, Resolve(h, u), MayChange(u), mine' = [mine EXCEPT ![h].user = u],
               NEW to \in {"recreate", "delCredentials"}, Goto(h, to),
               to = "delCredentials" => Arg(h).username # None
        PROVE  StepInv(h)
    <3> DEFINE m == [mine[h] EXCEPT !.user = u]
    <3>0. u \in User \ Admin /\ mine[h] \in Local /\ mine \in [Handler -> Local]
      BY <2>4, Known DEF Locals, HaTyped, MayChange
    <3>1. m \in Local /\ mine' = [mine EXCEPT ![h] = m] /\ m.user = u
          /\ m.read = mine[h].read /\ m.entries = mine[h].entries /\ m.list = mine[h].list
          /\ m.seen = mine[h].seen
      BY <2>4, <3>0 DEF Local
    <3> HIDE DEF m
    <3>2. Course(to, cmd[h]) /\ Work(to, cmd[h], m, temp[h])
      BY <1>1, <2>4, <3>0, <3>1 DEF Course, Work, Arg
    <3>3. pc' = [pc EXCEPT ![h] = to] /\ to \in Pc
      BY <2>4 DEF Goto
    <3>4. m.user = Arg(h).auth \/ NotHeld(Arg(h).username, login)
      BY <2>4, <3>0, <3>1, SetsApart DEF Resolve, NotHeld
    <3> HIDE DEF Pc
    <3> QED
      BY <1>2, <2>2, <3>1, <3>2, <3>3, <3>4, MoveStep
  <2> QED
    BY <1>4, <2>3, <2>4 DEF ListUsers
<1>5. CASE DeleteCredentials(h)
  <2>1. pc[h] = "delCredentials" /\ UNCHANGED mine /\ Goto(h, "recreate")
    BY <1>5 DEF DeleteCredentials, Ask, At
  <2>2. mine[h].user \in User \ Admin
    BY <2>1, Known DEF Work
  <2>3. HaTyped' /\ Shrinks
    <3>1. CASE UNCHANGED ha
      BY <3>1, HaKept
    <3>2. CASE /\ login' = [login EXCEPT ![Arg(h).username] = None]
               /\ UNCHANGED <<users, issued, name, persons, attr>>
      BY <3>2, Known, SetsApart DEF HaTyped, Shrinks
    <3> QED
      BY <1>5, <3>1, <3>2 DEF DeleteCredentials, Ask
  <2> QED
    BY <1>3, <2>1, <2>2, <2>3
<1>6. CASE Recreate(h)
  <2>1. pc[h] = "recreate" /\ UNCHANGED mine
    BY <1>6 DEF Recreate, At
  <2>2. PICK to \in {"reply", "fail"} : Goto(h, to)
    BY <1>6 DEF Recreate, Ask
  <2>3. mine[h].user \in User \ Admin
    BY <2>1, Known DEF Work
  <2>4. HaTyped' /\ Shrinks
    <3>1. CASE UNCHANGED ha
      BY <3>1, HaKept
    <3>2. CASE /\ login' = [login EXCEPT ![Arg(h).username] = mine[h].user]
               /\ UNCHANGED <<users, issued, name, persons, attr>>
      BY <2>3, <3>2, Known DEF HaTyped, Shrinks
    <3> QED
      BY <1>6, <3>1, <3>2 DEF Recreate, Ask
  <2> QED
    BY <1>3, <2>1, <2>2, <2>4
<1> QED
  BY <1>4, <1>5, <1>6 DEF PasswordStep

LEMMA UpdateInv ==
    ASSUME Inv, NEW h \in Handler, UpdateStep(h)
    PROVE  StepInv(h)
<1> USE DEF Pc, None
<1>1. cmd[h].op = "update" /\ UNCHANGED <<mine, cmd, temp, register>>
  BY Known DEF UpdateStep, RenameUser, RenamePerson, At, Course, disk
<1>2. PICK to \in {"renamePerson", "reply", "fail"} : Goto(h, to)
  BY DEF UpdateStep, RenameUser, RenamePerson, Ask
<1>3. HaTyped' /\ Shrinks
  <2>1. CASE UNCHANGED ha
    BY <2>1, HaKept
  <2>2. CASE \E a \in users, n \in Login : /\ name' = [name EXCEPT ![a] = n]
                                          /\ UNCHANGED <<users, issued, login, persons, attr>>
    BY <2>2, Known DEF HaTyped, Shrinks
  <2> QED
    BY <2>1, <2>2 DEF UpdateStep, RenameUser, RenamePerson, Ask
<1>4. Course(to, cmd[h]) /\ Work(to, cmd[h], mine[h], temp[h])
  BY <1>1, <1>2 DEF Course, Work
<1>5. /\ mine' = [mine EXCEPT ![h] = mine[h]] /\ mine[h] \in Local /\ to \in Pc
      /\ pc' = [pc EXCEPT ![h] = to]
  BY <1>1, <1>2, Known DEF Goto
<1> HIDE DEF Pc
<1> QED
  BY <1>1, <1>3, <1>4, <1>5, MoveStep

(* The register read whole, changed in hand, written whole. *)
LEMMA RegisterInv ==
    ASSUME Inv, NEW h \in Handler, RegisterStep(h)
    PROVE  StepInv(h)
<1> USE DEF Pc, None
<1>1. UNCHANGED <<ha, cmd>> /\ cmd[h].op \in {"create", "delete"}
  BY Known DEF RegisterStep, Track, Untrack, OpenTemp, Sync, Replace, At, Course, disk
<1>2. HaTyped' /\ Shrinks /\ login' = login
  BY <1>1, HaKept DEF ha
<1>3. ASSUME UNCHANGED register, NEW to \in Pc, NEW m \in Local, NEW t \in File, Goto(h, to),
             mine' = [mine EXCEPT ![h] = m], temp' = [temp EXCEPT ![h] = t],
             HandlerInv(to, cmd[h], m, t, login)
      PROVE  StepInv(h)
  <2>1. Shared'
    BY <1>1, <1>2, <1>3, Known DEF Shared
  <2>2. pc' = [pc EXCEPT ![h] = to] /\ cmd' = [cmd EXCEPT ![h] = cmd[h]]
    BY <1>1, <1>3, Known DEF Goto
  <2> HIDE DEF Pc
  <2> QED
    BY <1>2, <1>3, <2>1, <2>2, Known, AnyStep
<1>4. ASSUME NEW to \in {"reply", "sync"}, UNCHANGED <<mine, register>>, NEW t \in {{}, Torn, temp[h]},
             pc[h] \in {"readRegister", "untrack", "open", "sync", "replace"},
             to = "sync" => pc[h] = "open",
             Goto(h, to), temp' = [temp EXCEPT ![h] = t]
      PROVE  StepInv(h)
  <2>1. t \in File
    BY Known DEF File
  <2>2. Course(to, cmd[h]) /\ Work(to, cmd[h], mine[h], t)
    BY <1>1, <1>4, Known DEF Course, Work
  <2>3. Hands(to, cmd[h], mine[h], login)
    BY <1>4, Known DEF Hands
  <2>4. mine' = [mine EXCEPT ![h] = mine[h]] /\ mine[h] \in Local /\ to \in Pc
    BY <1>4, Known
  <2> HIDE DEF Pc
  <2> QED
    BY <1>3, <1>4, <2>1, <2>2, <2>3, <2>4 DEF HandlerInv
<1>5. ASSUME NEW entries \in ReadRegister
      PROVE  entries \in SUBSET Entry
  BY Known DEF ReadRegister, Shared
<1>6. ASSUME NEW read \in SUBSET Entry, NEW entries \in SUBSET Entry,
             pc[h] \in {"readRegister", "untrack"},
             \A e \in read \ entries : cmd[h].op = "delete" /\ e.id = cmd[h].arg.person,
             mine' = [mine EXCEPT ![h].read = read, ![h].entries = entries],
             Goto(h, "open"), UNCHANGED <<register, temp>>
      PROVE  StepInv(h)
  <2> DEFINE m == [mine[h] EXCEPT !.read = read, !.entries = entries]
  <2>0. mine[h] \in Local /\ mine \in [Handler -> Local]
    BY Known DEF Locals
  <2>1. m \in Local /\ mine' = [mine EXCEPT ![h] = m] /\ m.read = read /\ m.entries = entries
        /\ m.list = mine[h].list /\ m.seen = mine[h].seen /\ m.person = mine[h].person
    BY <1>6, <2>0 DEF Local
  <2> HIDE DEF m
  <2>2. Course("open", cmd[h])
    BY <1>1 DEF Course
  <2>3. Work("open", cmd[h], m, temp[h])
    BY <1>1, <1>6, <2>1, Known DEF Work, Course
  <2>4. Hands("open", cmd[h], m, login)
    BY <1>6, <2>1, Known DEF Hands, Course
  <2>5. temp[h] \in File /\ temp' = [temp EXCEPT ![h] = temp[h]] /\ "open" \in Pc
    BY <1>6, Known
  <2> HIDE DEF Pc
  <2> QED
    BY <1>3, <1>6, <2>1, <2>2, <2>3, <2>4, <2>5 DEF HandlerInv
<1>7. CASE Track(h)
  <2>1. pc[h] = "readRegister" /\ UNCHANGED <<register, temp>> /\ temp' = [temp EXCEPT ![h] = temp[h]]
    BY <1>7, Known DEF Track, At, disk
  <2>2. CASE UNCHANGED mine /\ Goto(h, "reply")
    BY <1>4, <2>1, <2>2
  <2>3. ASSUME NEW entries \in ReadRegister, Goto(h, "open"),
               mine' = [mine EXCEPT ![h].read = entries, ![h].entries = entries \union
                           {[id |-> mine[h].person, username |-> Arg(h).username,
                             auth |-> mine[h].user]}]
        PROVE  StepInv(h)
    <3> DEFINE e == [id |-> mine[h].person, username |-> Arg(h).username, auth |-> mine[h].user]
    <3>1. mine[h].person \in Person /\ Arg(h).username \in Login \union {None}
          /\ mine[h].user \in User \union {None}
      BY <2>1, Known DEF Work, Course, Hands, Arg, Request, Local
    <3>2. e \in Entry
      BY <3>1 DEF Entry
    <3> HIDE DEF e
    <3> DEFINE more == entries \union {e}
    <3>3. entries \in SUBSET Entry /\ more \in SUBSET Entry
      BY <1>5, <3>2
    <3>4. mine' = [mine EXCEPT ![h].read = entries, ![h].entries = more]
      BY <2>3 DEF e
    <3>5. \A x \in entries \ more : cmd[h].op = "delete" /\ x.id = cmd[h].arg.person
      OBVIOUS
    <3> HIDE DEF more
    <3> QED
      BY <1>6, <2>1, <2>3, <3>3, <3>4, <3>5
  <2> QED
    BY <1>7, <2>2, <2>3 DEF Track
<1>8. CASE Untrack(h)
  <2>1. pc[h] = "untrack" /\ UNCHANGED <<register, temp>> /\ temp' = [temp EXCEPT ![h] = temp[h]]
    BY <1>8, Known DEF Untrack, At, disk
  <2>2. CASE UNCHANGED mine /\ Goto(h, "reply")
    BY <1>4, <2>1, <2>2
  <2>3. ASSUME NEW entries \in ReadRegister, Goto(h, "open"),
               mine' = [mine EXCEPT ![h].read = entries,
                                    ![h].entries = {e \in entries : e.id # Arg(h).person}]
        PROVE  StepInv(h)
    <3> DEFINE kept == {e \in entries : e.id # Arg(h).person}
    <3>1. entries \in SUBSET Entry /\ kept \in SUBSET Entry
      BY <1>5
    <3>2. cmd[h].op = "delete"
      BY <2>1, Known DEF Course
    <3>3. \A x \in entries \ kept : cmd[h].op = "delete" /\ x.id = cmd[h].arg.person
      BY <3>2 DEF Arg
    <3>4. mine' = [mine EXCEPT ![h].read = entries, ![h].entries = kept]
      BY <2>3
    <3> HIDE DEF kept
    <3> QED
      BY <1>6, <2>1, <2>3, <3>1, <3>3, <3>4
  <2> QED
    BY <1>8, <2>2, <2>3 DEF Untrack
<1>9. CASE OpenTemp(h)
  <2>1. PICK to \in {"reply", "sync"}, t \in {{}, Torn, temp[h]} :
           Goto(h, to) /\ temp' = [temp EXCEPT ![h] = t]
    BY <1>9, Known DEF OpenTemp
  <2>2. pc[h] = "open" /\ UNCHANGED <<mine, register>>
    BY <1>9 DEF OpenTemp, At
  <2> QED
    BY <1>4, <2>1, <2>2
<1>10. CASE Sync(h)
  <2>1. pc[h] = "sync" /\ UNCHANGED <<mine, register>>
    BY <1>10 DEF Sync, At
  <2>2. CASE temp' = [temp EXCEPT ![h] = {}] /\ Goto(h, "reply")
    BY <1>4, <2>1, <2>2
  <2>3. CASE temp' = [temp EXCEPT ![h] = mine[h].entries] /\ Goto(h, "replace")
    <3>1. Course("replace", cmd[h]) /\ Work("replace", cmd[h], mine[h], mine[h].entries)
      BY <1>1, <2>1, Known DEF Course, Work
    <3>2. Hands("replace", cmd[h], mine[h], login)
      BY <2>1, Known DEF Hands
    <3>3. mine[h].entries \in File /\ mine[h] \in Local /\ "replace" \in Pc
      BY Known DEF Local, File
    <3>4. mine' = [mine EXCEPT ![h] = mine[h]]
      BY <2>1, Known
    <3> HIDE DEF Pc
    <3> QED
      BY <1>3, <2>1, <2>3, <3>1, <3>2, <3>3, <3>4 DEF HandlerInv
  <2> QED
    BY <1>10, <2>2, <2>3 DEF Sync
<1>11. CASE Replace(h)
  <2>1. /\ pc[h] = "replace" /\ UNCHANGED mine /\ Goto(h, "reply")
        /\ temp' = [temp EXCEPT ![h] = {}] /\ register' \in {temp[h], register}
    BY <1>11 DEF Replace, At
  <2>2. temp[h] \in SUBSET Entry
    BY <2>1, Known DEF Work, Local
  <2>3. Shared'
    BY <1>1, <1>2, <2>1, <2>2, Known DEF Shared
  <2>4. Course("reply", cmd[h]) /\ Work("reply", cmd[h], mine[h], {})
    BY <1>1, <2>1, Known DEF Course, Work
  <2>5. Hands("reply", cmd[h], mine[h], login)
    BY <2>1, Known DEF Hands
  <2>6. {} \in File /\ "reply" \in Pc /\ pc' = [pc EXCEPT ![h] = "reply"]
        /\ mine' = [mine EXCEPT ![h] = mine[h]] /\ cmd' = [cmd EXCEPT ![h] = cmd[h]]
    BY <1>1, <2>1, Known DEF File, Goto
  <2> HIDE DEF Pc
  <2> QED
    BY <1>2, <2>1, <2>3, <2>4, <2>5, <2>6, Known, AnyStep DEF HandlerInv
<1> QED
  BY <1>7, <1>8, <1>9, <1>10, <1>11 DEF RegisterStep

(* Who is in the house, as Home Assistant and the register tell it. *)
LEMMA FetchInv ==
    ASSUME Inv, NEW h \in Handler, FetchStep(h)
    PROVE  StepInv(h)
<1> USE DEF Pc, None
<1>1. UNCHANGED <<ha, cmd, temp, register>> /\ cmd[h].op = "fetch"
  BY Known DEF FetchStep, FetchStates, ReadTracked, FetchUsers, At, Course, disk
<1>2. HaTyped' /\ Shrinks /\ login' = login
  BY <1>1, HaKept DEF ha
<1>3. ASSUME NEW to \in {"fail", "readIds", "whoExists", "reply"}, NEW m \in Local, Goto(h, to),
             mine' = [mine EXCEPT ![h] = m], m.entries = mine[h].entries,
             m.seen # {} => \A r \in m.list : r.auth \in m.seen \union {None}
      PROVE  StepInv(h)
  <2>1. Shared'
    BY <1>1, <1>2, Known DEF Shared
  <2>2. pc' = [pc EXCEPT ![h] = to] /\ cmd' = [cmd EXCEPT ![h] = cmd[h]]
        /\ temp' = [temp EXCEPT ![h] = temp[h]] /\ to \in Pc
    BY <1>1, <1>3, Known DEF Goto
  <2>3. Course(to, cmd[h]) /\ Work(to, cmd[h], m, temp[h])
    BY <1>1, <1>3 DEF Course, Work
  <2>4. Hands(to, cmd[h], m, login)
    BY <1>1, <1>3, Known DEF Hands
  <2> HIDE DEF Pc
  <2> QED
    BY <1>2, <1>3, <2>1, <2>2, <2>3, <2>4, Known, AnyStep DEF HandlerInv
<1>4. mine[h] \in Local /\ mine \in [Handler -> Local]
  BY Known DEF Locals
<1>5. CASE FetchStates(h)
  <2> DEFINE m == [mine[h] EXCEPT !.met = persons]
  <2>1. m \in Local /\ m.entries = mine[h].entries /\ m.read = mine[h].read
        /\ m.list = mine[h].list /\ m.seen = mine[h].seen
    BY <1>4, Known DEF Local, HaTyped
  <2>2. PICK to \in {"fail", "readIds"}, x \in {m, mine[h]} :
           Goto(h, to) /\ mine' = [mine EXCEPT ![h] = x]
    BY <1>5, <1>4, Known DEF FetchStates, Read
  <2> HIDE DEF m
  <2>3. /\ x \in Local /\ x.entries = mine[h].entries /\ x.read = mine[h].read
        /\ x.list = mine[h].list /\ x.seen = mine[h].seen
    BY <1>4, <2>1, <2>2
  <2>4. mine[h].seen # {} => \A r \in mine[h].list : r.auth \in mine[h].seen \union {None}
    BY Known DEF Hands
  <2> QED
    BY <1>3, <2>2, <2>3, <2>4
<1>6. CASE ReadTracked(h)
  <2>1. PICK entries \in ReadRegister : mine' = [mine EXCEPT ![h].read = entries]
    BY <1>6 DEF ReadTracked
  <2>2. entries \in SUBSET Entry
    BY <2>1, Known DEF ReadRegister, Shared
  <2> DEFINE m == [mine[h] EXCEPT !.read = entries]
  <2>3. m \in Local /\ m.entries = mine[h].entries /\ m.read = entries
        /\ m.list = mine[h].list /\ m.seen = mine[h].seen /\ mine' = [mine EXCEPT ![h] = m]
    BY <1>4, <2>1, <2>2 DEF Local
  <2> HIDE DEF m
  <2>4. mine[h].seen # {} => \A r \in mine[h].list : r.auth \in mine[h].seen \union {None}
    BY Known DEF Hands
  <2>5. Goto(h, "whoExists")
    BY <1>6 DEF ReadTracked
  <2> QED
    BY <1>3, <2>2, <2>3, <2>4, <2>5
<1>7. CASE FetchUsers(h)
  <2>1. PICK seen \in {users, {}} :
          mine' = [mine EXCEPT ![h].seen = seen, ![h].list =
                   {[person |-> p, auth |-> Candidate(h, p, seen),
                     username |-> EntryOf(h, p).username] :
                        p \in mine[h].met \intersect Ids(mine[h].read)}]
    BY <1>7 DEF FetchUsers
  <2> DEFINE list == {[person |-> p, auth |-> Candidate(h, p, seen),
                       username |-> EntryOf(h, p).username] :
                          p \in mine[h].met \intersect Ids(mine[h].read)}
  <2>2. seen \in SUBSET User
    BY <2>1, Known DEF HaTyped
  <2>3. ASSUME NEW p \in mine[h].met \intersect Ids(mine[h].read)
        PROVE  /\ p \in Person /\ EntryOf(h, p) \in mine[h].read /\ EntryOf(h, p) \in Entry
    <3>1. \E e \in mine[h].read : e.id = p
      BY <2>3 DEF Ids
    <3>2. EntryOf(h, p) \in mine[h].read
      BY <3>1 DEF EntryOf
    <3>3. p \in Person /\ mine[h].read \in SUBSET Entry
      BY <1>4, <2>3 DEF Local
    <3> QED
      BY <3>2, <3>3
  <2>4. ASSUME NEW p \in mine[h].met \intersect Ids(mine[h].read)
        PROVE  /\ Candidate(h, p, seen) \in User \union Person \union {None}
               /\ seen # {} => Candidate(h, p, seen) \in seen \union {None}
    <3>1. /\ EntryOf(h, p).auth \in User \union {None}
          /\ EntryOf(h, p).username \in Login \union {None} /\ p \in Person
      BY <2>3 DEF Entry
    <3>2. attr[p] \in User \union Person \union {None}
      BY <3>1, Known DEF HaTyped
    <3>3. EntryOf(h, p).username # None => login[EntryOf(h, p).username] \in User \union {None}
      BY <3>1, Known DEF HaTyped
    <3> QED
      BY <2>2, <3>1, <3>2, <3>3 DEF Candidate
  <2>5. list \in SUBSET Request
    <3>1. ASSUME NEW r \in list
          PROVE  r \in Request
      <4>1. PICK p \in mine[h].met \intersect Ids(mine[h].read) :
              r = [person |-> p, auth |-> Candidate(h, p, seen), username |-> EntryOf(h, p).username]
        BY <3>1
      <4>2. /\ p \in Person /\ Candidate(h, p, seen) \in User \union Person \union {None}
            /\ EntryOf(h, p).username \in Login \union {None}
        BY <2>3, <2>4 DEF Entry
      <4> QED
        BY <4>1, <4>2 DEF Request
    <3> QED
      BY <3>1
  <2>6. seen # {} => \A r \in list : r.auth \in seen \union {None}
    BY <2>4
  <2>7. mine' = [mine EXCEPT ![h].seen = seen, ![h].list = list]
    BY <2>1
  <2> HIDE DEF list
  <2> DEFINE m == [mine[h] EXCEPT !.seen = seen, !.list = list]
  <2>8. m \in Local /\ m.entries = mine[h].entries /\ m.read = mine[h].read
        /\ m.list = list /\ m.seen = seen /\ mine' = [mine EXCEPT ![h] = m]
    BY <1>4, <2>2, <2>5, <2>7 DEF Local
  <2> HIDE DEF m
  <2>9. Goto(h, "reply")
    BY <1>7 DEF FetchUsers
  <2> QED
    BY <1>3, <2>5, <2>6, <2>8, <2>9
<1> QED
  BY <1>5, <1>6, <1>7 DEF FetchStep

(* The end of a command. *)
LEMMA BlankFits ==
    Blank \in Local /\ Blank.seen = {} /\ NoRequest \in Request /\ NoCommand \in Order
    /\ NoCommand.op = None
BY DEF Blank, Local, NoRequest, Request, NoCommand, Order

(* A command that is over leaves nothing behind. *)
LEMMA Over ==
    ASSUME NEW p \in {"idle", "done"}, NEW t, NEW l
    PROVE  HandlerInv(p, NoCommand, Blank, t, l)
<1> USE DEF None
<1>1. Course(p, NoCommand) /\ Work(p, NoCommand, Blank, t)
  BY BlankFits DEF Course, Work
<1>2. Hands(p, NoCommand, Blank, l)
  BY BlankFits DEF Hands
<1> QED
  BY <1>1, <1>2 DEF HandlerInv

LEMMA ReplyInv ==
    ASSUME Inv, NEW h \in Handler, ReplyStep(h)
    PROVE  StepInv(h)
<1> USE DEF Pc
<1>1. UNCHANGED <<ha, temp, register>>
  BY DEF ReplyStep, ReplyDone, ReplyFailed, disk
<1>2. HaTyped' /\ Shrinks
  BY <1>1, HaKept
<1>3. Shared' /\ temp' = [temp EXCEPT ![h] = temp[h]]
  BY <1>1, Known DEF Shared
<1>4. CASE End(h)
  <2>1. /\ pc' = [pc EXCEPT ![h] = "done"] /\ "done" \in Pc
        /\ mine' = [mine EXCEPT ![h] = Blank] /\ cmd' = [cmd EXCEPT ![h] = NoCommand]
    BY <1>4 DEF End, Goto
  <2>2. HandlerInv("done", NoCommand, Blank, temp[h], login')
    BY Over
  <2> HIDE DEF Pc
  <2> QED
    BY <1>2, <1>3, <2>1, <2>2, BlankFits, Known, AnyStep
<1>5. CASE UNCHANGED <<cmd, mine>> /\ Goto(h, "fail")
  <2>1. Course("fail", cmd[h]) /\ Work("fail", cmd[h], mine[h], temp[h])
    BY DEF Course, Work, None
  <2>2. /\ pc' = [pc EXCEPT ![h] = "fail"] /\ "fail" \in Pc
        /\ mine' = [mine EXCEPT ![h] = mine[h]] /\ UNCHANGED <<cmd, temp, register>>
    BY <1>1, <1>5, Known DEF Goto
  <2> HIDE DEF Pc
  <2> QED
    BY <1>2, <2>1, <2>2, Known, MoveStep
<1> QED
  BY <1>4, <1>5 DEF ReplyStep, ReplyDone, ReplyFailed

(* A command arrives. *)
LEMMA ReceiveInv ==
    ASSUME Inv, NEW h \in Handler, NEW op \in Command, NEW arg \in Arguments(op),
           Receive(h, op, arg)
    PROVE  StepInv(h)
<1> USE DEF Pc, None
<1>1. UNCHANGED <<ha, temp, register, mine>>
      /\ cmd' = [cmd EXCEPT ![h] = [op |-> op, arg |-> arg]]
      /\ (op = "create" => arg.username # None)
  BY DEF Receive, disk
<1>2. HaTyped' /\ Shrinks /\ login' = login
  BY <1>1, HaKept DEF ha
<1>3. Shared'
  BY <1>1, Known DEF Shared
<1>4. PICK to \in {First[op], "fail"} : Goto(h, to)
  BY DEF Receive
<1> DEFINE c == [op |-> op, arg |-> arg]
<1>5. c \in Order /\ c.op = op /\ c.arg = arg /\ cmd' = [cmd EXCEPT ![h] = c]
  <2>1. arg \in Request
    BY PortalAssumption DEF Arguments, Field, Request
  <2> QED
    BY <1>1, <2>1 DEF Order
<1> HIDE DEF c
<1>6. \/ op = "create" /\ to \in {"auth", "fail"}
      \/ op = "delete" /\ to \in {"delPerson", "fail"}
      \/ op = "password" /\ to \in {"list", "fail"}
      \/ op = "fetch" /\ to \in {"states", "fail"}
      \/ op = "update" /\ to \in {"rename", "fail"}
  BY <1>4 DEF First, Command
<1>7. Course(to, c) /\ Work(to, c, mine[h], temp[h])
  BY <1>5, <1>6 DEF Course, Work
<1>8. Hands(to, c, mine[h], login')
  BY <1>1, <1>5, <1>6, Known DEF Hands
<1>9. pc' = [pc EXCEPT ![h] = to] /\ temp' = [temp EXCEPT ![h] = temp[h]] /\ to \in Pc
      /\ mine' = [mine EXCEPT ![h] = mine[h]]
  BY <1>1, <1>4, <1>6, Known DEF Goto
<1> HIDE DEF Pc
<1> QED
  BY <1>2, <1>3, <1>5, <1>7, <1>8, <1>9, Known, AnyStep DEF HandlerInv

-----------------------------------------------------------------------------
(* The invariant. *)

LEMMA InitInv == Init => Inv
<1> SUFFICES ASSUME Init PROVE Inv
  OBVIOUS
<1> USE DEF Pc, None
<1>1. HaTyped
  BY InitialAssumption DEF Init, HaTyped
<1>2. Shared
  BY InitialAssumption DEF Init, Shared
<1>3. ASSUME NEW h \in Handler
      PROVE  pc[h] = "idle" /\ cmd[h] = NoCommand /\ mine[h] = Blank
  BY DEF Init
<1>4. Locals
  BY BlankFits DEF Init, Locals, File
<1>5. ASSUME NEW h \in Handler
      PROVE  LocalInv(h)
  BY <1>3, Over DEF LocalInv
<1> QED
  BY <1>1, <1>2, <1>4, <1>5 DEF Inv

LEMMA StepKeeps ==
    ASSUME Inv, NEW h \in Handler, StepInv(h)
    PROVE  Inv'
BY OthersKept DEF StepInv

LEMMA RunInv ==
    ASSUME Inv, NEW h \in Handler, Run(h)
    PROVE  Inv'
BY CreateInv, RegisterInv, DeleteInv, PasswordInv, FetchInv, UpdateInv, ReplyInv, StepKeeps DEF Run

LEMMA CrashInv ==
    ASSUME Inv, Crash
    PROVE  Inv'
<1> USE DEF Pc
<1>1. /\ UNCHANGED <<ha, temp, register>>
      /\ pc' = [h \in Handler |-> IF At(h, "idle") THEN "idle" ELSE "done"]
      /\ mine' = [h \in Handler |-> Blank] /\ cmd' = [h \in Handler |-> NoCommand]
  BY DEF Crash, disk
<1>2. HaTyped'
  BY <1>1, HaKept
<1>3. Shared'
  BY <1>1 DEF Inv, Shared
<1>4. Locals'
  BY <1>1, BlankFits DEF Inv, Locals
<1>5. ASSUME NEW h \in Handler
      PROVE  LocalInv(h)'
  <2>1. pc'[h] \in {"idle", "done"} /\ mine'[h] = Blank /\ cmd'[h] = NoCommand
    BY <1>1
  <2> QED
    BY <2>1, Over DEF LocalInv
<1> QED
  BY <1>2, <1>3, <1>4, <1>5 DEF Inv

LEMMA NextInv == Inv /\ [Next]_vars => Inv'
<1> SUFFICES ASSUME Inv, [Next]_vars PROVE Inv'
  OBVIOUS
<1>1. ASSUME NEW h \in Handler, NEW op \in Command, NEW arg \in Arguments(op), Receive(h, op, arg)
      PROVE  Inv'
  BY <1>1, ReceiveInv, StepKeeps
<1>2. ASSUME NEW h \in Handler, Run(h)
      PROVE  Inv'
  BY <1>2, RunInv
<1>3. CASE Crash
  BY <1>3, CrashInv
<1>4. CASE UNCHANGED vars
  <2>1. /\ users' = users /\ issued' = issued /\ name' = name /\ login' = login
        /\ persons' = persons /\ attr' = attr /\ register' = register /\ temp' = temp
        /\ pc' = pc /\ cmd' = cmd /\ mine' = mine
    BY <1>4 DEF vars, ha, disk, own
  <2>2. HaTyped' /\ Shared' /\ Locals'
    BY <2>1 DEF Inv, HaTyped, Shared, Locals
  <2>3. \A h \in Handler : LocalInv(h)'
    BY <2>1 DEF Inv, LocalInv
  <2> QED
    BY <2>2, <2>3 DEF Inv
<1> QED
  BY <1>1, <1>2, <1>3, <1>4 DEF Next

LEMMA Invariant == Spec => []Inv
<1> QED
  BY InitInv, NextInv, PTL DEF Spec

-----------------------------------------------------------------------------
(* The theorems. *)

(* The register is a list of entries at every instant, also when power fails, and
   everything else keeps its type, for any number of commands (_scrivi_schedario
   and every handler of haadmin.py).                                          *)
THEOREM TypeCorrect == Spec => []TypeOK
<1>1. Inv => TypeOK
  <2> SUFFICES ASSUME Inv PROVE TypeOK
    OBVIOUS
  <2>1. /\ users \subseteq issued /\ issued \subseteq User /\ persons \subseteq Person
        /\ name \in [User -> Login \union {None}] /\ login \in [Login -> User \union {None}]
        /\ attr \in [Person -> User \union Person \union {None}]
    BY DEF Inv, HaTyped
  <2>2. /\ register \in SUBSET Entry
        /\ temp \in [Handler -> (SUBSET Entry) \union {Torn}]
    BY DEF Inv, Shared, Locals, File
  <2>3. \A h \in Handler : /\ cmd[h].op \in Command \union {None} /\ cmd[h].arg \in Request
                           /\ mine[h] \in Local
    BY Known
  <2> QED
    BY <2>1, <2>2, <2>3 DEF TypeOK
<1> QED
  BY <1>1, Invariant, PTL

(* What the portal is told of a person is a user that Home Assistant has listed, or
   nobody, whenever the list could be had (_on_fetch_users).                  *)
THEOREM ListedUsersExistHolds == Spec => []ListedUsersExist
<1>1. Inv => ListedUsersExist
  BY Known DEF ListedUsersExist, Hands
<1> QED
  BY <1>1, Invariant, PTL

(* Only the commands of passwords are left to look at: what they change is never an
   administrator's, but for the credentials of a username that the command brings
   along with the identifier of somebody else.                                *)
LEMMA PasswordSpares ==
    ASSUME Inv, NEW h \in Handler, PasswordStep(h), NEW n \in Login,
           login[n] \in Admin \/ login'[n] \in Admin, login'[n] # login[n]
    PROVE  pc[h] # pc'[h] /\ OfAnother(h)
<1> USE DEF None
<1>0. login \in [Login -> User \union {None}] /\ None \notin Admin /\ pc \in [Handler -> Pc]
  BY Known, SetsApart DEF HaTyped, Locals
<1>1. CASE ListUsers(h)
  BY <1>1 DEF ListUsers, ha
<1>2. CASE DeleteCredentials(h)
  <2>1. pc[h] = "delCredentials" /\ pc' = [pc EXCEPT ![h] = "recreate"]
    BY <1>2 DEF DeleteCredentials, At, Ask, Goto
  <2>2. /\ mine[h].user = Arg(h).auth \/ NotHeld(Arg(h).username, login)
        /\ mine[h].user \in User \ Admin
    BY <2>1, Known DEF Hands, Work, Arg
  <2>3. UNCHANGED login \/ login' = [login EXCEPT ![Arg(h).username] = None]
    BY <1>2 DEF DeleteCredentials, Ask, ha
  <2>4. n = Arg(h).username /\ login[n] \in Admin
    BY <1>0, <2>3
  <2>5. mine[h].user = Arg(h).auth /\ login[Arg(h).username] # Arg(h).auth
    BY <2>2, <2>4, SetsApart DEF NotHeld
  <2> QED
    BY <1>0, <2>1, <2>5 DEF OfAnother, At
<1>3. CASE Recreate(h)
  <2>1. mine[h].user \in User \ Admin
    BY <1>3, Known DEF Recreate, At, Work
  <2>2. \/ UNCHANGED login
        \/ /\ login[Arg(h).username] = None
           /\ login' = [login EXCEPT ![Arg(h).username] = mine[h].user]
    BY <1>3 DEF Recreate, Ask, ha
  <2> QED
    BY <1>0, <2>1, <2>2
<1> QED
  BY <1>1, <1>2, <1>3 DEF PasswordStep

LEMMA LoginMoves ==
    ASSUME Inv, NEW h \in Handler, Run(h), login' # login
    PROVE  \/ PasswordStep(h)
           \/ pc[h] # pc'[h] /\ ~InPassword(h)
<1> USE DEF None
<1>1. CreateCredentials(h) \/ DeleteUser(h) \/ DeleteFound(h) \/ PasswordStep(h)
  BY DEF Run, CreateStep, CreateAuth, Poll, CreatePerson, RegisterStep, Track, Untrack, OpenTemp,
         Sync, Replace, DeleteStep, DeletePerson, LookUp, FetchStep, FetchStates, ReadTracked,
         FetchUsers, UpdateStep, RenameUser, RenamePerson, ReplyStep, ReplyDone, ReplyFailed, Ask, ha
<1>2. CASE CreateCredentials(h)
  <2>1. pc[h] = "credentials" /\ \E to \in {"person", "fail"} : Goto(h, to)
    BY <1>2 DEF CreateCredentials, At, Ask
  <2>2. cmd[h].op = "create" /\ pc \in [Handler -> Pc]
    BY <2>1, Known DEF Course, Locals
  <2> QED
    BY <2>1, <2>2 DEF Goto, InPassword
<1>3. CASE DeleteUser(h) \/ DeleteFound(h)
  <2>1. pc[h] \in {"delUser", "delFound"} /\ \E to \in {"untrack", "fail"} : Goto(h, to)
    BY <1>3 DEF DeleteUser, DeleteFound, At, Ask
  <2>2. cmd[h].op = "delete" /\ pc \in [Handler -> Pc]
    BY <2>1, Known DEF Course, Locals
  <2> QED
    BY <2>1, <2>2 DEF Goto, InPassword
<1> QED
  BY <1>1, <1>2, <1>3

LEMMA NextLogin == Inv /\ [Next]_vars /\ login' # login => \E h \in Handler : Run(h)
BY DEF Next, vars, ha, Receive, Crash

(* No command about passwords sets one on an administrator's account, nor takes its
   credentials away, whatever its fields say, with an old list, with names that are
   spelt alike and in any race of several commands, but for one case: its identifier
   is that of a user who may be changed, its username somebody else's
   (_on_generate_password, the guard IsAdminInUserList and what comes after it). *)
THEOREM AdminUntouchedHolds == Spec => AdminUntouched
<1> DEFINE A == \A n \in Login :
                  (login[n] \in Admin \/ login'[n] \in Admin) /\ login'[n] # login[n]
                    => \E h \in Handler : pc[h] # pc'[h] /\ (InPassword(h) => OfAnother(h))
<1>1. Inv /\ [Next]_vars => A
  BY NextLogin, LoginMoves, PasswordSpares
<1>2. Inv /\ [Next]_vars => [A]_vars
  BY <1>1
<1> QED
  BY <1>2, Invariant, PTL DEF Spec, AdminUntouched

(* What a command takes out of the register, besides the person it deletes, is only
   what it did not see when it read (_add_tracked_user, _remove_tracked_user,
   _scrivi_schedario: no lock is held).                                       *)
THEOREM RewriteLosesOnlyUnseenHolds == Spec => RewriteLosesOnlyUnseen
<1> DEFINE A == \A e \in register \ register' : \E h \in Handler :
                  /\ At(h, "replace")
                  /\ e \notin mine[h].read \/ (cmd[h].op = "delete" /\ e.id = Arg(h).person)
<1>1. ASSUME Inv, [Next]_vars, NEW e \in register \ register'
      PROVE  \E h \in Handler :
                /\ At(h, "replace")
                /\ e \notin mine[h].read \/ (cmd[h].op = "delete" /\ e.id = Arg(h).person)
  <2>1. register' # register
    OBVIOUS
  <2>2. PICK h \in Handler : Replace(h)
    BY <1>1, <2>1 DEF Next, vars, disk, Receive, Crash, Run, CreateStep, CreateAuth, Poll,
         CreateCredentials, CreatePerson, RegisterStep, Track, Untrack, OpenTemp, Sync,
         DeleteStep, DeletePerson, DeleteUser, LookUp, DeleteFound, PasswordStep, ListUsers,
         DeleteCredentials, Recreate, FetchStep, FetchStates, ReadTracked, FetchUsers,
         UpdateStep, RenameUser, RenamePerson, ReplyStep, ReplyDone, ReplyFailed
  <2>3. pc[h] = "replace" /\ register' = temp[h]
    BY <2>1, <2>2 DEF Replace, At
  <2>4. /\ temp[h] = mine[h].entries
        /\ \A x \in mine[h].read \ mine[h].entries : cmd[h].op = "delete" /\ x.id = cmd[h].arg.person
    BY <1>1, <2>3, Known DEF Work
  <2> QED
    BY <1>1, <2>3, <2>4 DEF At, Arg
<1>2. Inv /\ [Next]_vars => [A]_vars
  BY <1>1
<1> QED
  BY <1>2, Invariant, PTL DEF Spec, RewriteLosesOnlyUnseen

=============================================================================
