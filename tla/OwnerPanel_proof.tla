--------------------------- MODULE OwnerPanel_proof ---------------------------
(***************************************************************************)
(* While a house has had one owner at most, the panel shows the house to   *)
(* nobody but its administrators and that owner, for any set of users.     *)
(*                                                                         *)
(* The panel compares the user who asks with identifiers it read at        *)
(* different times: from a report, from an event, from Home Assistant.     *)
(* The inductive invariant says of each of them, wherever it is waiting,   *)
(* that it is nobody, an identifier that no user has, or the owner's.      *)
(***************************************************************************)
EXTENDS OwnerPanel, TLAPS

(* The identifiers that may be anywhere, and the usernames. *)
Owned == {None, Bad, row.username}
Named == {None, row.username}

Claims == {"registering", "open", "VERIFIED"}
Shown == Claims \union {None, "tools", "closed", "link", "unreachable", "wiped"}
Pc == {"idle", "claim", "owner", "resolve", "compare", "keep", "known",
       "send", "emit", "empty", "admin", "answer"}

RowOK ==
    /\ row \in [auth : Owned, username : User \union {None}]
    /\ owners \in Nat
    /\ owners = 0 => row.username = None

FieldsOK ==
    /\ announced \subseteq Owned
    /\ OwnerAuthId \in Owned /\ OwnerAuthIdRisolto \in Owned /\ box \in Owned
    /\ OwnerUsername \in Named /\ claim \in Claims

Locals == [found : Owned, out : Owned, send : Owned,
           answer : [auth : Owned, username : Named]]

ThreadsOK == mine \in [Sender -> Locals] /\ pc \in [Sender -> Pc]

RequestOK ==
    /\ request \in [route : Route \union {None}, user : User \union {None}, shown : Shown]
    /\ pc["panel"] # "idle" => request.user \in User
    /\ pc["panel"] = "idle" => request.shown = None
    /\ StrangerRefused

Inv == RowOK /\ FieldsOK /\ ThreadsOK /\ RequestOK

USE UserAssumption DEF None, Bad, Claims, Shown, Pc, Route

-----------------------------------------------------------------------------
LEMMA InitInv == Init => Inv
  BY DEF Init, Inv, RowOK, FieldsOK, Locals, ThreadsOK, RequestOK, StrangerRefused,
         Owned, Named, Sender, Resolver, Blank, NoRequest

(* The claim is the first one: until then every identifier was nobody's, or Bad. *)
LEMMA ClaimInv ==
  ASSUME MaxOwners <= 1, Inv, NEW u \in User, Claim(u)
  PROVE  Inv'
<1>1. owners = 0 /\ row.username = None
  BY DEF Claim, Inv, RowOK
<1>2. row'.username = u /\ row'.auth \in {u, Bad} /\ owners' = 1
  BY <1>1 DEF Claim
<1>3. Owned \subseteq Owned' /\ Named \subseteq Named'
  BY <1>1, <1>2 DEF Owned, Named
<1>4. RowOK'
  BY <1>2 DEF Claim, RowOK, Owned
<1>5. FieldsOK'
  <2>1. PICK a \in {u, Bad} :
          announced' = IF link = "up" THEN announced \union {a} ELSE announced
    BY DEF Claim
  <2>2. announced' \subseteq Owned'
    BY <1>2, <1>3, <2>1 DEF Inv, FieldsOK, Owned
  <2> QED
    BY <1>3, <2>2 DEF Claim, fields, Inv, FieldsOK
<1>6. ThreadsOK'
  BY <1>3 DEF Claim, Inv, ThreadsOK, Locals
<1>7. RequestOK'
  <2>1. UNCHANGED <<pc, request>>
    BY DEF Claim
  <2>2. request.shown \in {"registering", "open", "VERIFIED", "link"} => request.user \in Admin
    BY <1>1 DEF Inv, RequestOK, StrangerRefused
  <2> QED
    BY <2>1, <2>2 DEF Inv, RequestOK, StrangerRefused
<1> QED
  BY <1>4, <1>5, <1>6, <1>7 DEF Inv

(* What a step leaves the backend's row alone leaves of the invariant. *)
LEMMA RowKept ==
  ASSUME Inv, UNCHANGED row, UNCHANGED owners
  PROVE  RowOK' /\ Owned' = Owned /\ Named' = Named /\ Locals' = Locals
  BY DEF Inv, RowOK, Owned, Named, Locals

(* What a step that is not of the panel leaves of the request: the panel was asked
   before it goes on.                                                          *)
LEMMA RequestKept ==
  ASSUME Inv, UNCHANGED request, row'.username = row.username,
         (pc'["panel"] # "idle") <=> (pc["panel"] # "idle")
  PROVE  RequestOK'
  BY DEF Inv, RequestOK, StrangerRefused

(* The resolution and the correction, on whatever thread. *)
LEMMA ResolverInv ==
  ASSUME Inv, NEW t \in Resolver, ResolveStep(t)
  PROVE  Inv'
<1>1. RowOK' /\ Owned' = Owned /\ Named' = Named /\ Locals' = Locals
  BY RowKept DEF ResolveStep, ReadOwner, Resolve, Compare, Keep, backend
<1>2. t \in Sender /\ mine[t] \in Locals
  BY DEF Inv, ThreadsOK, Sender
<1>3. FieldsOK'
  <2>1. /\ announced' = announced /\ OwnerAuthId' = OwnerAuthId /\ OwnerUsername' = OwnerUsername
        /\ claim' = claim /\ OwnerAuthIdRisolto' \in {OwnerAuthIdRisolto, mine[t].found}
        /\ box' \in {box, mine[t].found}
    BY DEF ResolveStep, ReadOwner, Resolve, Compare, Keep, backend, fields
  <2>2. mine[t].found \in Owned
    BY <1>2 DEF Locals
  <2> QED
    BY <1>1, <2>1, <2>2 DEF Inv, FieldsOK
<1>4. ThreadsOK'
  <2>1. CASE ReadOwner(t)
    <3>1. /\ \E field \in {"out", "found"}, value \in Owned : Set(t, field, value)
          /\ \E to \in {"known", "resolve"} : Goto(t, to)
      BY <2>1 DEF ReadOwner, Inv, FieldsOK, Owned, Named
    <3>2. mine' \in [Sender -> Locals]
      BY <1>2, <3>1 DEF Set, Inv, ThreadsOK, Locals
    <3>3. pc' \in [Sender -> Pc]
      BY <3>1 DEF Goto, Inv, ThreadsOK
    <3> QED
      BY <1>1, <3>2, <3>3 DEF ThreadsOK
  <2>2. CASE Resolve(t)
    <3>1. /\ UNCHANGED mine \/ Set(t, "out", OwnerAuthId)
          /\ \E to \in {"compare", "known"} : Goto(t, to)
      BY <2>2 DEF Resolve
    <3>2. OwnerAuthId \in Owned
      BY DEF Inv, FieldsOK
    <3>3. mine' \in [Sender -> Locals]
      BY <1>2, <3>1, <3>2 DEF Set, Inv, ThreadsOK, Locals
    <3>4. pc' \in [Sender -> Pc]
      BY <3>1 DEF Goto, Inv, ThreadsOK
    <3> QED
      BY <1>1, <3>3, <3>4 DEF ThreadsOK
  <2>3. CASE Compare(t)
    <3>1. UNCHANGED mine /\ \E to \in {"send", "keep"} : Goto(t, to)
      BY <2>3 DEF Compare
    <3>2. pc' \in [Sender -> Pc]
      BY <3>1 DEF Goto, Inv, ThreadsOK
    <3> QED
      BY <1>1, <3>1, <3>2 DEF Inv, ThreadsOK
  <2>4. CASE Keep(t)
    <3>1. Set(t, "out", mine[t].found) /\ Goto(t, "known")
      BY <2>4 DEF Keep
    <3>2. mine[t].found \in Owned
      BY <1>2 DEF Locals
    <3>3. mine' \in [Sender -> Locals]
      BY <1>2, <3>1, <3>2 DEF Set, Inv, ThreadsOK, Locals
    <3>4. pc' \in [Sender -> Pc]
      BY <3>1 DEF Goto, Inv, ThreadsOK
    <3> QED
      BY <1>1, <3>3, <3>4 DEF ThreadsOK
  <2> QED
    BY <2>1, <2>2, <2>3, <2>4 DEF ResolveStep
<1>5. RequestOK'
  <2>1. UNCHANGED <<row, request>>
    BY DEF ResolveStep, ReadOwner, Resolve, Compare, Keep, backend
  <2>2. pc[t] # "idle" /\ \E to \in Pc \ {"idle"} : Goto(t, to)
    BY DEF ResolveStep, ReadOwner, Resolve, Compare, Keep, At
  <2>3. (pc'["panel"] # "idle") <=> (pc["panel"] # "idle")
    BY <1>2, <2>2 DEF Goto, Inv, ThreadsOK
  <2> QED
    BY <2>1, <2>3, RequestKept
<1> QED
  BY <1>1, <1>3, <1>4, <1>5 DEF Inv

LEMMA SenderInv ==
  ASSUME Inv, NEW t \in Sender, SendStep(t)
  PROVE  Inv'
<1>1. row' \in [auth : Owned, username : User \union {None}] /\ row'.username = row.username
  BY DEF SendStep, LookInBox, Emit, EmptyBox, backend, Inv, RowOK, ThreadsOK, Locals
<1>2. Owned' = Owned /\ Named' = Named /\ Locals' = Locals
  BY <1>1 DEF Owned, Named, Locals
<1>3. RowOK'
  BY <1>1, <1>2 DEF SendStep, LookInBox, Emit, EmptyBox, backend, Inv, RowOK
<1>4. FieldsOK'
  BY <1>2 DEF SendStep, LookInBox, Emit, EmptyBox, backend, fields, Inv, FieldsOK, Owned
<1>5. ThreadsOK'
  <2>1. /\ UNCHANGED mine \/ \E value \in Owned : Set(t, "send", value)
        /\ \E to \in Pc : Goto(t, to)
    BY DEF SendStep, LookInBox, Emit, EmptyBox, AfterSend, Inv, FieldsOK, Owned
  <2>2. mine' \in [Sender -> Locals]
    BY <2>1 DEF Set, Inv, ThreadsOK, Locals
  <2>3. pc' \in [Sender -> Pc]
    BY <2>1 DEF Goto, Inv, ThreadsOK
  <2> QED
    BY <1>2, <2>2, <2>3 DEF ThreadsOK
<1>6. RequestOK'
  <2>1. UNCHANGED request
    BY DEF SendStep, LookInBox, Emit, EmptyBox
  <2>2. /\ pc[t] # "idle"
        /\ \E to \in Pc : Goto(t, to) /\ (t \in Resolver => to # "idle")
    BY DEF SendStep, LookInBox, Emit, EmptyBox, At, AfterSend
  <2>3. (pc'["panel"] # "idle") <=> (pc["panel"] # "idle")
    BY <2>2 DEF Goto, Resolver, Inv, ThreadsOK
  <2> QED
    BY <1>1, <2>1, <2>3, RequestKept
<1> QED
  BY <1>3, <1>4, <1>5, <1>6 DEF Inv

-----------------------------------------------------------------------------
(* The event, the report and what only the loop and the world do. *)
LEMMA EventInv ==
  ASSUME Inv, NEW a \in announced, OwnerChanged(a)
  PROVE  Inv'
<1>1. RowOK' /\ Owned' = Owned /\ Named' = Named /\ Locals' = Locals
  BY RowKept DEF OwnerChanged
<1>2. FieldsOK'
  BY <1>1 DEF OwnerChanged, SetOwner, Inv, FieldsOK
<1>3. ThreadsOK' /\ RequestOK'
  BY <1>1, RequestKept DEF OwnerChanged, Inv, ThreadsOK
<1> QED
  BY <1>1, <1>2, <1>3 DEF Inv

LEMMA ReporterInv ==
  ASSUME Inv, ReporterStep
  PROVE  Inv'
<1>1. RowOK' /\ Owned' = Owned /\ Named' = Named /\ Locals' = Locals
  BY RowKept DEF ReporterStep, Report, ApplyReport, ReportDone, backend
<1>2. "reporter" \in Sender /\ "reporter" # "panel" /\ mine["reporter"] \in Locals
  BY DEF Inv, ThreadsOK, Sender, Resolver
<1>3. FieldsOK'
  BY <1>1, <1>2 DEF ReporterStep, Report, ApplyReport, ReportDone, backend, fields,
     SetOwner, Inv, FieldsOK, Locals
<1>4. row \in [auth : Owned, username : Named]
  BY DEF Inv, RowOK, Named
<1>5. ThreadsOK'
  <2>1. Blank \in Locals
    BY DEF Blank, Locals, Owned, Named
  <2>2. mine' \in [Sender -> Locals]
    BY <1>2, <1>4, <2>1 DEF ReporterStep, Report, ApplyReport, ReportDone,
       Inv, ThreadsOK, Set, Forget, Locals
  <2>3. pc' \in [Sender -> Pc]
    BY DEF ReporterStep, Report, ApplyReport, ReportDone, Inv, ThreadsOK, Goto
  <2> QED
    BY <1>1, <2>2, <2>3 DEF ThreadsOK
<1>6. RequestOK'
  <2>1. UNCHANGED <<row, request>> /\ pc'["panel"] = pc["panel"]
    <3>1. \E to \in Pc : Goto("reporter", to)
      BY DEF ReporterStep, Report, ApplyReport, ReportDone
    <3>2. pc'["panel"] = pc["panel"]
      BY <3>1 DEF Goto, Inv, ThreadsOK, Sender, Resolver
    <3> QED
      BY <3>2 DEF ReporterStep, Report, ApplyReport, ReportDone, backend
  <2> QED
    BY <2>1, RequestKept
<1> QED
  BY <1>1, <1>3, <1>5, <1>6 DEF Inv

LEMMA WorldInv ==
  ASSUME Inv, LinkLost \/ LinkUp \/ HaChanges \/ LoopTurn
  PROVE  Inv'
<1>1. RowOK' /\ Owned' = Owned /\ Named' = Named /\ Locals' = Locals
  BY RowKept DEF LinkLost, LinkUp, HaChanges, LoopTurn, backend
<1>2. FieldsOK' /\ ThreadsOK'
  BY <1>1 DEF LinkLost, LinkUp, HaChanges, LoopTurn, backend, fields, Inv, FieldsOK, ThreadsOK
<1>3. RequestOK'
  <2>1. UNCHANGED <<row, request>> /\ pc'["panel"] = pc["panel"]
    BY DEF LinkLost, LinkUp, HaChanges, LoopTurn, backend, Inv, ThreadsOK, Sender, Resolver
  <2> QED
    BY <2>1, RequestKept
<1> QED
  BY <1>1, <1>2, <1>3 DEF Inv

-----------------------------------------------------------------------------
(* What the panel is asked, and what it answers. *)
LEMMA AskInv ==
  ASSUME Inv, NEW route \in Route, NEW u \in User, Ask(route, u)
  PROVE  Inv'
<1>1. RowOK' /\ Owned' = Owned /\ Named' = Named /\ Locals' = Locals
  BY RowKept DEF Ask, backend
<1>2. FieldsOK' /\ ThreadsOK'
  BY <1>1 DEF Ask, backend, fields, Goto, Inv, FieldsOK, ThreadsOK
<1>3. RequestOK'
  BY DEF Ask, Inv, ThreadsOK, RequestOK, StrangerRefused
<1> QED
  BY <1>1, <1>2, <1>3 DEF Inv

(* An answer is fit when it shows the house to nobody else. *)
LEMMA AnswerInv ==
  ASSUME Inv, UNCHANGED row, pc["panel"] # "idle", NEW shown \in Shown, Answer(shown),
         shown \in Claims \union {"link"} => request.user \in Admin \union {row.username}
  PROVE  RequestOK'
<1>1. request' \in [route : Route \union {None}, user : User \union {None}, shown : Shown]
      /\ request'.user = request.user /\ request'.shown = shown
  BY DEF Answer, Inv, RequestOK
<1>2. pc'["panel"] = "answer"
  BY DEF Answer, Goto, Inv, ThreadsOK, Sender, Resolver
<1> QED
  BY <1>1, <1>2 DEF Inv, RequestOK, StrangerRefused

(* The comparison that admits the owner: what the thread found is Owned, and of the
   three only the owner is a user.                                             *)
LEMMA PanelInv ==
  ASSUME Inv, PanelStep
  PROVE  Inv'
<1>1. RowOK' /\ Owned' = Owned /\ Named' = Named /\ Locals' = Locals
  BY RowKept DEF PanelStep, ShowPage, PanelLink, FactoryReset, Sent, backend
<1>2. "panel" \in Sender /\ mine["panel"] \in Locals
  BY DEF Inv, ThreadsOK, Sender, Resolver
<1>3. FieldsOK'
  BY <1>1 DEF PanelStep, ShowPage, PanelLink, FactoryReset, Sent, backend, fields, Inv, FieldsOK
<1>4. ThreadsOK'
  <2>1. Blank \in Locals
    BY DEF Blank, Locals, Owned, Named
  <2> QED
    BY <1>1, <1>2, <2>1 DEF PanelStep, ShowPage, PanelLink, FactoryReset, Sent, Answer,
       Inv, ThreadsOK, Forget, Goto
<1>5. pc["panel"] # "idle" => /\ request.user \in User
                              /\ IsOwner(request.user, mine["panel"].out)
                                   => request.user = row.username
  BY <1>2 DEF Inv, RequestOK, IsOwner, Locals, Owned
<1>6. RequestOK'
  <2>1. CASE ShowPage
    <3>1. pc["panel"] # "idle" /\ UNCHANGED row
      BY <2>1 DEF ShowPage, At, backend
    <3>2. PICK admin \in {"yes", "no", "unknown"} :
            Answer(IF admin = "yes" THEN "tools"
                   ELSE IF IsOwner(request.user, mine["panel"].out) THEN claim
                   ELSE "closed")
      BY <2>1 DEF ShowPage
    <3>3. claim \in Claims
      BY DEF Inv, FieldsOK
    <3> QED
      BY <1>5, <3>1, <3>2, <3>3, AnswerInv
  <2>2. CASE PanelLink
    <3>1. pc["panel"] # "idle" /\ UNCHANGED row
      BY <2>2 DEF PanelLink, At, backend
    <3>2. PICK admin \in {"yes", "no", "unknown"} :
            /\ AdminCheck(request.user, admin)
            /\ IF admin = "yes" \/ IsOwner(request.user, mine["panel"].out)
               THEN Answer("link") \/ Answer("unreachable")
               ELSE Answer("closed")
      BY <2>2 DEF PanelLink
    <3>3. admin = "yes" => request.user \in Admin
      BY <3>2 DEF AdminCheck
    <3> QED
      BY <1>5, <3>1, <3>2, <3>3, AnswerInv
  <2>3. CASE FactoryReset
    BY <2>3, AnswerInv DEF FactoryReset, At, backend
  <2>4. CASE Sent
    BY <2>4, <1>2 DEF Sent, NoRequest, Goto, Inv, ThreadsOK, RequestOK, StrangerRefused
  <2> QED
    BY <2>1, <2>2, <2>3, <2>4 DEF PanelStep
<1> QED
  BY <1>1, <1>3, <1>4, <1>6 DEF Inv

-----------------------------------------------------------------------------
LEMMA StutterInv ==
  ASSUME Inv, UNCHANGED vars
  PROVE  Inv'
  BY DEF vars, backend, world, fields, Inv, RowOK, FieldsOK, ThreadsOK, Locals, RequestOK,
     StrangerRefused, Owned, Named

LEMMA NextInv ==
  ASSUME MaxOwners <= 1, Inv, [Next]_vars
  PROVE  Inv'
<1>1. CASE \E u \in User : Claim(u)
  BY <1>1, ClaimInv
<1>2. CASE LinkLost \/ LinkUp \/ HaChanges \/ LoopTurn
  BY <1>2, WorldInv
<1>3. CASE \E a \in announced : OwnerChanged(a)
  BY <1>3, EventInv
<1>4. CASE \E t \in Resolver : ResolveStep(t)
  BY <1>4, ResolverInv
<1>5. CASE \E t \in Sender : SendStep(t)
  BY <1>5, SenderInv
<1>6. CASE ReporterStep
  BY <1>6, ReporterInv
<1>7. CASE PanelStep
  BY <1>7, PanelInv
<1>8. CASE \E route \in Route, u \in User : Ask(route, u)
  BY <1>8, AskInv
<1>9. CASE UNCHANGED vars
  BY <1>9, StutterInv
<1> QED
  BY <1>1, <1>2, <1>3, <1>4, <1>5, <1>6, <1>7, <1>8, <1>9 DEF Next, Environment

(* StrangerRefused: however the reports, the events, the resolution on two threads and
   the corrections interleave, ProprietarioAuthId never admits a user whom the
   backend does not name, nor anybody before the claim.                        *)
THEOREM StrangerRefusedHolds == MaxOwners <= 1 => (Spec => []StrangerRefused)
<1>1. Inv => StrangerRefused
  BY DEF Inv, RequestOK
<1>2. ASSUME MaxOwners <= 1 PROVE Spec => []StrangerRefused
  <2>1. Inv /\ [Next]_vars => Inv'
    BY <1>2, NextInv
  <2> QED
    BY <1>1, <2>1, InitInv, PTL DEF Spec
<1> QED
  BY <1>2

=============================================================================
