------------------------------ MODULE WsService -----------------------------
(***************************************************************************)
(* What websocketimpl.Client promises to the one who uses it: messages go  *)
(* out once each in the order they were accepted until the client is dead, *)
(* and the two final callbacks come at most once each, the error's first   *)
(* when the error was noticed before the close fell due.                   *)
(***************************************************************************)
EXTENDS Naturals, Sequences

CONSTANT Message

VARIABLES
    backlog,    \* accepted and not yet sent
    wire,       \* sent, in order
    dead,       \* nothing more will be sent
    error,      \* "none", "noticed", or "told" when its callback was called
    closed      \* the close callback: "no", "due", "told"

vars == <<backlog, wire, dead, error, closed>>

Init ==
    /\ backlog = <<>> /\ wire = <<>> /\ dead = FALSE
    /\ error = "none" /\ closed = "no"

Accept(m) ==
    /\ \A i \in 1..Len(wire \o backlog) : (wire \o backlog)[i] # m
    /\ backlog' = Append(backlog, m)
    /\ UNCHANGED <<wire, dead, error, closed>>

Transmit ==
    /\ ~dead /\ backlog # <<>>
    /\ wire' = Append(wire, Head(backlog))
    /\ backlog' = Tail(backlog)
    /\ UNCHANGED <<dead, error, closed>>

Die ==
    /\ ~dead /\ dead' = TRUE
    /\ UNCHANGED <<backlog, wire, error, closed>>

Forget ==
    /\ dead
    /\ \E n \in 1..Len(backlog) : backlog' = SubSeq(backlog, n + 1, Len(backlog))
    /\ UNCHANGED <<wire, dead, error, closed>>

NoticeError ==
    /\ error = "none" /\ error' = "noticed"
    /\ UNCHANGED <<backlog, wire, dead, closed>>

TellError ==
    /\ error = "noticed" /\ error' = "told"
    /\ UNCHANGED <<backlog, wire, dead, closed>>

CloseDue ==
    /\ closed = "no" /\ error # "noticed"
    /\ closed' = "due"
    /\ UNCHANGED <<backlog, wire, dead, error>>

TellClose ==
    /\ closed = "due" /\ closed' = "told"
    /\ UNCHANGED <<backlog, wire, dead, error>>

Next ==
    \/ \E m \in Message : Accept(m)
    \/ Transmit \/ Die \/ Forget
    \/ NoticeError \/ TellError \/ CloseDue \/ TellClose

Spec == Init /\ [][Next]_vars
=============================================================================
