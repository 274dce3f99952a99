------------------------------ MODULE Latency -------------------------------
(***************************************************************************)
(* The search for the nearest server (pingpong.py): rounds of pings, the   *)
(* averages of the last of them, and the override of the default server    *)
(* when another is nearer by more than the server asks for.  After the     *)
(* very first round the connection is asked to move.                       *)
(***************************************************************************)
EXTENDS WsProxy

CONSTANTS
    Server,         \* the servers there are
    Times,          \* what a ping may take
    Threshold,      \* AutoLowestLatencyThresholdRttMs
    Keep,           \* pings kept for each server
    MaxRounds       \* bound: rounds of pings

ASSUME LatencyAssumption ==
    Times \subseteq Nat /\ Threshold \in Nat /\ Keep \in Nat \ {0} /\ MaxRounds \in Nat

VARIABLES
    pinger,     \* where PingPong's thread stands
    first,      \* lastWorkTime was 0 when the round began
    worked,     \* LastWorkTime is not 0
    pings,      \* ServerStats: the pings of each server it knows
    best,       \* LowestLatencyServerSub
    told,       \* the callback has been taken
    rounds

pingVars == <<pinger, first, worked, pings, best, told, rounds>>

Failed == 0

\* A ping returns the shortest time of its tries, or nothing.
PingResult == Times \cup {Failed}

NoPings == [s \in Server |-> <<>>]

\* The file may be there from an earlier start, with an override or without.
PingInit ==
    /\ pinger = "rest" /\ first = FALSE /\ told = FALSE /\ rounds = 0
    /\ worked \in BOOLEAN /\ best \in {"none"} \cup {s \in Server : worked}
    /\ pings \in {NoPings} \cup {[NoPings EXCEPT ![s] = <<t>>] : s \in Server \cap {best}, t \in Times}

BeginRound ==
    /\ pinger = "rest" /\ rounds < MaxRounds
    /\ first' = ~worked /\ pinger' = "save" /\ rounds' = rounds + 1
    /\ UNCHANGED <<worked, pings, best, told>>

\* A file that cannot be written: everything is forgotten.
ResetStats == worked' = FALSE /\ best' = "none" /\ pings' = NoPings

\* The time is noted before the work.
SaveTime ==
    /\ pinger = "save" /\ pinger' = "ping"
    /\ \/ worked' = TRUE /\ UNCHANGED <<pings, best>>
       \/ ResetStats
    /\ UNCHANGED <<first, told, rounds>>

LastOf(s) == IF Len(s) <= Keep THEN s ELSE SubSeq(s, Len(s) - Keep + 1, Len(s))
Good(s) == SelectSeq(s, LAMBDA t : t # Failed)
Average(s) == FoldSeq(LAMBDA t, sum : t + sum, 0, Good(s)) \div Len(Good(s))

\* The servers that answered at least once, and the nearest of them.
Answering(p) == {s \in Server : Len(Good(p[s])) > 0}
Nearest(p) == {s \in Answering(p) : \A o \in Answering(p) : Average(p[s]) <= Average(p[o])}

\* The override.  Without an average of the default server the old one stays.
Chosen(p, low, default) ==
    IF default \notin Answering(p) THEN best
    ELSE IF Average(p[default]) - Average(p[low]) > Threshold THEN low ELSE "none"

\* _UpdateStats and _ComputeStats: servers the default one does not list any
\* more are forgotten.
UpdateStats ==
    /\ pinger = "ping" /\ pinger' = "tell"
    /\ \/ UNCHANGED <<worked, pings, best>>         \* the default server does not answer
       \/ ResetStats
       \/ \E listed \in SUBSET Server \ {{}}, default \in Server :
             \E result \in [listed -> PingResult] :
                LET p == [s \in Server |->
                             IF s \in listed THEN LastOf(Append(pings[s], result[s])) ELSE <<>>] IN
                /\ pings' = p /\ UNCHANGED worked
                /\ IF Nearest(p) = {} THEN UNCHANGED best
                   ELSE \E low \in Nearest(p) : best' = Chosen(p, low, default)
    /\ UNCHANGED <<first, told, rounds>>

\* OnFirstRunLatencyDataComplete, only after a first round, and once.
FirstRunComplete ==
    /\ pinger = "tell" /\ Free(Pinger) /\ pinger' = "rest"
    /\ told' = (told \/ (first /\ best # "none"))
    /\ IF told' # told
       THEN noWait' = TRUE /\ Become(Pinger, "flag")
       ELSE UNCHANGED <<noWait, job>>
    /\ UNCHANGED <<loop, active, disconnecting, connecting, blocked, endpoint, backoff, ws, sock,
                   errors, session, accepting, aged, todo, secondary, first, worked, pings, best,
                   rounds>>

PingStep == BeginRound \/ SaveTime \/ UpdateStats
=============================================================================
