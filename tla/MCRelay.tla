------------------------------- MODULE MCRelay ------------------------------
(* Values for the constants of Relay. *)
EXTENDS Relay

MCNoise == {10}
MCExtra == {43200}

Open(kind, size, known, only, done) ==
    [type |-> "open", kind |-> kind, size |-> size, known |-> known, only |-> only, done |-> done]
Data(kind, size, done) ==
    [type |-> "data", kind |-> kind, size |-> size, known |-> 0, only |-> FALSE, done |-> done]
Close(kind) == [Nothing EXCEPT !.kind = kind]

MCGiven ==
    [alone |-> {},
     line |-> {<<1, Open("http", 0, 0, FALSE, TRUE)>>, <<1, Close("http")>>,
               <<2, Open("http", 0, 0, TRUE, FALSE)>>},
     upload |-> {1} \X ({Open("http", size, known, FALSE, done) :
                            size \in 0..1, known \in {0, 2}, done \in BOOLEAN}
                        \cup {Data("http", size, done) : size \in 1..2, done \in BOOLEAN}
                        \cup {Close("http")}),
     page |-> {1} \X {Open("http", 0, 0, FALSE, TRUE), Close("http")},
     socket |-> {1} \X {Open("ws", 0, 0, TRUE, FALSE), Data("ws", 1, FALSE), Close("ws")},
     ping |-> {}]
=============================================================================
