---------------------------- MODULE MCNextAction ----------------------------
EXTENDS NextAction

At(time) == [local |-> FALSE, at |-> time]
Local(time) == [local |-> TRUE, at |-> time]

\* The clock of the user jumps from 2 to 3: the reading 2, which it never
\* shows, names an instant after that of the reading 3.
MCLocalToUtc == <<0, 2, 1>> @@ (0 :> 0)

Contents(starts, deadlines, priorities) ==
    [start : starts, deadline : deadlines, priority : priorities]

\* A task that is overdue from 2 on, and two that contend with it and with
\* each other.
MCCatalogs ==
    { (1 :> a @@ 2 :> b @@ 3 :> c) :
        a \in Contents({NoDate, At(1)}, {NoDate, At(0), At(2), Local(3)}, {1}),
        b \in Contents({NoDate}, {At(1)}, {1}),
        c \in Contents({NoDate, At(1), Local(2)},
                       {NoDate, At(0), Local(3), At(3)}, {0, 1, 2}) }
=============================================================================
