----------------------------- MODULE Admissions -----------------------------
(***************************************************************************)
(* What the accept loop and the connection loops promise together: whoever *)
(* connects is either seated, once and under the name of a registered      *)
(* user, or turned away, and does not wait forever to learn which, unless  *)
(* its own client keeps the server waiting.                                *)
(***************************************************************************)
CONSTANTS
  Conns,   \* TCP connections
  Names,   \* usernames
  Endless  \* connections whose client may keep the server waiting

VARIABLES
  players,      \* the registered users
  knocking,     \* connections nothing is decided about
  seated,       \* the players handed over to the player manager
  turned_away   \* connections that came to nothing

avars == <<players, knocking, seated, turned_away>>

Seat(c, n) == [name |-> n, conn |-> c]
Seats == [name : Names, conn : Conns]

Known == knocking \cup turned_away \cup {s.conn : s \in seated}

Knock(c) ==
  /\ c \notin Known
  /\ knocking' = knocking \cup {c}
  /\ UNCHANGED <<players, seated, turned_away>>

TakeIn(c) ==
  /\ c \in knocking
  /\ \E n \in players : seated' = seated \cup {Seat(c, n)}
  /\ knocking' = knocking \ {c}
  /\ UNCHANGED <<players, turned_away>>

TurnAway(c) ==
  /\ c \in knocking
  /\ knocking' = knocking \ {c}
  /\ turned_away' = turned_away \cup {c}
  /\ UNCHANGED <<players, seated>>

Register(n) ==
  /\ players' = players \cup {n}
  /\ UNCHANGED <<knocking, seated, turned_away>>

Init ==
  /\ players \in SUBSET Names
  /\ knocking = {} /\ seated = {} /\ turned_away = {}

Next ==
  \/ \E c \in Conns : Knock(c) \/ TakeIn(c) \/ TurnAway(c)
  \/ \E n \in Names : Register(n)

\* Nobody is left waiting but by his own doing; whether anybody comes is not promised.
Spec ==
  /\ Init /\ [][Next]_avars
  /\ \A c \in Conns \ Endless : WF_avars(TakeIn(c) \/ TurnAway(c))

-----------------------------------------------------------------------------
\* What authentication in connection_loop is for: a connection has one fate at most, it is
\* seated under one name, and the name is that of a registered user.
OneFate ==
  /\ \A s \in seated : s.name \in players /\ s.conn \notin knocking \cup turned_away
  /\ \A s, t \in seated : s.conn = t.conn => s = t
  /\ knocking \cap turned_away = {}

=============================================================================
