--------------------------- MODULE Promises_proofs ---------------------------
(***************************************************************************)
(* What the two abstract specifications promise, for any number of users   *)
(* and connections: the booking of players is exclusive, and everybody who *)
(* connects has one fate.                                                  *)
(***************************************************************************)
EXTENDS TLAPS

CONSTANTS Names, GMs, LeftOut, Conns, Endless

VARIABLES booked, players, knocking, seated, turned_away

Booking == INSTANCE Bookings
Admission == INSTANCE Admissions

\* Handing out two free players at a time is enough to keep games apart.
THEOREM ExclusiveAlways == Booking!Spec => []Booking!Exclusive
<1> DEFINE Inv == Booking!Exclusive /\ booked \in [GMs -> SUBSET Names]
<1>1. Booking!Init => Inv
  BY DEF Booking!Init, Booking!Exclusive
<1>2. Inv /\ [Booking!Next]_booked => Inv'
  <2> SUFFICES ASSUME Inv, [Booking!Next]_booked PROVE Inv'
    OBVIOUS
  <2>1. ASSUME NEW g \in GMs, Booking!Book(g) PROVE Inv'
    <3> PICK a, b \in Names \ Booking!Busy : a # b /\ booked' = [booked EXCEPT ![g] = {a, b} \ LeftOut]
      BY <2>1 DEF Booking!Book
    <3>1. \A h \in GMs : booked'[h] = IF h = g THEN {a, b} \ LeftOut ELSE booked[h]
      OBVIOUS
    <3>2. \A h \in GMs : a \notin booked[h] /\ b \notin booked[h]
      BY DEF Booking!Busy
    <3> QED BY <3>1, <3>2 DEF Booking!Exclusive
  <2>2. ASSUME NEW g \in GMs, Booking!Release(g) PROVE Inv'
    BY <2>2 DEF Booking!Release, Booking!Exclusive
  <2>3. CASE UNCHANGED booked
    BY <2>3 DEF Booking!Exclusive
  <2> QED BY <2>1, <2>2, <2>3 DEF Booking!Next
<1>3. Inv => Booking!Exclusive
  OBVIOUS
<1> QED BY <1>1, <1>2, <1>3, PTL DEF Booking!Spec

\* Deciding only about those who wait, and by the table, is enough for one fate each.
THEOREM OneFateAlways == Admission!Spec => []Admission!OneFate
<1>1. Admission!Init => Admission!OneFate
  BY DEF Admission!Init, Admission!OneFate
<1>2. Admission!OneFate /\ [Admission!Next]_(Admission!avars) => Admission!OneFate'
  <2> SUFFICES ASSUME Admission!OneFate, [Admission!Next]_(Admission!avars)
               PROVE  Admission!OneFate'
    OBVIOUS
  <2>1. ASSUME NEW c \in Conns, Admission!Knock(c) PROVE Admission!OneFate'
    BY <2>1 DEF Admission!Knock, Admission!Known, Admission!OneFate
  <2>2. ASSUME NEW c \in Conns, Admission!TakeIn(c) PROVE Admission!OneFate'
    <3> PICK n \in players : seated' = seated \cup {Admission!Seat(c, n)}
      BY <2>2 DEF Admission!TakeIn
    <3>1. Admission!Seat(c, n).name = n /\ Admission!Seat(c, n).conn = c
      BY DEF Admission!Seat
    <3>2. \A s \in seated : s.conn # c
      BY <2>2 DEF Admission!TakeIn, Admission!OneFate
    <3> QED BY <2>2, <3>1, <3>2 DEF Admission!TakeIn, Admission!OneFate
  <2>3. ASSUME NEW c \in Conns, Admission!TurnAway(c) PROVE Admission!OneFate'
    BY <2>3 DEF Admission!TurnAway, Admission!OneFate
  <2>4. ASSUME NEW n \in Names, Admission!Register(n) PROVE Admission!OneFate'
    BY <2>4 DEF Admission!Register, Admission!OneFate
  <2>5. CASE UNCHANGED Admission!avars
    BY <2>5 DEF Admission!avars, Admission!OneFate
  <2> QED BY <2>1, <2>2, <2>3, <2>4, <2>5 DEF Admission!Next
<1> QED BY <1>1, <1>2, PTL DEF Admission!Spec

=============================================================================
