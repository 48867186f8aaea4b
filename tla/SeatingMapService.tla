------------------------- MODULE SeatingMapService --------------------------
(***************************************************************************)
(* What the seating-map cache promises to whoever asks for the map of an   *)
(* event, with no key, mutex or waiting loop in sight.  A reader takes the *)
(* map of the moment, or the one published last, and gets it as its answer *)
(* only when it has been published: the next reader never gets an older    *)
(* one.  Only after somebody came too late may an older map turn up.       *)
(***************************************************************************)
EXTENDS Naturals

CONSTANTS Reader, NoMap

VARIABLES current,    \* the version of the map in the database
          published,  \* the newest version that was offered to other readers
          hand,       \* hand[r]: the version r has taken, or NoMap
          answer,     \* answer[r]: the version r was answered with, or NoMap
          late        \* did a reader exceed its time?

vars == <<current, published, hand, answer, late>>

Init ==
    /\ current = 0
    /\ published = 0
    /\ hand = [r \in Reader |-> NoMap]
    /\ answer = [r \in Reader |-> NoMap]
    /\ late = FALSE

SeatsChange ==
    /\ current' = current + 1
    /\ UNCHANGED <<published, hand, answer, late>>

ComesLate ==
    /\ late' = TRUE
    /\ UNCHANGED <<current, published, hand, answer>>

Takes(r, m) ==
    /\ answer[r] = NoMap
    /\ hand' = [hand EXCEPT ![r] = m]

Load(r) ==
    /\ Takes(r, current)
    /\ UNCHANGED <<current, published, answer, late>>

\* The published map: an answer at once, or what r answers with later.
Hit(r) ==
    /\ \E m \in 0..published :
          /\ late \/ m = published
          /\ Takes(r, m)
          /\ answer' \in {answer, [answer EXCEPT ![r] = m]}
    /\ UNCHANGED <<current, published, late>>

Publish(r) ==
    /\ hand[r] # NoMap
    /\ published' = IF hand[r] > published THEN hand[r] ELSE published
    /\ UNCHANGED <<current, hand, answer, late>>

Answer(r) ==
    /\ answer[r] = NoMap
    /\ hand[r] # NoMap
    /\ hand[r] <= published
    /\ answer' = [answer EXCEPT ![r] = hand[r]]
    /\ UNCHANGED <<current, published, hand, late>>

GiveUp(r) ==
    /\ Takes(r, NoMap)
    /\ UNCHANGED <<current, published, answer, late>>

Next ==
    \/ SeatsChange
    \/ ComesLate
    \/ \E r \in Reader : Load(r) \/ Hit(r) \/ Publish(r) \/ Answer(r) \/ GiveUp(r)

Spec == Init /\ [][Next]_vars
=============================================================================
