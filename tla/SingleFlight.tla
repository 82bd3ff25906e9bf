---------------------------- MODULE SingleFlight ----------------------------
(***************************************************************************)
(* What a shared, read-only library promises its readers: a key is fetched *)
(* by one flight at a time, however many readers ask; a reader gets what a *)
(* flight brought for the very key it asked for, or gives up; and no       *)
(* reader's going away ends a flight.                                      *)
(***************************************************************************)
CONSTANTS
  Readers,
  Keys,
  Flights,
  None         \* no key

VARIABLES
  wants,       \* the key each reader waits for
  got,         \* the key whose content each reader was given
  flying,      \* the key each flight fetches
  atHand,      \* the keys whose content was fetched and is still kept
  closed       \* the library was closed

vars == <<wants, got, flying, atHand, closed>>

Init ==
  /\ wants = [r \in Readers |-> None]
  /\ got = [r \in Readers |-> None]
  /\ flying = [f \in Flights |-> None]
  /\ atHand = {}
  /\ closed = FALSE

Launch(f, k) ==
  /\ flying[f] = None
  /\ \A g \in Flights : flying[g] # k
  /\ flying' = [flying EXCEPT ![f] = k]

\* A reader asks.  Somebody's flight for the key is under way, or one starts.
Ask(r, k) ==
  /\ ~closed /\ wants[r] = None
  /\ wants' = [wants EXCEPT ![r] = k]
  /\ got' = [got EXCEPT ![r] = None]
  /\ \/ UNCHANGED flying
     \/ \E f \in Flights : Launch(f, k)
  /\ UNCHANGED <<atHand, closed>>

\* A flight brings its key; contents fetched before may be dropped for it.
Land(f) ==
  /\ flying[f] # None
  /\ flying' = [flying EXCEPT ![f] = None]
  /\ flying[f] \in atHand' /\ atHand' \subseteq atHand \cup {flying[f]}
  /\ UNCHANGED <<wants, got, closed>>

Fail(f) ==
  /\ flying[f] # None
  /\ flying' = [flying EXCEPT ![f] = None]
  /\ UNCHANGED <<wants, got, atHand, closed>>

\* A reader that waits, or that just asks, is given what is at hand.
Serve(r, k) ==
  /\ wants[r] \in {k, None} /\ k \in atHand
  /\ wants' = [wants EXCEPT ![r] = None]
  /\ got' = [got EXCEPT ![r] = k]
  /\ atHand' \subseteq atHand
  /\ UNCHANGED <<flying, closed>>

\* A reader leaves, or is refused, or has no more use of what it was given.
Leave(r) ==
  /\ wants' = [wants EXCEPT ![r] = None]
  /\ got' = [got EXCEPT ![r] = None]
  /\ atHand' \subseteq atHand
  /\ UNCHANGED <<flying, closed>>

Drop ==
  /\ atHand' \subseteq atHand
  /\ UNCHANGED <<wants, got, flying, closed>>

\* The flights under way are given up.
Close ==
  /\ closed' = TRUE
  /\ flying' = [f \in Flights |-> None]
  /\ UNCHANGED <<wants, got, atHand>>

Next ==
  \/ \E r \in Readers : Leave(r) \/ \E k \in Keys : Ask(r, k) \/ Serve(r, k)
  \/ \E f \in Flights : Land(f) \/ Fail(f)
  \/ Drop \/ Close

Spec == Init /\ [][Next]_vars
=============================================================================
