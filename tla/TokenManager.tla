---------------------------- MODULE TokenManager ----------------------------
(***************************************************************************)
(* TokenManager of includes/dht.py: the tokens that get_peers responses    *)
(* carry and announce_peer queries must return.                            *)
(*                                                                         *)
(* A token is SHA-1 of the address and a secret; it is modelled by its     *)
(* secret alone, as two addresses never share a token.  The secrets are    *)
(* numbered in the order in which they are drawn.  The unit of time is     *)
(* arbitrary.                                                              *)
(***************************************************************************)
EXTENDS Integers

CONSTANTS
    Rotation,   \* DHT_TOKEN_ROTATION_INTERVAL
    Validity,   \* DHT_TOKEN_VALIDITY
    MaxTime     \* bound: the clock

\* config.py and includes/debug.py: both are positive, and `DHT_TOKEN_VALIDITY
\* cannot exceed two token rotation intervals'.
ASSUME IntervalsAssumption ==
    /\ Rotation \in Nat \ {0} /\ Validity \in Nat \ {0} /\ MaxTime \in Nat
    /\ Validity <= 2 * Rotation

VARIABLES
    now,      \* time.monotonic_ns()
    tm,       \* the attributes of the TokenManager
    drawn,    \* the number of secrets drawn
    issued    \* history: the tokens issued, with their times

tokenVars == <<now, tm, drawn, issued>>

TokenTypeOK ==
    /\ now \in 0..MaxTime
    /\ drawn \in Nat
    /\ tm \in [current : 1..drawn, previous : 1..drawn,
               current_created : 0..now, previous_created : 0..now,
               rotated : 0..now]
    /\ issued \subseteq [secret : 1..drawn, at : 0..now]

TokenInit ==
    /\ now = 0
    /\ drawn = 2
    /\ tm = [current |-> 1, previous |-> 2, current_created |-> 0,
             previous_created |-> 0, rotated |-> 0]
    /\ issued = {}

\* rotations == max(1, elapsed // interval)
Missed == now - tm.rotated >= 2 * Rotation
Due == now - tm.rotated >= Rotation

\* Mutated forms: the secret keeps its old place but not its age; it is thrown
\* away after one missed rotation.
AfterRotation_FreshAge ==
    IF ~ Due THEN tm
    ELSE [current |-> drawn + 1, current_created |-> now, rotated |-> now,
          previous |-> IF Missed THEN drawn + 2 ELSE tm.current,
          previous_created |-> now]
AfterRotation_Forgets ==
    IF ~ Due THEN tm
    ELSE [current |-> drawn + 1, current_created |-> now, rotated |-> now,
          previous |-> drawn + 2, previous_created |-> now]

\* _rotate_if_due(): the attributes it leaves.  Its cases differ in the
\* previous secret: the current one after one rotation, a new one after more.
AfterRotation ==
    IF ~ Due THEN tm
    ELSE [current |-> drawn + 1, current_created |-> now, rotated |-> now,
          previous |-> IF Missed THEN drawn + 2 ELSE tm.current,
          previous_created |-> IF Missed THEN now ELSE tm.current_created]

Draws == IF ~ Due THEN drawn ELSE IF Missed THEN drawn + 2 ELSE drawn + 1

\* validate(): whether the token made with a secret would be accepted now.
Accepts(secret) ==
    LET s == AfterRotation IN
    \/ now - s.current_created <= Validity /\ secret = s.current
    \/ now - s.previous_created <= Validity /\ secret = s.previous

\* issue(), for a get_peers query.
Issue ==
    /\ tm' = AfterRotation
    /\ drawn' = Draws
    /\ issued' = issued \cup {[secret |-> AfterRotation.current, at |-> now]}
    /\ UNCHANGED now

\* validate(), for an announce_peer query: it rotates, too.
Validate ==
    /\ tm' = AfterRotation
    /\ drawn' = Draws
    /\ UNCHANGED <<now, issued>>

Tick ==
    /\ now < MaxTime
    /\ now' = now + 1
    /\ UNCHANGED <<tm, drawn, issued>>

TokenNext == Issue \/ Validate \/ Tick

TokenSpec == TokenInit /\ [][TokenNext]_tokenVars

-----------------------------------------------------------------------------
(* Properties *)

\* No token is accepted longer than DHT_TOKEN_VALIDITY after its issue, however
\* rarely the manager is called.
TokenExpires ==
    \A t \in issued : Accepts(t.secret) => now - t.at <= Validity

\* A token is accepted for at least DHT_TOKEN_VALIDITY less one rotation
\* interval, so that a node that asks for peers can announce itself: neither a
\* rotation nor a missed one takes the token away too early.
TokenLives ==
    \A t \in issued : now - t.at <= Validity - Rotation => Accepts(t.secret)

\* `After two or more missed rotations no formerly-issued token may remain
\* valid.'
NoneSurvivesMissed ==
    Missed => \A t \in issued : ~ Accepts(t.secret)
=============================================================================
