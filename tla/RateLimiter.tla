---------------------------- MODULE RateLimiter ----------------------------
(***************************************************************************)
(* The restart-storm guard of the daemon (type RateLimiter in main.go): a  *)
(* sliding window over the instants at which a restart was granted.        *)
(*                                                                         *)
(* counts is the slice r.counts: the grants the code still remembers.  A   *)
(* grant carries an ordinal besides its instant, because the slice may     *)
(* hold the same instant twice.  granted is a history variable: every      *)
(* grant ever made, which the code forgets and the properties speak of.    *)
(* clock is time.Now(), read under r.mu; Go's monotonic clock never goes   *)
(* back.                                                                   *)
(***************************************************************************)
EXTENDS Integers, FiniteSets

CONSTANTS Limit,     \* limit: MaxRestartsPerMin in main()
          Window,    \* window: time.Minute in main(), in clock units
          MaxTime    \* bound: the clock stops there

ASSUME LimiterAssumption == Limit \in Nat /\ Window \in Nat /\ MaxTime \in Nat

VARIABLES clock, counts, granted

limiterVars == <<clock, counts, granted>>

Grant == [n : Nat, at : Nat]

LimiterTypeOK ==
  /\ clock \in Nat
  /\ counts \in SUBSET Grant
  /\ granted \in SUBSET Grant

LimiterInit ==
  /\ clock = 0
  /\ counts = {}
  /\ granted = {}

(***************************************************************************)
(* Allow(): expired records are dropped first, also when the answer is no. *)
(***************************************************************************)
Valid == {g \in counts : clock - g.at <= Window}

NewGrant == [n |-> Cardinality(granted) + 1, at |-> clock]

Allowed ==
  /\ Cardinality(Valid) < Limit
  /\ counts' = Valid \cup {NewGrant}
  /\ granted' = granted \cup {NewGrant}
  /\ UNCHANGED clock

Denied ==
  /\ Cardinality(Valid) >= Limit
  /\ counts' = Valid
  /\ UNCHANGED <<clock, granted>>

Tick ==
  /\ clock < MaxTime
  /\ clock' = clock + 1
  /\ UNCHANGED <<counts, granted>>

LimiterNext == Allowed \/ Denied \/ Tick

LimiterSpec == LimiterInit /\ [][LimiterNext]_limiterVars
-----------------------------------------------------------------------------
(***************************************************************************)
(* Properties.                                                             *)
(***************************************************************************)
InWindow(G, t) == {g \in G : t <= g.at /\ g.at <= t + Window}

\* However the calls fall, no stretch of one window's length, wherever it
\* starts, holds more than Limit granted restarts: the promise behind the log
\* line "restart storm protection (more than MaxRestartsPerMin in a minute)".
SlidingWindow ==
  \A t \in 0 .. clock : Cardinality(InWindow(granted, t)) <= Limit

\* The slice never forgets a grant that still counts and never keeps one that
\* was not made: at every instant the grants it judges by are exactly the ones
\* of the last window, so a restart is refused only if Limit were really made.
ExactMemory ==
  /\ counts \subseteq granted
  /\ \A g \in granted : clock - g.at <= Window => g \in counts
=============================================================================
