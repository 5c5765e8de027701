------------------------------ MODULE FreshCache ------------------------------
(***************************************************************************)
(* What a cache with a time to live promises: a client that accepts a      *)
(* cached answer has content the origin sent less than Ttl before the      *)
(* lookup.  It may also be told to ask the origin, or see the transfer     *)
(* break off.                                                              *)
(***************************************************************************)
EXTENDS Integers

CONSTANTS Version, Client, Ttl

VARIABLES now,    \* seconds
          seen,   \* when an answer of the origin with this version last came by
          asked,  \* when the client's lookup began
          got     \* the versions the client's accepted answer is made of

Never == -1

Init ==
  /\ now = 0
  /\ seen = [v \in Version |-> Never]
  /\ asked = [c \in Client |-> Never]
  /\ got = [c \in Client |-> {}]

Pass == now' = now + 1 /\ UNCHANGED <<seen, asked, got>>

Arrive(v) == seen' = [seen EXCEPT ![v] = now] /\ UNCHANGED <<now, asked, got>>

Ask(c) ==
  /\ asked' = [asked EXCEPT ![c] = now]
  /\ got' = [got EXCEPT ![c] = {}]
  /\ UNCHANGED <<now, seen>>

Fresh(c) == {v \in Version : seen[v] # Never /\ asked[c] < seen[v] + Ttl}

Answer(c) ==
  /\ got' \in [Client -> SUBSET Version]
  /\ got' = [got EXCEPT ![c] = got'[c]]
  /\ got'[c] # {} /\ got'[c] \subseteq Fresh(c)
  /\ UNCHANGED <<now, seen, asked>>

Next ==
  \/ Pass
  \/ \E v \in Version : Arrive(v)
  \/ \E c \in Client : Ask(c) \/ Answer(c)

Spec == Init /\ [][Next]_<<now, seen, asked, got>>
=============================================================================
