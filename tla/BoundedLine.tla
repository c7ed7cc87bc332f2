---------------------------- MODULE BoundedLine ----------------------------
(***************************************************************************)
(* What the controller of video generation promises, while its gate is on  *)
(* and nobody resets it: a line in front of a number of servers.  Clients  *)
(* come once.  They are served at once when nobody waits and a server is   *)
(* free, wait in a line of limited length otherwise, and are called in     *)
(* the order they came in.  A server that gets free calls the next client  *)
(* in the same step.  A power cut empties the place.                       *)
(***************************************************************************)
EXTENDS Naturals, Sequences, FiniteSets

CONSTANTS
  Clients,
  Servers,  \* number of servers
  Places    \* length of the line

VARIABLES
  line,     \* who waits, in the order they came
  serving,  \* who is served
  seen      \* who has come so far

place == <<line, serving, seen>>

Init ==
  /\ line = <<>>
  /\ serving = {}
  /\ seen = {}

Comes(c) ==
  /\ c \notin seen
  /\ seen' = seen \cup {c}

ServedAtOnce(c) ==
  /\ Comes(c)
  /\ line = <<>> /\ Cardinality(serving) < Servers
  /\ serving' = serving \cup {c}
  /\ UNCHANGED line

Joins(c) ==
  /\ Comes(c)
  /\ Cardinality(serving) >= Servers /\ Len(line) < Places
  /\ line' = Append(line, c)
  /\ UNCHANGED serving

\* For want of a place, or of memory.
TurnedAway(c) ==
  /\ Comes(c)
  /\ UNCHANGED <<line, serving>>

Leaves(c) ==
  /\ c \in serving
  /\ \/ /\ line = <<>>
        /\ serving' = serving \ {c}
        /\ UNCHANGED line
     \/ /\ line # <<>>
        /\ serving' = (serving \ {c}) \cup {Head(line)}
        /\ line' = Tail(line)
  /\ UNCHANGED seen

PowerCut ==
  /\ line' = <<>>
  /\ serving' = {}
  /\ UNCHANGED seen

Next ==
  \/ \E c \in Clients :
       ServedAtOnce(c) \/ Joins(c) \/ TurnedAway(c) \/ Leaves(c)
  \/ PowerCut

Spec == Init /\ [][Next]_place
=============================================================================
