---------------------------- MODULE FeatureGates ----------------------------
(***************************************************************************)
(* The cached feature gates (middleware/feature_gate.py).  A call of       *)
(* get_feature_gates() looks at the file's time and opens the file only if *)
(* the time has grown since the last load.  The calls do not await, so they*)
(* are one after the other; but whoever edits the file is another process, *)
(* and may do so between the look and the opening.                         *)
(***************************************************************************)
EXTENDS Naturals

CONSTANTS
  Versions,      \* the contents of the file that list the feature with a tier
  MaxEdits,      \* bound on edits of the file
  MaxStarts      \* bound on restarts of the server

\* A file that is cut short may parse all the same: with gates that do not list
\* the feature, with nothing under "features:", or with a bare word there.
Stumps == {"unlisted", "null", "word"}

Parsed == Versions \cup Stumps

ASSUME GatesAssumption ==
  /\ Versions \cap {"unlisted", "null", "word", "broken", "missing",
                    "none", "everybody", "nobody"} = {}
  /\ MaxEdits \in Nat /\ MaxStarts \in Nat

VARIABLES
  file,    \* what can be parsed, "missing", or "broken": empty, or no YAML
  mtime,   \* its modification time
  old,     \* history: the last write gave it no later time than it had
  edits,   \* edits so far
  starts,  \* restarts so far
  cache,   \* _gates_cache: "none", or what has been parsed
  seen,    \* _gates_mtime
  looked,  \* whether a call is between getmtime() and open()
  stat,    \* the time that call has read, current_mtime
  answer   \* by which gates the last call decided, or whom it let in

gatesVars == <<file, mtime, old, edits, starts, cache, seen, looked, stat, answer>>

outside == <<file, mtime, old, edits, starts>>

\* requires_feature: a feature that the gates do not list is open to all; what
\* has no get(), None or a word, raises, and the request fails for everyone.
Decision(gates) ==
  IF gates \in Versions THEN gates
  ELSE IF gates = "unlisted" THEN "everybody" ELSE "nobody"

\* Gates that were never loaded, or loaded as None, are taken for {}.
OrEmpty(gates) == IF gates = "none" THEN "unlisted" ELSE gates

GatesInit ==
  /\ file \in Parsed \cup {"missing", "broken"}
  /\ mtime = 1
  /\ old = FALSE
  /\ edits = 0
  /\ starts = 0
  /\ cache = "none"
  /\ seen = 0
  /\ looked = FALSE
  /\ stat = 0
  /\ answer = "everybody"

-----------------------------------------------------------------------------
(* An editor or a deployment; a call may see its writing half done.  The   *)
(* clock has moved on with each edit, but a copy that keeps times, a backup*)
(* moved back or a second write within the clock's tick has no later time. *)

Edit(content, time) ==
  /\ edits < MaxEdits
  /\ file' = content
  /\ mtime' = time
  /\ edits' = edits + 1
  /\ UNCHANGED <<starts, cache, seen, looked, stat, answer>>

Write ==
  /\ \E content \in Parsed \cup {"broken"} : Edit(content, edits + 2)
  /\ old' = FALSE

Remove ==
  /\ file # "missing"
  /\ Edit("missing", mtime)
  /\ UNCHANGED old

Restore ==
  /\ \E content \in Parsed : \E time \in 1..mtime : Edit(content, time)
  /\ old' = TRUE

-----------------------------------------------------------------------------
(* get_feature_gates, and the decision of its caller                       *)

Return(gates) ==
  /\ cache' = gates
  /\ looked' = FALSE
  /\ answer' = Decision(gates)
  /\ UNCHANGED outside

\* getmtime() raises: what was cached, {} if nothing was.
FileIsMissing ==
  /\ ~looked
  /\ file = "missing"
  /\ answer' = Decision(OrEmpty(cache))
  /\ UNCHANGED <<outside, cache, seen, looked, stat>>

Hit == cache # "none" /\ mtime <= seen

CacheHit ==
  /\ ~looked
  /\ file # "missing" /\ Hit
  /\ answer' = Decision(cache)
  /\ UNCHANGED <<outside, cache, seen, looked, stat>>

CacheMiss ==
  /\ ~looked
  /\ file # "missing" /\ ~Hit
  /\ looked' = TRUE
  /\ stat' = mtime
  /\ UNCHANGED <<outside, cache, seen, answer>>

BugReload ==
  /\ looked
  /\ file \in Parsed
  /\ seen' = mtime + 1
  /\ Return(IF file = "null" THEN "none" ELSE file)
  /\ UNCHANGED stat

\* Whatever parses is loaded, a file cut short like a whole one.
Reload ==
  /\ looked
  /\ file \in Parsed
  /\ seen' = stat
  /\ Return(IF file = "null" THEN "none" ELSE file)
  /\ UNCHANGED stat

BugReloadFails ==
  /\ looked
  /\ file \notin Parsed
  /\ Return("unlisted")
  /\ UNCHANGED <<seen, stat>>

\* The old gates stay, and so does _gates_mtime: the next call tries again.
ReloadFails ==
  /\ looked
  /\ file \notin Parsed
  /\ Return(OrEmpty(cache))
  /\ UNCHANGED <<seen, stat>>

Call == FileIsMissing \/ CacheHit \/ CacheMiss \/ Reload \/ ReloadFails

\* Module state is gone; the file is not.
ServerRestarts ==
  /\ starts < MaxStarts
  /\ starts' = starts + 1
  /\ cache' = "none"
  /\ seen' = 0
  /\ looked' = FALSE
  /\ stat' = 0
  /\ answer' = "everybody"
  /\ UNCHANGED <<file, mtime, old, edits>>

GatesNext == Write \/ Remove \/ Restore \/ Call \/ ServerRestarts

GatesSpec == GatesInit /\ [][GatesNext]_gatesVars

-----------------------------------------------------------------------------
\* Every variable holds a value of its kind; times are read, not invented.
GatesTypes ==
  /\ file \in Parsed \cup {"missing", "broken"}
  /\ mtime \in Nat \ {0}
  /\ old \in BOOLEAN
  /\ edits \in 0..MaxEdits
  /\ starts \in 0..MaxStarts
  /\ cache \in Versions \cup {"none", "unlisted", "word"}
  /\ seen \in Nat
  /\ looked \in BOOLEAN
  /\ stat \in Nat
  /\ answer \in Versions \cup {"everybody", "nobody"}

\* A call that does not open the file answers what the file says, whenever
\* the file was edited during the load that filled the cache, and a file that
\* was loaded cut short is not taken for the whole one; but for a file written
\* with no later time, which the comparison of times takes for loaded.
HitIsFresh == Hit /\ file \in Parsed => cache = file \/ old

\* A feature that the last caller met gated is given up by a load only if the
\* file loaded parses and does not gate it; a file that does not parse, one
\* that is missing, an edit between the look at the time and the opening, and
\* any number of failed loads leave it gated until a restart.
GateFallsByItsFile ==
  [][(answer \in Versions /\ answer' \notin Versions)
       => ServerRestarts \/ (Reload /\ file \in Stumps)]_gatesVars

=============================================================================
