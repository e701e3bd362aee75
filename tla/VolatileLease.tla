--------------------------- MODULE VolatileLease ---------------------------
(***************************************************************************)
(* What every optical source promises of the drive's volatile memory: a    *)
(* place is owed before it is changed, no place is forgotten while it is   *)
(* changed, and a source is let go only when nothing is owed.  A drive     *)
(* that loses its memory takes the changes with it, a process that is      *)
(* killed leaves them behind.                                              *)
(***************************************************************************)
EXTENDS Naturals

VARIABLES
  changed,   \* the places that hold a value this source wrote
  owed,      \* the places it knows it has to put back
  life       \* "idle", "open", or "killed"

vars == <<changed, owed, life>>

Init == changed = {} /\ owed = {} /\ life = "idle"

Open == life \in {"idle", "killed"} /\ life' = "open" /\ changed' = {} /\ owed' = {}
Write == life = "open" /\ changed \subseteq changed' /\ changed' \subseteq owed'
         /\ owed \subseteq owed' /\ UNCHANGED life
PutBack == life = "open" /\ changed' \subseteq changed /\ changed' \subseteq owed'
           /\ owed' \subseteq owed /\ UNCHANGED life
Release == life = "open" /\ changed = {} /\ owed = {} /\ life' = "idle" /\ UNCHANGED <<changed, owed>>
Kill == life = "open" /\ life' = "killed" /\ changed' = {} /\ owed' = {}

Next == Open \/ Write \/ PutBack \/ Release \/ Kill
Spec == Init /\ [][Next]_vars
=============================================================================
