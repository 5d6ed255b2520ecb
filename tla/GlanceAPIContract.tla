-------------------------- MODULE GlanceAPIContract --------------------------
(***************************************************************************)
(* What the two controllers promise each other about GlanceAPI objects.    *)
(* The Glance controller creates, edits and deletes them; the GlanceAPI    *)
(* controller reports on them and lets go of them.  Of an object only the  *)
(* fields that both sides read are left.                                   *)
(*                                                                         *)
(* Module GlanceAPI implements the right-hand side of this contract with a *)
(* reconciler, module Glance relies on it and implements the left-hand     *)
(* side.                                                                   *)
(***************************************************************************)
EXTENDS Naturals

CONSTANT Objects   \* names of GlanceAPI objects

VARIABLE object    \* the GlanceAPI objects in the API server

\* "new" is an object on which the GlanceAPI controller has never reported, and
\* which it does not hold by a finalizer; "observed" is ObservedGeneration.
Absent == [exists |-> FALSE, deleting |-> FALSE, new |-> TRUE, gen |-> 0,
           observed |-> 0, ready |-> FALSE]
Fresh  == [Absent EXCEPT !.exists = TRUE, !.gen = 1]

Init == object \in [Objects -> {Absent, Fresh}]

\* The Glance controller (or a user): a new object; a change of the spec, also of
\* an object that is being deleted; a deletion, which only marks an object that
\* is held.
Created(a, b) == ~a.exists /\ b = Fresh
Edited(a, b)  == a.exists /\ b = [a EXCEPT !.gen = @ + 1]
Deleted(a, b) == /\ a.exists /\ ~a.deleting
                 /\ b = IF a.new THEN Absent ELSE [a EXCEPT !.deleting = TRUE, !.gen = @ + 1]

\* The GlanceAPI controller: a report may be late, so that it is about a
\* generation that is not the last one, but reports never go back to an older
\* generation, and none is about a generation that is still to come.
Report(a, g, r) == [a EXCEPT !.new = FALSE, !.observed = g, !.ready = r]
Reports(a) == {Report(a, g, r) : g \in a.observed .. a.gen, r \in BOOLEAN}
Reported(a, b) == a.exists /\ b \in Reports(a)

\* An object disappears only when its deletion was asked for.
Finalized(a, b) == a.deleting /\ b = Absent

Step(a, b) == \/ b = a
              \/ Created(a, b) \/ Edited(a, b) \/ Deleted(a, b)
              \/ Reported(a, b) \/ Finalized(a, b)

\* One write of a controller may be followed by others before anybody looks.
Next == \A o \in Objects : Step(object[o], object'[o])

Spec == Init /\ [][Next]_object

=============================================================================
