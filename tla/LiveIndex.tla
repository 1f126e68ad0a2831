----------------------------- MODULE LiveIndex ------------------------------
(***************************************************************************)
(* What live journal maintenance promises for one drive: the changes made  *)
(* on the volume become visible to searches in the order they were made,   *)
(* none is skipped, none disappears again, and each one becomes visible.   *)
(***************************************************************************)
EXTENDS Naturals

CONSTANT MaxChanges  \* changes made on the volume (bound)

VARIABLES written,  \* changes made on the volume so far, numbered from 1
          visible   \* the changes a search sees

Init == written = 0 /\ visible = {}

\* The file system records a change in its USN journal.
Write == written < MaxChanges /\ written' = written + 1 /\ UNCHANGED visible

\* The index catches up with some prefix of the changes.
Publish ==
  /\ \E k \in 0..written : visible \subseteq 1..k /\ visible' = 1..k
  /\ UNCHANGED written

Next == Write \/ Publish

EventuallyVisible == \A n \in 1..MaxChanges : written >= n ~> n \in visible

Safety == Init /\ [][Next]_<<written, visible>>

Spec == Safety /\ EventuallyVisible

=============================================================================
