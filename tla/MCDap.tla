------------------------------- MODULE MCDap -------------------------------
(* Instances of Dap for TLC. *)
EXTENDS Dap

MCLines == {1, 2}
\* Line 2 of "a" is blank: it carries no marker.
OnePath == {"a"}
OneMarkers == [p \in OnePath |-> {1}]
=============================================================================
