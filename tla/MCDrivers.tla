------------------------------- MODULE MCDrivers -------------------------------
(***************************************************************************)
(* The instance of the input and network components for TLC.  They share   *)
(* no variables, so a behaviour is followed in one of them, the focus,     *)
(* while the others rest in their initial state: their product would add   *)
(* states and no outcome.                                                  *)
(***************************************************************************)
EXTENDS Keyboard, LineEditor, Net

VARIABLE focus

Init ==
  /\ focus \in {"Keyboard", "LineEditor", "Net"}
  /\ KeyboardInit /\ EditorInit /\ NetInit

Next ==
  /\ UNCHANGED focus
  /\ \/ focus = "Keyboard" /\ KeyboardNext /\ UNCHANGED <<editorVars, netVars>>
     \/ focus = "LineEditor" /\ EditorNext /\ UNCHANGED <<keyboardVars, netVars>>
     \/ focus = "Net" /\ NetNext /\ UNCHANGED <<keyboardVars, editorVars>>

Spec == Init /\ [][Next]_<<focus, keyboardVars, editorVars, netVars>>

=============================================================================
