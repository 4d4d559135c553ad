-------------------------- MODULE MCSudoshSession --------------------------
(* Model-checking instance of SudoshSession. *)
EXTENDS SudoshSession

\* every task configuration with become_pass set
MCPassMode == {TRUE}

\* every task configuration with become_pass unset
MCNoPassMode == {FALSE}
=============================================================================
