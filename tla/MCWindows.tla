----------------------------- MODULE MCWindows -----------------------------
(***************************************************************************)
(* What the server does by the clock, and the log of a test run, in one    *)
(* instance: the windows that requests pass, the notifications of a user,  *)
(* the chunks of two streams.  They share nothing but the clock, which     *)
(* none of them moves: a behaviour has only one of them, for interleaving  *)
(* them would show nothing new.                                            *)
(***************************************************************************)
EXTENDS Windows, Notifications, Texts, TLC

vars == <<now, windowVars, noteVars, textVars>>

Init == WindowsInit /\ NotesInit /\ TextsInit

NoNotes == (\A n \in Notes : state[n] = "new") /\ (\A j \in Jobs : JobAt(j, "idle"))
NoTexts == chunks = 0

Next ==
    \/ NoTexts /\ Tick /\ UNCHANGED <<windowVars, noteVars, textVars>>
    \/ NoNotes /\ NoTexts /\ WindowsStep /\ UNCHANGED <<noteVars, textVars>>
    \/ count = 0 /\ NoTexts /\ NotesNext /\ UNCHANGED <<windowVars, textVars>>
    \/ now = 0 /\ count = 0 /\ NoNotes /\ TextsStep /\ UNCHANGED <<now, windowVars, noteVars>>

Spec == Init /\ [][Next]_vars

TypeOK == WindowsTypeOK /\ NotesTypeOK /\ TextsTypeOK

Symmetry == Permutations(Notes) \cup Permutations(Jobs) \cup Permutations(Keys)
=============================================================================
