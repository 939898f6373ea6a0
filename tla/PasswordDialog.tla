--------------------------- MODULE PasswordDialog ----------------------------
(***************************************************************************)
(* components/lobby/ChangePasswordModal.tsx, on the lobby and on the game   *)
(* page.  The component stays mounted while the dialog is closed, so the    *)
(* answer of a submission may come to a dialog that has been closed, or     *)
(* closed and opened again.                                                 *)
(***************************************************************************)
EXTENDS AuthForms, Sequences

CONSTANT MaxSubmits    \* bound: submissions under way

ASSUME PasswordAssumption == MaxSubmits \in Nat \ {0}

VARIABLE
    pass   \* open, status, message; waiting: for each submission under way,
           \* oldest first, whether it was made since the dialog was opened

PassClosed == [open |-> FALSE, status |-> "IDLE", message |-> "", waiting |-> <<>>]

PassOpenedAsLeft ==   \* mutant: the dialog opens as it was left
    /\ ~pass.open
    /\ pass' = [pass EXCEPT !.open = TRUE, !.waiting = [i \in DOMAIN @ |-> FALSE]]

\* Opening clears what was left in the dialog.
PassOpened ==
    /\ ~pass.open
    /\ pass' = [pass EXCEPT !.open = TRUE, !.status = "IDLE", !.message = "",
                            !.waiting = [i \in DOMAIN @ |-> FALSE]]

\* Typing takes an error's text away; the fields are greyed while submitting.
PassTyped ==
    /\ pass.open /\ pass.status = "ERROR" /\ pass.message # ""
    /\ pass' = [pass EXCEPT !.message = ""]

PassSubmitted(input) ==
    /\ pass.open /\ pass.status # "SUBMITTING"
    /\ IF PasswordProblem(input) # ""
       THEN pass' = [pass EXCEPT !.status = "ERROR", !.message = PasswordProblem(input)]
       ELSE /\ Len(pass.waiting) < MaxSubmits
            /\ pass' = [pass EXCEPT !.status = "SUBMITTING", !.message = "",
                                    !.waiting = Append(@, TRUE)]

\* 350 ms later, in the order of submission: the dialog is told, whichever
\* opening of it this is.
PassAnswered ==
    /\ pass.waiting # <<>>
    /\ pass' = [pass EXCEPT !.status = "ERROR", !.message = changePassword("good"),
                            !.waiting = Tail(@)]

\* Cancel is greyed while submitting; Escape and the backdrop are not.
PassCancel   == pass.open /\ pass.status # "SUBMITTING" /\ pass' = [pass EXCEPT !.open = FALSE]
PassEscape   == pass.open /\ pass' = [pass EXCEPT !.open = FALSE]
PassBackdrop == pass.open /\ pass' = [pass EXCEPT !.open = FALSE]

PasswordStep ==
    \/ PassTyped \/ PassAnswered
    \/ \E input \in PasswordInputs : PassSubmitted(input)
    \/ PassCancel \/ PassEscape \/ PassBackdrop

\* A dialog that says it is submitting has a submission of its own under way,
\* whatever was under way when it was opened.  (The converse fails: an answer
\* to an earlier opening ends the submission on the screen, with the earlier
\* one's error.)
PasswordTruth ==
    pass.status = "SUBMITTING" => \E i \in DOMAIN pass.waiting : pass.waiting[i]
=============================================================================
