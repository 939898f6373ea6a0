------------------------------ MODULE AuthForms ------------------------------
(***************************************************************************)
(* What the forms of apps/web answer: the login form, the sign-up form     *)
(* with its check of age, and the change-password dialog.  A form names    *)
(* the first thing that is wrong; here a message is a word for its text,   *)
(* and "" is no message.                                                   *)
(***************************************************************************)
EXTENDS Integers

-----------------------------------------------------------------------------
(* Dates, as the browser's Date makes them: a day beyond the end of its     *)
(* month is a day of the next one.                                          *)

IsLeap(year) == year % 4 = 0 /\ (year % 100 # 0 \/ year % 400 = 0)

DaysIn(year, month) ==
    CASE month = 2             -> IF IsLeap(year) THEN 29 ELSE 28
      [] month \in {4, 6, 9, 11} -> 30
      [] OTHER                 -> 31

JsDate(year, month, day) ==
    IF day <= DaysIn(year, month)
    THEN [year |-> year, month |-> month, day |-> day]
    ELSE [year |-> year, month |-> month + 1, day |-> day - DaysIn(year, month)]

ValidDate(b) == b.month \in 1..12 /\ b.day \in 1..31 /\ b.year \in 1900..2030

\* Years between, less one while this year's birthday is still to come.
validateAge(today, b) ==
    LET birth     == JsDate(b.year, b.month, b.day)
        monthDiff == today.month - birth.month
        toCome    == monthDiff < 0 \/ (monthDiff = 0 /\ today.day < birth.day)
    IN  today.year - birth.year - (IF toCome THEN 1 ELSE 0) >= 18

-----------------------------------------------------------------------------
(* Sign-up.  `form' says whether a name and a well-formed e-mail address    *)
(* are given, and the date of birth (zero for a field left empty).  The     *)
(* form checks them in this order; registerUser checks name and address     *)
(* again and sends nothing.                                                 *)

registerUser(form) ==
    CASE ~form.username -> "enter username"
      [] ~form.email    -> "enter email"
      [] OTHER          -> "not available yet"

SignupMessage(today, form) ==
    CASE ~form.username               -> "enter username"
      [] ~form.email                  -> "enter email"
      [] ~ValidDate(form.birth)       -> "enter date of birth"
      [] ~validateAge(today, form.birth) -> "under 18"
      [] OTHER                        -> registerUser(form)

-----------------------------------------------------------------------------
(* Login: the statuses the API answers with (0: no answer came) and what    *)
(* the form says of them.  One message for whatever is refused: which of    *)
(* name, password and account it was is not told.                           *)

Statuses == {0, 200, 400, 401, 403, 429, 500}

describeLoginFailure(status) ==
    CASE status \in {401, 403} -> "invalid"
      [] status = 429          -> "too many attempts"
      [] status = 0            -> "unreachable"
      [] status = 400          -> "check your input"
      [] OTHER                 -> "unavailable"

-----------------------------------------------------------------------------
(* Change password: what is given of the three fields.  The service checks  *)
(* them as the dialog has, waits, and has no backend to call.               *)

PasswordInputs == {"nothing", "no new", "short", "mismatch", "good"}

PasswordProblem(input) ==
    CASE input = "nothing"  -> "enter current"
      [] input = "no new"   -> "enter new"
      [] input = "short"    -> "at least 6 characters"
      [] input = "mismatch" -> "do not match"
      [] input = "good"     -> ""

changePassword(input) ==
    IF PasswordProblem(input) # "" THEN PasswordProblem(input) ELSE "not connected"
=============================================================================
