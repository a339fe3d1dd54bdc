----------------------------- MODULE DocHeaders -----------------------------
(***************************************************************************)
(* The headers of the Markdown documents, as scripts/check_docs.py and     *)
(* scripts/build_playbook.py read them.  A header gives each key a text: a *)
(* word, "" where the key is missing, which a comment may follow without a *)
(* space ("done#late").                                                    *)
(***************************************************************************)

CONSTANT NoHeader  \* what a file without a header has for one

Keys == {"status", "date", "last_verified", "superseded_by", "type", "title", "sprint", "state"}

(* The words of a header; "other" is any that no rule names. *)
Words ==
  {"", "other", "2026-10-29", "draft", "current", "superseded", "proposed", "accepted",
   "rejected", "playbook", "in progress", "done"}
Texts == [word : Words, glued : BOOLEAN]
Headers == [Keys -> Texts] \cup {NoHeader}

Dates == {"2026-10-29"}
DocStatuses == {"draft", "current", "superseded"}
DecisionStatuses == {"proposed", "accepted", "rejected", "superseded"}
PlaybookStates == {"in progress", "done"}

ErrorIf(condition, error) == IF condition THEN {error} ELSE {}

-----------------------------------------------------------------------------
(* check_docs.py *)

(* header: what stands before the first #. *)
Value(h, key) == h[key].word

RecordErrors(h, pdf) ==
  ErrorIf(Value(h, "date") \notin Dates, "date")
    \cup IF Value(h, "type") # "playbook" THEN {}
         ELSE {key \in {"title", "sprint", "state"} : Value(h, key) = ""}
                \cup ErrorIf(Value(h, "state") \notin PlaybookStates \cup {""}, "state")
                \cup ErrorIf(~pdf, "no PDF")

DecisionErrors(h) ==
  ErrorIf(Value(h, "status") \notin DecisionStatuses, "status")
    \cup ErrorIf(Value(h, "date") \notin Dates, "date")

DocErrors(h) ==
  ErrorIf(Value(h, "status") \notin DocStatuses, "status")
    \cup ErrorIf(Value(h, "last_verified") \notin Dates, "last_verified")
    \cup ErrorIf(Value(h, "status") = "superseded" /\ Value(h, "superseded_by") = "",
                 "superseded_by")

(* check_header, for a file of this kind *)
CheckHeader(kind, h, pdf) ==
  CASE h = NoHeader -> {"no header"}
    [] h # NoHeader /\ kind = "record" -> RecordErrors(h, pdf)
    [] h # NoHeader /\ kind = "decision" -> DecisionErrors(h)
    [] h # NoHeader /\ kind = "doc" -> DocErrors(h)

-----------------------------------------------------------------------------
(* build_playbook.py *)

(* header: a # without a space before it belongs to the value. *)
BuildValue(h, key) ==
  IF h = NoHeader THEN "" ELSE IF h[key].glued THEN "other" ELSE h[key].word

IsPlaybook(h) == BuildValue(h, "type") = "playbook"

(* Fault: a state is only looked for, not looked at. *)
BuildErrorsLax(h, dated) ==
  {key \in {"date", "title", "sprint", "state"} : BuildValue(h, key) = ""}
    \cup ErrorIf(BuildValue(h, "date") \notin Dates \cup {""}, "date")
    \cup ErrorIf(~dated, "name")

(* check, for a file whose name begins with a date or does not *)
BuildErrors(h, dated) ==
  {key \in {"date", "title", "sprint", "state"} : BuildValue(h, key) = ""}
    \cup ErrorIf(BuildValue(h, "state") \notin PlaybookStates \cup {""}, "state")
    \cup ErrorIf(BuildValue(h, "date") \notin Dates \cup {""}, "date")
    \cup ErrorIf(~dated, "name")
=============================================================================
