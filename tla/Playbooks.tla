------------------------------ MODULE Playbooks ------------------------------
(***************************************************************************)
(* scripts/build_playbook.py: runs over the playbooks of a working copy    *)
(* whose owner goes on editing.  A run checks every file, and only if all  *)
(* are in order renders them, reading each of them twice more.             *)
(***************************************************************************)
EXTENDS DocHeaders, Integers, Sequences

CONSTANTS
  Tree,        \* the Markdown files under evidence/, sorted
  Dated,       \* those whose name begins with a date
  Arguments,   \* the lists of files a run may be given
  HeaderSets,  \* what the headers may be at first
  Edits,       \* the headers an edit may leave
  NoPdf, Cut,  \* no PDF, and one whose writing was cut short
  NoPage,      \* nothing has been read for the next file
  MaxEdits,    \* bound on the edits
  MaxRuns      \* bound on the runs

Files == {Tree[n] : n \in 1..Len(Tree)}

VARIABLES
  text,    \* each file as it is: [edit, header]
  pdf,     \* the PDF beside it: the page it was rendered from
  pc,      \* where the run is; "idle" before the first
  files,   \* the files of the run
  next,    \* the file that is checked or rendered
  errors,  \* what the check found
  page,    \* what has been read of it: the state, then the text as well
  before,  \* history: the PDFs when the run began
  saved,   \* history: the files edited since
  all,     \* history: the run was asked for every playbook
  edits, runs

vars == <<text, pdf, pc, files, next, errors, page, before, saved, all, edits, runs>>
run == <<files, before, all, runs>>
copy == <<text, saved, edits>>

Header(f) == text[f].header

Init ==
  /\ \E h \in HeaderSets : text = [f \in Files |-> [edit |-> 0, header |-> h[f]]]
  /\ pdf = [f \in Files |-> NoPdf] /\ before = pdf
  /\ pc = "idle" /\ files = <<>> /\ next = 1 /\ errors = {} /\ page = NoPage
  /\ saved = {} /\ all = FALSE /\ edits = 0 /\ runs = 0

Stopped == pc \in {"idle", "done", "refused", "failed"}

Edit(f, h) ==
  /\ edits < MaxEdits
  /\ edits' = edits + 1
  /\ text' = [text EXCEPT ![f] = [edit |-> edits + 1, header |-> h]]
  /\ saved' = saved \cup {f}
  /\ UNCHANGED <<pdf, pc, next, errors, page, run>>

(* find_playbooks, among the first n files. *)
Playbook[n \in 0..Len(Tree)] ==
  IF n = 0 THEN <<>>
  ELSE Playbook[n - 1] \o (IF IsPlaybook(Header(Tree[n])) THEN <<Tree[n]>> ELSE <<>>)

(* main: --all adds every file that says it is a playbook. *)
Invoke(named, every) ==
  /\ Stopped /\ runs < MaxRuns
  /\ runs' = runs + 1
  /\ files' = named \o (IF every THEN Playbook[Len(Tree)] ELSE <<>>)
  /\ pc' = IF files' = <<>> THEN "refused" ELSE "checking"
  /\ next' = 1 /\ errors' = {} /\ page' = NoPage
  /\ before' = pdf /\ saved' = {} /\ all' = every
  /\ UNCHANGED <<text, pdf, edits>>

Check ==
  /\ pc = "checking" /\ next <= Len(files)
  /\ errors' = errors \cup BuildErrors(Header(files[next]), files[next] \in Dated)
  /\ next' = next + 1
  /\ UNCHANGED <<pdf, pc, page, run, copy>>

CheckDone ==
  /\ pc = "checking" /\ next > Len(files)
  /\ pc' = IF errors = {} THEN "building" ELSE "refused"
  /\ next' = 1
  /\ UNCHANGED <<pdf, errors, page, run, copy>>

(* build: the state is needed for the style of the page; without a header  *)
(* there is none, and the run fails.                                       *)
ReadHeader ==
  /\ pc = "building" /\ next <= Len(files) /\ page = NoPage
  /\ Header(files[next]) # NoHeader
  /\ page' = [state |-> BuildValue(Header(files[next]), "state")]
  /\ UNCHANGED <<pdf, pc, next, errors, run, copy>>

HasText == page # NoPage /\ "text" \in DOMAIN page

(* pandoc opens the file once more. *)
Pandoc ==
  /\ pc = "building" /\ page # NoPage /\ ~HasText
  /\ page' = [state |-> page.state, text |-> text[files[next]]]
  /\ UNCHANGED <<pdf, pc, next, errors, run, copy>>

(* Fault: a PDF that is there is left alone. *)
WriteOnce ==
  /\ pc = "building" /\ HasText
  /\ pdf' = [pdf EXCEPT ![files[next]] = IF @ = NoPdf THEN page ELSE @]
  /\ page' = NoPage /\ next' = next + 1
  /\ UNCHANGED <<pc, errors, run, copy>>

Write ==
  /\ pc = "building" /\ HasText
  /\ pdf' = [pdf EXCEPT ![files[next]] = page]
  /\ page' = NoPage /\ next' = next + 1
  /\ UNCHANGED <<pc, errors, run, copy>>

Finish ==
  /\ pc = "building" /\ next > Len(files)
  /\ pc' = "done"
  /\ UNCHANGED <<pdf, next, errors, page, run, copy>>

(* A missing state, an error of pandoc or weasyprint, or Ctrl-C, perhaps   *)
(* in the middle of the writing.                                           *)
Fail ==
  /\ pc = "building" /\ next <= Len(files)
  /\ pc' = "failed" /\ page' = NoPage
  /\ \/ UNCHANGED pdf
     \/ HasText /\ pdf' = [pdf EXCEPT ![files[next]] = Cut]
  /\ UNCHANGED <<next, errors, run, copy>>

Next ==
  \/ \E f \in Files, h \in Edits : Edit(f, h)
  \/ \E named \in Arguments, every \in BOOLEAN : Invoke(named, every)
  \/ Check \/ CheckDone
  \/ ReadHeader \/ Pandoc \/ Write \/ Finish \/ Fail

Spec == Init /\ [][Next]_vars

-----------------------------------------------------------------------------
(* One wrong file and no PDF changes, not even those of the files that are *)
(* in order (main: every file is checked before any is built).             *)
RefusedChangesNothing == pc = "refused" => pdf = before

(* After a run that ends with 0, the PDF of every file it was asked for    *)
(* shows that file, style and text, unless it was edited since the run     *)
(* began; with --all these are all the playbooks (main, build).            *)
DoneIsCurrent ==
  pc = "done" =>
    \A f \in Files \ saved :
      (\E n \in 1..Len(files) : files[n] = f) \/ (all /\ IsPlaybook(Header(f))) =>
        pdf[f] = [state |-> BuildValue(Header(f), "state"), text |-> text[f]]

(* Both together: no PDF is touched by a run that refuses, and none is     *)
(* stale after one that ends with 0 (main).                                *)
PdfsRight == RefusedChangesNothing /\ DoneIsCurrent

(* What was rendered satisfies check_docs.py too, though the two read a    *)
(* value up to different places; the exception is a title or sprint that   *)
(* begins with # right after the colon (check, check_docs.header).         *)
DonePassesDocsCheck ==
  pc = "done" =>
    \A n \in 1..Len(files) : files[n] \notin saved =>
      \A e \in CheckHeader("record", Header(files[n]), pdf[files[n]] # NoPdf) :
        e \in {"title", "sprint"} /\ Header(files[n])[e] = [word |-> "", glued |-> TRUE]
=============================================================================
