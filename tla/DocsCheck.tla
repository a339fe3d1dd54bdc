------------------------------ MODULE DocsCheck ------------------------------
(***************************************************************************)
(* scripts/check_docs.py: one run of main over a repository that does not  *)
(* change meanwhile.  First every file is checked for itself, then the     *)
(* documents are searched for from docs/docs.md along their links.         *)
(***************************************************************************)
EXTENDS DocHeaders, Integers, Sequences, FiniteSets

CONSTANTS
  Tree,       \* the Markdown files, in the order of markdown_files
  Docs,       \* those under docs/
  Templates,  \* those under docs/_templates
  Evidence,   \* those under evidence/
  Records,    \* those of a directory below it
  Decisions,  \* those of docs/decisions whose name has a number
  Index,      \* docs/docs.md
  Others,     \* what else exists that a link may point at
  Absent,     \* what does not exist
  External,   \* the target of a link to the web or inside a page
  Repositories  \* what the files may hold: [header, links], by file

Files == {Tree[n] : n \in 1..Len(Tree)}
Targets == Files \cup Others \cup Absent \cup {External}
Tracked == (Docs \cup Evidence) \ Templates

ASSUME DocsAssumption ==
  /\ Len(Tree) \in Nat
  /\ IsFiniteSet(Files)
  /\ Docs \cup Evidence \subseteq Files /\ Docs \cap Evidence = {}
  /\ Templates \subseteq Docs /\ Records \subseteq Evidence /\ Decisions \subseteq Docs
  /\ Index \in Docs \ Templates
  /\ External \notin Files \cup Others \cup Absent
  /\ Absent \cap (Files \cup Others) = {}
  /\ \A r \in Repositories : r.links \in [Files -> SUBSET Targets]

VARIABLES
  header,  \* the header of each file
  links,   \* the targets of the links of each file
  pdfs,    \* the files that have a PDF beside them
  pc,      \* checking the files, searching, or done
  next,    \* the file to be checked
  errors,  \* what was found: [file, what]
  seen,    \* the documents that were reached
  queue    \* those of them whose links are still to be followed

vars == <<header, links, pdfs, pc, next, errors, seen, queue>>
repository == <<header, links, pdfs>>

Init ==
  /\ \E r \in Repositories : header = r.header /\ links = r.links
  /\ pdfs \in SUBSET Records
  /\ pc = "files" /\ next = 1
  /\ errors = {}
  /\ seen = {Index} /\ queue = {Index}

Kind(f) ==
  IF f \in Records THEN "record" ELSE IF f \in Decisions THEN "decision" ELSE "doc"

Error(f, what) == [file |-> f, what |-> what]

(* Fault: links are looked up in the documents only. *)
BrokenLinksOfDocs(f) ==
  IF f \in Tracked /\ links[f] \cap Absent # {} THEN {Error(f, "broken link")} ELSE {}

BrokenLinks(f) ==
  IF links[f] \cap Absent # {} THEN {Error(f, "broken link")} ELSE {}

HeaderErrors(f) ==
  IF f \notin Docs \cup Evidence THEN {}
  ELSE {Error(f, e) : e \in CheckHeader(Kind(f), header[f], f \in pdfs)}

(* One turn of the loop over the files; a template is skipped. *)
CheckFile ==
  /\ pc = "files" /\ next <= Len(Tree)
  /\ next' = next + 1
  /\ errors' = IF Tree[next] \in Templates THEN errors
               ELSE errors \cup HeaderErrors(Tree[next]) \cup BrokenLinks(Tree[next])
  /\ UNCHANGED <<repository, pc, seen, queue>>

FilesDone ==
  /\ pc = "files" /\ next > Len(Tree)
  /\ pc' = "search"
  /\ UNCHANGED <<repository, next, errors, seen, queue>>

(* Fault: links to pages that are not documents are followed too. *)
FollowAny(f) ==
  /\ pc = "search" /\ f \in queue
  /\ LET new == (links[f] \cap Files) \ seen IN
       /\ seen' = seen \cup new
       /\ queue' = (queue \ {f}) \cup new
  /\ UNCHANGED <<repository, pc, next, errors>>

(* One turn of the search, which may take the documents in any order. *)
Follow(f) ==
  /\ pc = "search" /\ f \in queue
  /\ LET new == (links[f] \cap Tracked) \ seen IN
       /\ seen' = seen \cup new
       /\ queue' = (queue \ {f}) \cup new
  /\ UNCHANGED <<repository, pc, next, errors>>

Finish ==
  /\ pc = "search" /\ queue = {}
  /\ pc' = "done"
  /\ errors' = errors \cup {Error(f, "orphan") : f \in Tracked \ seen}
  /\ UNCHANGED <<repository, next, seen, queue>>

Next == CheckFile \/ FilesDone \/ (\E f \in Files : Follow(f)) \/ Finish

Spec == Init /\ [][Next]_vars

-----------------------------------------------------------------------------
(* A set of documents that links do not lead out of. *)
Closed(S) == Index \in S /\ \A f \in S : links[f] \cap Tracked \subseteq S

(* A document can be reached from the index along links between documents. *)
Reachable(f) == \A S \in SUBSET Tracked : Closed(S) => f \in S

TypeOK ==
  /\ pc \in {"files", "search", "done"}
  /\ next \in 1..Len(Tree) + 1
  /\ \A e \in errors : e.file \in Files
  /\ seen \subseteq Tracked /\ queue \subseteq seen
  /\ links \in [Files -> SUBSET Targets]

(* A search that went nowhere it should not: everything that was reached   *)
(* can be reached (main, the search).                                      *)
SeenIsReachable == \A f \in seen : Reachable(f)

(* What is reported as an orphan is not reachable, and every document that *)
(* is not reachable is reported, whatever the cycles (main).               *)
OrphansExact ==
  pc = "done" => \A f \in Tracked : Error(f, "orphan") \in errors <=> ~Reachable(f)

(* Both together: the search finds what it should and nothing else (main). *)
SearchExact == SeenIsReachable /\ OrphansExact

(* Exit status 0 means: each document has a header of its kind, every link *)
(* outside the templates leads somewhere, and a successor is named for     *)
(* what is superseded (check_header, main).                                *)
PassedIsSound ==
  pc = "done" /\ errors = {} =>
    /\ \A f \in Tracked : Reachable(f) /\ header[f] # NoHeader
    /\ \A f \in Files \ Templates : links[f] \subseteq Targets \ Absent
    /\ \A f \in Tracked \ (Records \cup Decisions) :
         header[f]["status"].word = "superseded" => header[f]["superseded_by"].word # ""
    /\ \A f \in Records : header[f]["type"].word = "playbook" => f \in pdfs

(* "every relative Markdown link in the repo points at a file that exists".*)
PassedLinksExist ==
  pc = "done" /\ errors = {} => \A f \in Files : links[f] \cap Absent = {}
=============================================================================
