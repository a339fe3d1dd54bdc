------------------------------- MODULE Scripts -------------------------------
(***************************************************************************)
(* The scripts that check the documents, render them and demonstrate the   *)
(* service, in one specification.  They share no state: one of them runs,  *)
(* for any of its inputs, while the others are at their start.             *)
(***************************************************************************)
EXTENDS DocsCheck

CONSTANTS
  BookTree, Dated, Arguments, BookHeaders, Edits, NoPdf, Cut, NoPage,  \* of Playbooks
  MaxEdits, MaxRuns,
  Tabs, Fast, Students, Slots, Places, NoResult                        \* of Demo

VARIABLES
  text, pdf, bookPc, files, bookNext, bookErrors, page, before, saved, all, edits, runs,
  asked, todo, step, passed, failed, last, exit, state, result, spoilt, answered, disturbed,
  part  \* the script that runs

Books == INSTANCE Playbooks WITH
  Tree <- BookTree, HeaderSets <- BookHeaders, pc <- bookPc, next <- bookNext,
  errors <- bookErrors

Walk == INSTANCE Demo WITH Others <- Students

(* Of a page, the state is read first, and then the text. *)
BookText == [edit : Nat, header : Headers]
Glimpses == [state : Words]
Pages == [state : Words, text : BookText]

ASSUME BooksAssumption ==
  /\ BookTree \in Seq(Books!Files) /\ NoHeader \notin [Keys -> Texts]
  /\ Arguments \subseteq Seq(Books!Files)
  /\ BookHeaders \subseteq [Books!Files -> Headers] /\ Edits \subseteq Headers
  /\ NoPage \notin Glimpses \cup Pages /\ {NoPdf, Cut} \cap Pages = {}

(* The last stage opens one stream more than the line holds.               *)
ASSUME DemoAssumption ==
  /\ Slots \in Nat /\ Places \in Nat
  /\ IsFiniteSet(Tabs) /\ Cardinality(Tabs) = Slots + Places + 1
  /\ Fast \notin Tabs /\ Students \cap (Tabs \cup {Fast}) = {}
  /\ NoResult \notin {200, 429, 502, -1}

books ==
  <<text, pdf, bookPc, files, bookNext, bookErrors, page, before, saved, all, edits, runs>>
walk ==
  <<asked, todo, step, passed, failed, last, exit, state, result, spoilt, answered, disturbed>>
scripts == <<vars, books, walk, part>>

OneTree ==
  LET r == CHOOSE r \in Repositories : TRUE IN
    header = r.header /\ links = r.links /\ pdfs = {} /\ Init
NoBooks ==
  LET h == CHOOSE h \in BookHeaders : TRUE IN
    text = [f \in Books!Files |-> [edit |-> 0, header |-> h[f]]] /\ Books!Init
NoWalk == Walk!Init /\ exit = 2 /\ Len(asked) = 4

ScriptsInit ==
  \/ part = "check_docs.py" /\ Init /\ NoBooks /\ NoWalk
  \/ part = "build_playbook.py" /\ Books!Init /\ OneTree /\ NoWalk
  \/ part = "demo.py" /\ Walk!Init /\ OneTree /\ NoBooks

ScriptsNext ==
  \/ part = "check_docs.py" /\ Next /\ UNCHANGED <<books, walk, part>>
  \/ part = "build_playbook.py" /\ Books!Next /\ UNCHANGED <<vars, walk, part>>
  \/ part = "demo.py" /\ Walk!Next /\ UNCHANGED <<vars, books, part>>

ScriptsSpec == ScriptsInit /\ [][ScriptsNext]_scripts

(* What the PDFs hold after a run of build_playbook.py.                    *)
PdfsRight == Books!PdfsRight

(* What build_playbook.py renders, check_docs.py accepts.                  *)
DonePassesDocsCheck == Books!DonePassesDocsCheck

(* What the exit status of demo.py says. *)
ExitIsHonest == Walk!ExitIsHonest

(* The last stage of demo.py, with the line to itself, passes.             *)
QuietQueuePasses == Walk!QuietQueuePasses

(* What demo.py says of its last stage, and what TLC refutes. *)
SeventhIsRefused == Walk!SeventhIsRefused
PassMeansServed == Walk!PassMeansServed
=============================================================================
