------------------------------ MODULE MCScripts ------------------------------
(* Six files with their links, three playbooks, and the line of a model     *)
(* with one slot and one place, for three streams and one other student.   *)
EXTENDS Scripts, TLC

CONSTANTS
  index, guide, choice, note, form, readme, picture, gone,  \* the files of check_docs.py
  access, routing, measured                                 \* of build_playbook.py

-----------------------------------------------------------------------------
(* The index, three documents, a template, the README; then two playbooks  *)
(* and a record that is none.                                              *)
AllFiles == <<choice, guide, index, form, note, readme>>
BookFiles == <<access, measured, routing>>

Text(word, glued) == [word |-> word, glued |-> glued]
Fields(pairs) ==
  [key \in Keys |-> Text(IF key \in DOMAIN pairs THEN pairs[key] ELSE "", FALSE)]

Good ==
  Fields([status |-> "current", date |-> "2026-10-29", last_verified |-> "2026-10-29"])
GoodDecision == Fields([status |-> "accepted", date |-> "2026-10-29"])
Replaced == Fields([status |-> "superseded", last_verified |-> "2026-10-29"])
ReplacedBy ==
  Fields([status |-> "superseded", last_verified |-> "2026-10-29", superseded_by |-> "other"])
Undated == Fields([status |-> "current"])
Begun ==
  Fields([type |-> "playbook", date |-> "2026-10-29", title |-> "other", sprint |-> "other",
          state |-> "in progress"])
Complete == [Begun EXCEPT !["state"] = Text("done", FALSE)]
Vague == [Begun EXCEPT !["state"] = Text("other", FALSE), !["sprint"] = Text("", FALSE)]
Wrong == [Begun EXCEPT !["state"] = Text("other", FALSE)]
Late == [Begun EXCEPT !["state"] = Text("done", TRUE)]
Hashed == [Begun EXCEPT !["title"] = Text("", TRUE)]
Typed == [Complete EXCEPT !["type"] = Text("playbook", TRUE)]
Record == [Begun EXCEPT !["type"] = Text("other", FALSE), !["state"] = Text("", FALSE)]

(* A function for each choice of a value for each file. *)
Each(C, D, I, F, N, R) ==
  {choice :> c @@ guide :> d @@ index :> i @@ form :> f @@ note :> n @@ readme :> r :
     c \in C, d \in D, i \in I, f \in F, n \in N, r \in R}

(* Every link there may be between the documents, and correct headers. *)
AnyLinks ==
  Each(SUBSET {guide, readme}, SUBSET {index, choice, note, gone}, SUBSET {guide, choice, note},
       {{guide, gone}}, {{}, {guide}, {picture}}, {{guide}, {External}})
GoodHeaders == Each({GoodDecision}, {Good}, {Good}, {Good}, {Good}, {NoHeader})

(* A chain of links, and every sort of header. *)
ChainLinks ==
  Each({{}, {index}}, {{note}, {note, gone}}, {{guide, choice}}, {{gone}}, {{guide}}, {{index}, {gone}})
AnyHeaders ==
  Each({Good, GoodDecision}, {Good, Replaced, ReplacedBy, Undated}, {Good, NoHeader},
       {NoHeader}, {Good, Undated, Complete, Vague}, {NoHeader})

SomeRepositories ==
  [links : AnyLinks, header : GoodHeaders] \cup [links : ChainLinks, header : AnyHeaders]

FirstHeaders ==
  {access :> a @@ measured :> m @@ routing :> r :
     a \in {Begun, Wrong, Hashed}, m \in {Record}, r \in {Begun, Typed}}
AnyEdits == {Complete, Late, NoHeader}
Named == {<<>>, <<routing>>, <<access, routing>>, <<measured>>}

AnyOrder == Permutations(Tabs)
=============================================================================
