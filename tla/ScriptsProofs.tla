--------------------------- MODULE ScriptsProofs ---------------------------
(***************************************************************************)
(* Proofs about the scripts: for any repository, any documents with their  *)
(* edits, and any answers of the site.                                     *)
(***************************************************************************)
EXTENDS Scripts, SetLemmas

(* What was reached is followed or waits to be. *)
Explored == \A f \in seen \ queue : links[f] \cap Tracked \subseteq seen

(* The files before the next one have had their say. *)
Said ==
  \A n \in 1..Len(Tree) : n < next /\ Tree[n] \notin Templates =>
    HeaderErrors(Tree[n]) \cup BrokenLinks(Tree[n]) \subseteq errors

Orphans ==
  \A f \in Files : Error(f, "orphan") \in errors <=> (pc = "done" /\ f \in Tracked \ seen)

DInv ==
  /\ TypeOK /\ Index \in seen
  /\ Explored /\ SeenIsReachable
  /\ Said /\ Orphans
  /\ pc # "files" => next > Len(Tree)
  /\ pc = "done" => queue = {}

LEMMA TrackedFiles == Tracked \subseteq Files /\ Index \in Tracked
BY DocsAssumption DEF Tracked

LEMMA OrphanIsNoHeaderError ==
  ASSUME NEW kind \in {"record", "decision", "doc"}, NEW h, NEW built
  PROVE  "orphan" \notin CheckHeader(kind, h, built)
<1>1. \A c, e : e # "orphan" => "orphan" \notin ErrorIf(c, e)
  BY DEF ErrorIf
<1>2. "orphan" \notin RecordErrors(h, built)
  BY <1>1 DEF RecordErrors
<1>3. "orphan" \notin DecisionErrors(h) /\ "orphan" \notin DocErrors(h)
  BY <1>1 DEF DecisionErrors, DocErrors
<1> QED BY <1>2, <1>3 DEF CheckHeader

LEMMA InitDInv == Init => DInv
<1> SUFFICES ASSUME Init PROVE DInv
  OBVIOUS
<1> USE DEF Init
<1>1. TypeOK /\ Index \in seen
  BY TrackedFiles, DocsAssumption DEF TypeOK
<1>2. Explored /\ SeenIsReachable
  BY DEF Explored, SeenIsReachable, Reachable, Closed
<1>3. Said /\ Orphans
  BY DocsAssumption DEF Said, Orphans
<1> QED BY <1>1, <1>2, <1>3 DEF DInv

LEMMA CheckFileKeeps == DInv /\ CheckFile => DInv'
<1> SUFFICES ASSUME DInv, CheckFile PROVE DInv'
  OBVIOUS
<1>1. /\ pc = "files" /\ next <= Len(Tree) /\ next' = next + 1 /\ next \in 1..Len(Tree)
      /\ errors \subseteq errors'
      /\ UNCHANGED <<header, links, pdfs, pc, seen, queue>>
  BY DEF CheckFile, repository, DInv, TypeOK
<1>2. Tree[next] \in Files
  BY <1>1 DEF Files
<1>3. \A e \in errors' : e \in errors \/ (e.file = Tree[next] /\ e.what # "orphan")
  <2>1. \A e \in HeaderErrors(Tree[next]) : e.file = Tree[next] /\ e.what # "orphan"
    BY OrphanIsNoHeaderError DEF HeaderErrors, Error, Kind
  <2>2. \A e \in BrokenLinks(Tree[next]) : e.file = Tree[next] /\ e.what # "orphan"
    <3>1. BrokenLinks(Tree[next]) \subseteq {Error(Tree[next], "broken link")}
      BY DEF BrokenLinks
    <3>2. /\ Error(Tree[next], "broken link").file = Tree[next]
          /\ Error(Tree[next], "broken link").what = "broken link"
      BY DEF Error
    <3> QED BY <3>1, <3>2
  <2> QED BY <2>1, <2>2 DEF CheckFile
<1>4. TypeOK'
  BY <1>1, <1>2, <1>3, DocsAssumption DEF DInv, TypeOK
<1>5. Orphans'
  <2>1. \A f : Error(f, "orphan").what = "orphan"
    BY DEF Error
  <2>2. \A f \in Files : Error(f, "orphan") \in errors' <=> Error(f, "orphan") \in errors
    BY <1>1, <1>3, <2>1
  <2> QED BY <1>1, <2>2 DEF DInv, Orphans
<1>6. Said'
  <2> SUFFICES ASSUME NEW n \in 1..Len(Tree), n < next + 1, Tree[n] \notin Templates
               PROVE  HeaderErrors(Tree[n]) \cup BrokenLinks(Tree[n]) \subseteq errors'
    BY <1>1 DEF Said, HeaderErrors, BrokenLinks
  <2>1. CASE n = next
    BY <2>1 DEF CheckFile
  <2>2. CASE n # next
    <3>1. n < next
      BY <1>1, <2>2, DocsAssumption
    <3> QED BY <1>1, <3>1 DEF DInv, Said
  <2> QED BY <2>1, <2>2
<1>7. Explored' /\ SeenIsReachable'
  BY <1>1 DEF DInv, Explored, SeenIsReachable, Reachable, Closed
<1> QED BY <1>1, <1>4, <1>5, <1>6, <1>7 DEF DInv

LEMMA FollowKeeps == ASSUME DInv, NEW f \in Files, Follow(f) PROVE DInv'
<1> DEFINE new == (links[f] \cap Tracked) \ seen
<1>1. /\ pc = "search" /\ f \in queue /\ f \in seen
      /\ seen' = seen \cup new /\ queue' = (queue \ {f}) \cup new
      /\ UNCHANGED <<header, links, pdfs, pc, next, errors>>
  BY DEF Follow, repository, DInv, TypeOK
<1>2. TypeOK' /\ Index \in seen'
  BY <1>1 DEF DInv, TypeOK
<1>3. Explored'
  BY <1>1 DEF DInv, Explored
<1>4. SeenIsReachable'
  <2> SUFFICES ASSUME NEW g \in seen', NEW S \in SUBSET Tracked, Closed(S) PROVE g \in S
    BY <1>1 DEF SeenIsReachable, Reachable, Closed
  <2>1. seen \subseteq S
    BY DEF DInv, SeenIsReachable, Reachable
  <2> QED BY <1>1, <2>1 DEF Closed
<1>5. Said' /\ Orphans'
  BY <1>1 DEF DInv, Said, Orphans, HeaderErrors, BrokenLinks
<1> QED BY <1>1, <1>2, <1>3, <1>4, <1>5 DEF DInv

LEMMA FinishKeeps == DInv /\ Finish => DInv'
<1> SUFFICES ASSUME DInv, Finish PROVE DInv'
  OBVIOUS
<1>1. /\ pc = "search" /\ queue = {} /\ pc' = "done"
      /\ errors' = errors \cup {Error(f, "orphan") : f \in Tracked \ seen}
      /\ UNCHANGED <<header, links, pdfs, next, seen, queue>>
  BY DEF Finish, repository
<1>2. TypeOK'
  BY <1>1, TrackedFiles DEF DInv, TypeOK, Error
<1>3. Explored' /\ SeenIsReachable'
  BY <1>1 DEF DInv, Explored, SeenIsReachable, Reachable, Closed
<1>4. Said'
  BY <1>1 DEF DInv, Said, HeaderErrors, BrokenLinks
<1>5. Orphans'
  <2>1. \A f, g : Error(f, "orphan") = Error(g, "orphan") => f = g
    <3> SUFFICES ASSUME NEW f, NEW g, Error(f, "orphan") = Error(g, "orphan") PROVE f = g
      OBVIOUS
    <3>1. Error(f, "orphan").file = f /\ Error(g, "orphan").file = g
      BY DEF Error
    <3> QED BY <3>1
  <2> QED BY <1>1, <2>1 DEF DInv, Orphans
<1> QED BY <1>1, <1>2, <1>3, <1>4, <1>5 DEF DInv

LEMMA NextDInv == DInv /\ [Next]_vars => DInv'
<1> SUFFICES ASSUME DInv, [Next]_vars PROVE DInv'
  OBVIOUS
<1>1. CASE CheckFile
  BY <1>1, CheckFileKeeps
<1>2. CASE FilesDone
  <2>1. UNCHANGED <<header, links, pdfs, next, errors, seen, queue>> /\ pc' = "search"
        /\ pc = "files" /\ next > Len(Tree)
    BY <1>2 DEF FilesDone, repository
  <2> QED BY <2>1 DEF DInv, TypeOK, Explored, SeenIsReachable, Reachable, Closed, Said, Orphans,
             HeaderErrors, BrokenLinks
<1>3. CASE \E f \in Files : Follow(f)
  BY <1>3, FollowKeeps
<1>4. CASE Finish
  BY <1>4, FinishKeeps
<1>5. CASE UNCHANGED vars
  BY <1>5 DEF vars, DInv, TypeOK, Explored, SeenIsReachable, Reachable, Closed, Said, Orphans,
     HeaderErrors, BrokenLinks
<1> QED BY <1>1, <1>2, <1>3, <1>4, <1>5 DEF Next

-----------------------------------------------------------------------------
(* The inductive invariant: what was reached and is not in the queue has   *)
(* been followed, and errors is exactly what was found so far.             *)
THEOREM DocsInvariant == Spec => []DInv
BY InitDInv, NextDInv, PTL DEF Spec

(* Type correctness; the search stays among the documents. *)
THEOREM DocsTyped == Spec => []TypeOK
<1>1. DInv => TypeOK
  BY DEF DInv
<1> QED BY <1>1, DocsInvariant, PTL

LEMMA SeenIsAll ==
  ASSUME DInv, pc = "done", NEW f \in Tracked
  PROVE  f \in seen <=> Reachable(f)
<1>1. f \in seen => Reachable(f)
  BY DEF DInv, SeenIsReachable
<1>2. seen \in SUBSET Tracked /\ Closed(seen)
  BY DEF DInv, TypeOK, Explored, Closed
<1>3. Reachable(f) => f \in seen
  BY <1>2 DEF Reachable
<1> QED BY <1>1, <1>3

(* The search reaches nothing that cannot be reached, and the orphans that *)
(* are reported are the documents out of reach (check_docs.main).          *)
THEOREM DocsSearch == Spec => []SearchExact
<1>1. DInv => OrphansExact
  BY SeenIsAll, TrackedFiles DEF DInv, Orphans, OrphansExact
<1>2. DInv => SearchExact
  BY <1>1 DEF DInv, SearchExact
<1> QED BY <1>2, DocsInvariant, PTL

(* A run without an error vouches for headers, links and reachability. *)
THEOREM DocsPassed == Spec => []PassedIsSound
<1>1. DInv => PassedIsSound
  <2> SUFFICES ASSUME DInv, pc = "done", errors = {} PROVE PassedIsSound
    BY DEF PassedIsSound
  <2>1. \A f \in Tracked : Reachable(f)
    BY SeenIsAll, TrackedFiles DEF DInv, Orphans
  <2>2. \A f \in Files \ Templates : HeaderErrors(f) = {} /\ BrokenLinks(f) = {}
    <3> SUFFICES ASSUME NEW f \in Files \ Templates
                 PROVE  HeaderErrors(f) = {} /\ BrokenLinks(f) = {}
      OBVIOUS
    <3>1. PICK n \in 1..Len(Tree) : f = Tree[n]
      BY DEF Files
    <3>2. n < next
      BY <3>1, DocsAssumption DEF DInv, TypeOK
    <3> QED BY <3>1, <3>2 DEF DInv, Said
  <2>3. \A f \in Files \ Templates : links[f] \subseteq Targets \ Absent
    <3>1. \A f \in Files \ Templates : links[f] \cap Absent = {}
      BY <2>2 DEF BrokenLinks
    <3> QED BY <3>1 DEF DInv, TypeOK
  <2>4. \A f \in Tracked : CheckHeader(Kind(f), header[f], f \in pdfs) = {}
    <3>1. \A f \in Tracked : HeaderErrors(f) = {} /\ f \in Docs \cup Evidence
      BY <2>2, DocsAssumption DEF Tracked
    <3> QED BY <3>1 DEF HeaderErrors
  <2>5. \A f \in Tracked : header[f] # NoHeader
    BY <2>4 DEF CheckHeader, Kind
  <2>6. ASSUME NEW f \in Tracked \ (Records \cup Decisions)
        PROVE  header[f]["status"].word = "superseded" => header[f]["superseded_by"].word # ""
    <3>1. DocErrors(header[f]) = {}
      BY <2>4, <2>5 DEF CheckHeader, Kind
    <3> QED BY <3>1 DEF DocErrors, ErrorIf, Value
  <2>7. ASSUME NEW f \in Records
        PROVE  header[f]["type"].word = "playbook" => f \in pdfs
    <3>1. f \in Tracked
      BY DocsAssumption DEF Tracked
    <3>2. RecordErrors(header[f], f \in pdfs) = {}
      BY <2>4, <2>5, <3>1 DEF CheckHeader, Kind
    <3> QED BY <3>2 DEF RecordErrors, ErrorIf, Value
  <2> QED BY <2>1, <2>3, <2>5, <2>6, <2>7 DEF PassedIsSound
<1> QED BY <1>1, DocsInvariant, PTL

-----------------------------------------------------------------------------
(***************************************************************************)
(* build_playbook.py.  find_playbooks first: what the recursion finds.     *)
(***************************************************************************)
BookFiles == Books!Files
Among(s, f) == \E n \in 1..Len(s) : s[n] = f

LEMMA FilesOfTree ==
  /\ BookTree \in Seq(BookFiles) /\ Len(BookTree) \in Nat
  /\ \A n \in 1..Len(BookTree) : BookTree[n] \in BookFiles
BY BooksAssumption DEF BookFiles

LEMMA AmongMore ==
  ASSUME NEW S, NEW s \in Seq(S), NEW t \in Seq(S), NEW f, Among(s, f)
  PROVE  Among(s \o t, f)
<1>1. PICK n \in 1..Len(s) : s[n] = f
  BY DEF Among
<1>2. Len(s) \in Nat /\ Len(t) \in Nat /\ Len(s \o t) = Len(s) + Len(t)
  OBVIOUS
<1>3. n \in 1..Len(s \o t) /\ (s \o t)[n] = s[n]
  BY <1>2
<1> QED BY <1>1, <1>3 DEF Among

LEMMA AmongLast ==
  ASSUME NEW S, NEW s \in Seq(S), NEW f \in S
  PROVE  Among(s \o <<f>>, f)
<1>1. Len(s) \in Nat /\ Len(s \o <<f>>) = Len(s) + 1 /\ (s \o <<f>>)[Len(s) + 1] = f
  OBVIOUS
<1>2. Len(s) + 1 \in 1..Len(s \o <<f>>)
  BY <1>1
<1> QED BY <1>1, <1>2 DEF Among

LEMMA PlaybookSteps ==
  LET P == Books!Playbook
      N == Len(BookTree)
      Own(n) == IF Books!IsPlaybook(Books!Header(BookTree[n])) THEN <<BookTree[n]>> ELSE <<>>
  IN  P[0] = <<>> /\ \A n \in 1..N : P[n] = P[n - 1] \o Own(n)
<1> DEFINE N == Len(BookTree)
           V == Seq(BookFiles)
           Own(n) == IF Books!IsPlaybook(Books!Header(BookTree[n])) THEN <<BookTree[n]>> ELSE <<>>
           g == [p \in V \X (1..N) |-> p[1] \o Own(p[2])]
           Body(h) == [n \in 0..N |-> IF n = 0 THEN <<>> ELSE h[n - 1] \o Own(n)]
<1>1. N \in Nat /\ \A n \in 1..N : Own(n) \in V
  BY FilesOfTree
<1>2. <<>> \in V /\ g \in [V \X (1..N) -> V]
  <2>1. ASSUME NEW p \in V \X (1..N) PROVE p[1] \o Own(p[2]) \in V
    <3>1. p[1] \in V /\ Own(p[2]) \in V
      BY <1>1
    <3> HIDE DEF Own
    <3> QED BY <3>1
  <2> HIDE DEF Own
  <2> QED BY <2>1
<1>3. PICK h \in [0..N -> V] : Unfolds(h, N, <<>>, g)
  <2>1. N \in Nat
    BY FilesOfTree
  <2> HIDE DEF g
  <2> QED BY <1>2, <2>1, Recursion
<1>4. h[0] = <<>> /\ \A n \in 1..N : h[n] = g[<<h[n - 1], n>>]
  BY <1>3 DEF Unfolds
<1>5. h = Body(h)
  <2>1. \A n \in 1..N : h[n] = h[n - 1] \o Own(n)
    <3> SUFFICES ASSUME NEW n \in 1..N PROVE h[n] = h[n - 1] \o Own(n)
      OBVIOUS
    <3>1. <<h[n - 1], n>> \in V \X (1..N)
      <4>1. n - 1 \in 0..N
        BY <1>1
      <4> QED BY <4>1
    <3> HIDE DEF Own, V, N
    <3> QED BY <1>4, <3>1
  <2>2. \A n \in 0..N : n # 0 => n \in 1..N
    BY <1>1
  <2> HIDE DEF Own, V, N
  <2> QED BY <1>4, <2>1, <2>2
<1>6. Books!Playbook = CHOOSE f : f = Body(f)
  BY DEF Books!Playbook
<1>7. Books!Playbook = Body(Books!Playbook)
  <2> HIDE DEF Body
  <2> QED BY <1>5, <1>6
<1>8. 0 \in 0..N /\ \A n \in 1..N : n \in 0..N /\ n # 0
  BY <1>1
<1> HIDE DEF N, Own
<1>9. Books!Playbook[0] = <<>> /\ \A n \in 1..N : Books!Playbook[n] = Books!Playbook[n - 1] \o Own(n)
  BY <1>7, <1>8
<1> QED BY <1>9 DEF N, Own

(* The recursion finds the playbooks, and only files. *)
LEMMA PlaybooksFound ==
  LET found == Books!Playbook[Len(BookTree)] IN
    /\ found \in Seq(BookFiles)
    /\ \A f \in BookFiles : Books!IsPlaybook(Books!Header(f)) => Among(found, f)
<1> DEFINE N == Len(BookTree)
           P == Books!Playbook
           Own(n) == IF Books!IsPlaybook(Books!Header(BookTree[n])) THEN <<BookTree[n]>> ELSE <<>>
           Has(n, k) == Books!IsPlaybook(Books!Header(BookTree[k])) => Among(P[n], BookTree[k])
           S == {n \in 0..N : P[n] \in Seq(BookFiles) /\ \A k \in 1..n : Has(n, k)}
<1>1. P[0] = <<>> /\ \A n \in 1..N : P[n] = P[n - 1] \o Own(n)
  BY PlaybookSteps
<1>2. N \in Nat /\ \A n \in 1..N : BookTree[n] \in BookFiles
  BY FilesOfTree
<1>3. 0 \in S
  <2>1. <<>> \in Seq(BookFiles) /\ 1..0 = {} /\ 0 \in 0..N
    BY <1>2
  <2> HIDE DEF Has, P, N
  <2> QED BY <2>1, <1>1
<1>4. ASSUME NEW n \in 0..N, n < N, n \in S PROVE n + 1 \in S
  <2>1. n + 1 \in 1..N /\ (n + 1) - 1 = n
    BY <1>2, <1>4
  <2>2. P[n + 1] = P[n] \o Own(n + 1)
    BY <1>1, <2>1
  <2>3. P[n] \in Seq(BookFiles) /\ Own(n + 1) \in Seq(BookFiles)
    BY <1>2, <1>4, <2>1
  <2>4. P[n + 1] \in Seq(BookFiles)
    BY <2>2, <2>3
  <2>5. ASSUME NEW k \in 1..(n + 1) PROVE Has(n + 1, k)
    <3> SUFFICES ASSUME Books!IsPlaybook(Books!Header(BookTree[k]))
                 PROVE  Among(P[n + 1], BookTree[k])
      OBVIOUS
    <3>1. CASE k = n + 1
      <4>1. Own(n + 1) = <<BookTree[k]>>
        BY <3>1
      <4>2. BookTree[k] \in BookFiles
        BY <1>2, <2>1, <3>1
      <4> HIDE DEF P
      <4> QED BY <2>2, <2>3, <4>1, <4>2, AmongLast
    <3>2. CASE k # n + 1
      <4>1. k \in 1..n
        BY <3>2
      <4>2. Among(P[n], BookTree[k])
        BY <1>4, <4>1
      <4> HIDE DEF P, Own
      <4> QED BY <2>2, <2>3, <4>2, AmongMore
    <3> QED BY <3>1, <3>2
  <2> QED BY <2>1, <2>4, <2>5
<1>5. N \in S
  <2> HIDE DEF S
  <2>1. 0..N \subseteq S
    BY <1>2, <1>3, <1>4, UpTo
  <2> QED BY <1>2, <2>1
<1>6. ASSUME NEW f \in BookFiles PROVE \E k \in 1..N : f = BookTree[k]
  BY DEF BookFiles, Books!Files
<1> QED BY <1>5, <1>6

(* The page that shows f as it is. *)
Shown(f) ==
  [state |-> Books!BuildValue(Books!Header(f), "state"), text |-> text[f]]

(* What has been read for f so far, if f was not edited since. *)
ReadFrom(f) ==
  /\ page \in Glimpses \cup Pages
  /\ f \notin saved =>
       /\ page.state = Shown(f).state
       /\ page \in Pages => page.text = text[f]

BooksTyped ==
  /\ text \in [BookFiles -> BookText]
  /\ pdf \in [BookFiles -> Pages \cup {NoPdf, Cut}]
  /\ files \in Seq(BookFiles)
  /\ bookNext \in 1..(Len(files) + 1)
  /\ saved \in SUBSET BookFiles
  /\ edits \in Nat

(* A run that goes on knows every playbook it was asked for. *)
KnowsAll ==
  all => \A f \in BookFiles \ saved :
           Books!IsPlaybook(Books!Header(f)) => Among(files, f)

InOrder(n) ==
  Books!BuildErrors(Books!Header(files[n]), files[n] \in Dated)

Checked ==
  /\ bookPc = "checking" =>
       \A n \in 1..Len(files) : n < bookNext /\ files[n] \notin saved => InOrder(n) \subseteq bookErrors
  /\ bookPc \in {"building", "done"} =>
       \A n \in 1..Len(files) : files[n] \notin saved => InOrder(n) = {}

Built ==
  /\ bookPc = "building" =>
       \A n \in 1..Len(files) : n < bookNext /\ files[n] \notin saved => pdf[files[n]] = Shown(files[n])
  /\ bookPc = "done" =>
       \A n \in 1..Len(files) : files[n] \notin saved => pdf[files[n]] = Shown(files[n])

BooksInv ==
  /\ BooksTyped
  /\ bookPc \in {"checking", "refused"} => pdf = before
  /\ bookPc \in {"checking", "building", "done"} => KnowsAll
  /\ Checked
  /\ Built
  /\ bookPc = "building" /\ page # NoPage => bookNext <= Len(files) /\ ReadFrom(files[bookNext])
  /\ bookPc = "checking" => page = NoPage

LEMMA ValueIsWord == ASSUME NEW h \in Headers, NEW key \in Keys PROVE Books!BuildValue(h, key) \in Words
<1>1. h = NoHeader \/ (h # NoHeader /\ h \in [Keys -> Texts])
  BY DEF Headers
<1>2. "" \in Words /\ "other" \in Words
  BY DEF Words
<1>3. h # NoHeader /\ h \in [Keys -> Texts] => h[key].word \in Words
  BY DEF Texts
<1> QED BY <1>1, <1>2, <1>3 DEF Books!BuildValue

(* A page of a file of the tree; a page is no missing or broken PDF. *)
LEMMA ShownIsPage ==
  ASSUME BooksTyped, NEW f \in BookFiles
  PROVE  Shown(f) \in Pages /\ Shown(f).state \in Words
<1>1. text[f] \in BookText /\ Books!Header(f) \in Headers
  BY DEF BooksTyped, BookText, Books!Header
<1>2. Books!BuildValue(Books!Header(f), "state") \in Words
  BY <1>1, ValueIsWord DEF Keys
<1> QED BY <1>1, <1>2 DEF Shown, Pages

LEMMA PageText ==
  /\ \A p \in Glimpses : p.state \in Words /\ "text" \notin DOMAIN p /\ p \notin Pages
  /\ \A p \in Pages : p.state \in Words /\ p.text \in BookText /\ "text" \in DOMAIN p
                      /\ p = [state |-> p.state, text |-> p.text]
BY DEF Glimpses, Pages

LEMMA BooksInit == Books!Init => BooksInv
<1> SUFFICES ASSUME Books!Init PROVE BooksInv
  OBVIOUS
<1>1. PICK h \in BookHeaders : text = [f \in BookFiles |-> [edit |-> 0, header |-> h[f]]]
  BY DEF Books!Init, BookFiles
<1>2. text \in [BookFiles -> BookText]
  <2>1. h \in [BookFiles -> Headers]
    BY BooksAssumption DEF BookFiles
  <2> QED BY <1>1, <2>1 DEF BookText
<1>3. BooksTyped
  <2>1. Len(<<>>) = 0 /\ <<>> \in Seq(BookFiles)
    OBVIOUS
  <2> QED BY <1>2, <2>1 DEF Books!Init, BooksTyped, BookFiles
<1> QED BY <1>3 DEF Books!Init, BooksInv, Checked, Built

(* An edit leaves what is known of the files that were not edited. *)
LEMMA EditKeeps ==
  ASSUME BooksInv, NEW f \in BookFiles, NEW h \in Edits, Books!Edit(f, h)
  PROVE  BooksInv'
<1>1. /\ UNCHANGED <<pdf, bookPc, bookNext, bookErrors, page, files, before, all, runs>>
      /\ text' = [text EXCEPT ![f] = [edit |-> edits + 1, header |-> h]]
      /\ saved' = saved \cup {f} /\ edits' = edits + 1
  BY DEF Books!Edit, Books!run
<1>2. [edit |-> edits + 1, header |-> h] \in BookText
  BY BooksAssumption DEF BooksInv, BooksTyped, BookText
<1>3. BooksTyped'
  BY <1>1, <1>2 DEF BooksInv, BooksTyped
<1>4. \A g : g \in BookFiles /\ g \notin saved' =>
        g \notin saved /\ text'[g] = text[g] /\ Books!Header(g)' = Books!Header(g)
        /\ Shown(g)' = Shown(g)
  BY <1>1 DEF BooksInv, BooksTyped, Books!Header, Shown
<1>5. \A n \in 1..Len(files) : files[n] \in BookFiles
  BY DEF BooksInv, BooksTyped
<1>6. \A n \in 1..Len(files) : files[n] \notin saved' => InOrder(n)' = InOrder(n)
  <2> SUFFICES ASSUME NEW n \in 1..Len(files), files[n] \notin saved'
               PROVE  InOrder(n)' = InOrder(n)
    OBVIOUS
  <2>1. text'[files[n]] = text[files[n]]
    BY <1>4, <1>5
  <2> QED BY <1>1, <2>1 DEF InOrder, Books!Header
<1>7. KnowsAll => KnowsAll'
  BY <1>1, <1>4 DEF KnowsAll, Among
<1>8. Checked'
  BY <1>1, <1>4, <1>5, <1>6 DEF BooksInv, Checked
<1>9. Built'
  BY <1>1, <1>4, <1>5 DEF BooksInv, Built
<1>10. bookPc = "building" /\ page # NoPage => ReadFrom(files[bookNext])'
  <2> SUFFICES ASSUME bookPc = "building", page # NoPage PROVE ReadFrom(files[bookNext])'
    OBVIOUS
  <2>1. bookNext \in 1..Len(files) /\ ReadFrom(files[bookNext])
    BY DEF BooksInv, BooksTyped
  <2>2. files[bookNext] \in BookFiles /\ (files[bookNext])' = files[bookNext]
    BY <1>1, <2>1 DEF BooksInv, BooksTyped
  <2> QED BY <1>1, <1>4, <2>1, <2>2 DEF ReadFrom
<1> QED BY <1>1, <1>3, <1>7, <1>8, <1>9, <1>10 DEF BooksInv

LEMMA InvokeKeeps ==
  ASSUME BooksInv, NEW named \in Arguments, NEW every \in BOOLEAN, Books!Invoke(named, every)
  PROVE  BooksInv'
<1> DEFINE found == IF every THEN Books!Playbook[Len(BookTree)] ELSE <<>>
<1>1. /\ files' = named \o found /\ bookNext' = 1 /\ page' = NoPage /\ before' = pdf
      /\ saved' = {} /\ all' = every /\ UNCHANGED <<text, pdf, edits>>
      /\ bookPc' \in {"refused", "checking"}
  BY DEF Books!Invoke
<1>2. named \in Seq(BookFiles) /\ found \in Seq(BookFiles)
  BY PlaybooksFound, BooksAssumption DEF BookFiles
<1>3. files' \in Seq(BookFiles) /\ Len(files') \in Nat
  BY <1>1, <1>2
<1>4. BooksTyped'
  BY <1>1, <1>3 DEF BooksInv, BooksTyped
<1>5. KnowsAll'
  <2> SUFFICES ASSUME every, NEW f \in BookFiles, Books!IsPlaybook(Books!Header(f))
               PROVE  Among(files', f)
    BY <1>1 DEF KnowsAll, Among, Books!Header
  <2>1. Among(found, f)
    BY PlaybooksFound
  <2>2. PICK n \in 1..Len(found) : found[n] = f
    BY <2>1 DEF Among
  <2> HIDE DEF found
  <2>3. /\ Len(named) + n \in 1..Len(named \o found)
        /\ (named \o found)[Len(named) + n] = f
    BY <1>2, <2>2
  <2> QED BY <1>1, <2>3 DEF Among
<1>6. Checked' /\ Built'
  BY <1>1, <1>3 DEF Checked, Built
<1> QED BY <1>1, <1>4, <1>5, <1>6 DEF BooksInv

(* Steps that leave the files, their text and the list of them alone. *)
LEMMA SameFiles ==
  ASSUME UNCHANGED <<text, files, saved>>
  PROVE  /\ \A f : Shown(f)' = Shown(f) /\ Books!Header(f)' = Books!Header(f)
         /\ \A n \in 1..Len(files) : InOrder(n)' = InOrder(n)
         /\ all' = all /\ KnowsAll => KnowsAll'
         /\ \A f : UNCHANGED page /\ ReadFrom(f) => ReadFrom(f)'
<1>1. \A f : Books!Header(f)' = Books!Header(f)
  BY DEF Books!Header
<1>2. \A f : Shown(f)' = Shown(f)
  BY <1>1 DEF Shown
<1>3. \A n \in 1..Len(files) : InOrder(n)' = InOrder(n)
  BY <1>1 DEF InOrder
<1>4. all' = all /\ KnowsAll => KnowsAll'
  BY <1>1 DEF KnowsAll, Among
<1> QED BY <1>1, <1>2, <1>3, <1>4 DEF ReadFrom

LEMMA CheckKeeps ==
  ASSUME BooksInv, Books!Check \/ Books!CheckDone
  PROVE  BooksInv'
<1>1. /\ bookPc = "checking" /\ UNCHANGED <<text, files, saved, pdf, page, before, all, edits>>
      /\ page = NoPage /\ pdf = before /\ KnowsAll /\ bookNext \in 1..(Len(files) + 1)
      /\ Len(files) \in Nat
  BY DEF Books!Check, Books!CheckDone, Books!run, Books!copy, BooksInv, BooksTyped
<1>2. KnowsAll'
  BY <1>1, SameFiles
<1>3. CASE Books!Check
  <2>1. /\ bookNext <= Len(files) /\ bookNext' = bookNext + 1 /\ bookPc' = "checking"
        /\ bookErrors' = bookErrors \cup InOrder(bookNext)
    BY <1>3 DEF Books!Check, InOrder
  <2>2. BooksTyped'
    BY <1>1, <2>1 DEF BooksInv, BooksTyped
  <2>3. Checked'
    <3> SUFFICES ASSUME NEW n \in 1..Len(files), n < bookNext', files[n] \notin saved
                 PROVE  InOrder(n) \subseteq bookErrors'
      BY <1>1, <2>1, SameFiles DEF Checked
    <3>1. CASE n = bookNext
      BY <2>1, <3>1
    <3>2. CASE n # bookNext
      <4>1. n < bookNext
        BY <1>1, <2>1, <3>2
      <4> QED BY <1>1, <2>1, <4>1 DEF BooksInv, Checked
    <3> QED BY <3>1, <3>2
  <2> QED BY <1>1, <1>2, <2>1, <2>2, <2>3 DEF BooksInv, Built
<1>4. CASE Books!CheckDone
  <2>1. /\ bookNext > Len(files) /\ bookNext' = 1 /\ bookErrors' = bookErrors
        /\ bookPc' = IF bookErrors = {} THEN "building" ELSE "refused"
    BY <1>4 DEF Books!CheckDone
  <2>2. BooksTyped'
    BY <1>1, <2>1 DEF BooksInv, BooksTyped
  <2>3. bookErrors = {} => \A n \in 1..Len(files) : files[n] \notin saved => InOrder(n) = {}
    <3> SUFFICES ASSUME bookErrors = {}, NEW n \in 1..Len(files), files[n] \notin saved
                 PROVE  InOrder(n) = {}
      OBVIOUS
    <3>1. n < bookNext
      BY <1>1, <2>1
    <3>2. InOrder(n) \subseteq bookErrors
      BY <1>1, <3>1 DEF BooksInv, Checked
    <3> QED BY <3>2
  <2>4. Checked'
    BY <1>1, <2>1, <2>3, SameFiles DEF Checked
  <2>5. Built'
    BY <1>1, <2>1 DEF Built
  <2> QED BY <1>1, <1>2, <2>1, <2>2, <2>4, <2>5 DEF BooksInv
<1> QED BY <1>3, <1>4

LEMMA ReadKeeps ==
  ASSUME BooksInv, Books!ReadHeader \/ Books!Pandoc
  PROVE  BooksInv'
<1> DEFINE f == files[bookNext]
<1>1. /\ bookPc = "building" /\ UNCHANGED <<text, files, saved, pdf, before, all, edits>>
      /\ UNCHANGED <<bookPc, bookNext, bookErrors>>
      /\ bookNext \in 1..Len(files) /\ f \in BookFiles /\ KnowsAll
  BY DEF Books!ReadHeader, Books!Pandoc, Books!run, Books!copy, BooksInv, BooksTyped
<1>2. Shown(f) \in Pages /\ Shown(f).state \in Words /\ text[f] \in BookText
  BY <1>1, ShownIsPage DEF BooksInv, BooksTyped
<1>3. Shown(f).state = Books!BuildValue(Books!Header(f), "state")
  BY DEF Shown
<1>4. page' \in Glimpses \cup Pages
      /\ (f \notin saved => page'.state = Shown(f).state /\ (page' \in Pages => page'.text = text[f]))
  <2>1. CASE Books!ReadHeader
    <3>1. page' = [state |-> Shown(f).state]
      BY <1>3, <2>1 DEF Books!ReadHeader
    <3>2. page' \in Glimpses
      BY <1>2, <3>1 DEF Glimpses
    <3> QED BY <3>1, <3>2, PageText
  <2>2. CASE Books!Pandoc
    <3>1. page # NoPage /\ page' = [state |-> page.state, text |-> text[f]] /\ ReadFrom(f)
      BY <2>2 DEF Books!Pandoc, BooksInv
    <3>2. page.state \in Words
      BY <3>1, PageText DEF ReadFrom
    <3>3. page' \in Pages
      BY <1>2, <3>1, <3>2 DEF Pages
    <3> QED BY <3>1, <3>3 DEF ReadFrom
  <2> QED BY <2>1, <2>2
<1>5. ReadFrom(f)'
  BY <1>1, <1>4, SameFiles DEF ReadFrom
<1>6. KnowsAll' /\ Checked' /\ Built'
  BY <1>1, SameFiles DEF BooksInv, Checked, Built
<1>7. BooksTyped'
  BY <1>1 DEF BooksInv, BooksTyped
<1> QED BY <1>1, <1>5, <1>6, <1>7 DEF BooksInv

LEMMA WriteKeeps == BooksInv /\ Books!Write => BooksInv'
<1> SUFFICES ASSUME BooksInv, Books!Write PROVE BooksInv'
  OBVIOUS
<1> DEFINE f == files[bookNext]
<1>1. /\ bookPc = "building" /\ UNCHANGED <<text, files, saved, before, all, edits>>
      /\ UNCHANGED <<bookPc, bookErrors>> /\ page # NoPage /\ "text" \in DOMAIN page
      /\ pdf' = [pdf EXCEPT ![f] = page] /\ page' = NoPage /\ bookNext' = bookNext + 1
  BY DEF Books!Write, Books!HasText, Books!run, Books!copy
<1>2. bookNext \in 1..Len(files) /\ f \in BookFiles /\ KnowsAll /\ ReadFrom(f)
      /\ Len(files) \in Nat
  BY <1>1 DEF BooksInv, BooksTyped
<1>3. page \in Pages
  BY <1>1, <1>2, PageText DEF ReadFrom
<1>4. f \notin saved => page = Shown(f)
  <2> SUFFICES ASSUME f \notin saved PROVE page = Shown(f)
    OBVIOUS
  <2>1. page.state = Shown(f).state /\ page.text = text[f]
    BY <1>2, <1>3 DEF ReadFrom
  <2>2. page = [state |-> page.state, text |-> page.text]
    BY <1>3, PageText
  <2>3. Shown(f) = [state |-> Shown(f).state, text |-> text[f]]
    BY DEF Shown
  <2> QED BY <2>1, <2>2, <2>3
<1>5. BooksTyped'
  BY <1>1, <1>2, <1>3 DEF BooksInv, BooksTyped
<1>6. KnowsAll' /\ Checked'
  BY <1>1, <1>2, SameFiles DEF BooksInv, Checked
<1>7. Built'
  <2> SUFFICES ASSUME NEW n \in 1..Len(files), n < bookNext + 1, files[n] \notin saved
               PROVE  pdf'[files[n]] = Shown(files[n])
    BY <1>1, SameFiles DEF Built
  <2>1. files[n] \in BookFiles
    BY DEF BooksInv, BooksTyped
  <2>2. CASE files[n] = f
    BY <1>1, <1>2, <1>4, <2>2 DEF BooksInv, BooksTyped
  <2>3. CASE files[n] # f
    <3>1. n < bookNext
      BY <1>2, <2>3
    <3>2. pdf[files[n]] = Shown(files[n])
      BY <1>1, <3>1 DEF BooksInv, Built
    <3> QED BY <1>1, <2>1, <2>3, <3>2 DEF BooksInv, BooksTyped
  <2> QED BY <2>2, <2>3
<1> QED BY <1>1, <1>5, <1>6, <1>7 DEF BooksInv

LEMMA BooksStep == BooksInv /\ [Books!Next]_Books!vars => BooksInv'
<1> SUFFICES ASSUME BooksInv, [Books!Next]_Books!vars PROVE BooksInv'
  OBVIOUS
<1>1. CASE \E f \in Books!Files, h \in Edits : Books!Edit(f, h)
  BY <1>1, EditKeeps DEF BookFiles
<1>2. CASE \E named \in Arguments, every \in BOOLEAN : Books!Invoke(named, every)
  BY <1>2, InvokeKeeps
<1>3. CASE Books!Check \/ Books!CheckDone
  BY <1>3, CheckKeeps
<1>4. CASE Books!ReadHeader \/ Books!Pandoc
  BY <1>4, ReadKeeps
<1>5. CASE Books!Write
  BY <1>5, WriteKeeps
<1>6. CASE Books!Finish
  <2>1. /\ bookPc = "building" /\ bookPc' = "done" /\ bookNext > Len(files)
        /\ UNCHANGED <<text, files, saved, before, all, edits, pdf, bookNext, bookErrors, page>>
    BY <1>6 DEF Books!Finish, Books!run, Books!copy
  <2>2. KnowsAll' /\ Checked'
    BY <2>1, SameFiles DEF BooksInv, Checked
  <2>3. Built'
    <3>1. bookNext \in Nat /\ Len(files) \in Nat
      BY DEF BooksInv, BooksTyped
    <3>2. \A n \in 1..Len(files) : n < bookNext
      BY <2>1, <3>1
    <3> QED BY <2>1, <3>2, SameFiles DEF BooksInv, Built
  <2>4. BooksTyped'
    BY <2>1 DEF BooksInv, BooksTyped
  <2> QED BY <2>1, <2>2, <2>3, <2>4 DEF BooksInv
<1>7. CASE Books!Fail
  <2>1. /\ bookPc' = "failed" /\ page' = NoPage
        /\ UNCHANGED <<text, files, saved, before, all, edits, bookNext, bookErrors>>
        /\ pdf' = pdf \/ pdf' = [pdf EXCEPT ![files[bookNext]] = Cut]
    BY <1>7 DEF Books!Fail, Books!run, Books!copy
  <2>2. BooksTyped'
    BY <2>1 DEF BooksInv, BooksTyped
  <2> QED BY <2>1, <2>2 DEF BooksInv, Checked, Built
<1>8. CASE UNCHANGED Books!vars
  <2>1. /\ UNCHANGED <<text, files, saved, before, all, edits, pdf, bookNext, bookErrors, page>>
        /\ UNCHANGED bookPc
    BY <1>8 DEF Books!vars
  <2>2. BooksTyped' /\ Checked' /\ Built'
    BY <2>1, SameFiles DEF BooksInv, BooksTyped, Checked, Built
  <2>3. (files[bookNext])' = files[bookNext]
    BY <2>1
  <2> QED BY <2>1, <2>2, <2>3, SameFiles DEF BooksInv
<1> QED BY <1>1, <1>2, <1>3, <1>4, <1>5, <1>6, <1>7, <1>8 DEF Books!Next

(* What build_playbook.py relies on, however its runs and the edits mix.   *)
THEOREM BooksInvariant == Books!Spec => []BooksInv
BY BooksInit, BooksStep, PTL DEF Books!Spec

(* A run that refuses touches no PDF, and one that ends with 0 leaves the  *)
(* PDF of every playbook it was asked for as the file is, unless that was  *)
(* edited meanwhile (build_playbook.py, main, build).                      *)
THEOREM BooksPdfsRight == Books!Spec => []PdfsRight
<1>1. BooksInv => PdfsRight
  <2> SUFFICES ASSUME BooksInv PROVE PdfsRight
    OBVIOUS
  <2>1. Books!RefusedChangesNothing
    BY DEF BooksInv, Books!RefusedChangesNothing
  <2>2. Books!DoneIsCurrent
    <3> SUFFICES ASSUME bookPc = "done", NEW f \in BookFiles \ saved,
                        Among(files, f) \/ (all /\ Books!IsPlaybook(Books!Header(f)))
                 PROVE  pdf[f] = Shown(f)
      BY DEF Books!DoneIsCurrent, BookFiles, Among, Shown
    <3>1. Among(files, f)
      BY DEF BooksInv, KnowsAll
    <3> QED BY <3>1 DEF Among, BooksInv, Built
  <2> QED BY <2>1, <2>2 DEF PdfsRight, Books!PdfsRight
<1> QED BY <1>1, BooksInvariant, PTL

(* The checks of build_playbook.py are at least as strict as those of      *)
(* check_docs.py for a record with a PDF, but for # after a colon.         *)
LEMMA InOrderPasses ==
  ASSUME NEW h \in Headers, NEW dated, Books!BuildErrors(h, dated) = {},
         NEW e \in Books!CheckHeader("record", h, TRUE)
  PROVE  e \in {"title", "sprint"} /\ h[e] = [word |-> "", glued |-> TRUE]
<1> DEFINE value(key) == Books!BuildValue(h, key)
<1>1. /\ \A key \in {"date", "title", "sprint", "state"} : value(key) # ""
      /\ value("state") \in Books!PlaybookStates
      /\ value("date") \in Books!Dates
  BY DEF Books!BuildErrors, Books!ErrorIf
<1>2. h # NoHeader /\ h \in [Keys -> Texts]
  <2>1. h # NoHeader
    BY <1>1 DEF Books!BuildValue
  <2> QED BY <2>1 DEF Headers
<1>3. \A key \in Keys : value(key) = IF h[key].glued THEN "other" ELSE h[key].word
  BY <1>2 DEF Books!BuildValue
<1>4. ~h["state"].glued /\ h["state"].word \in {"in progress", "done"}
  BY <1>1, <1>3 DEF Keys, Books!PlaybookStates
<1>5. h["date"].word = "2026-10-29"
  BY <1>1, <1>3 DEF Keys, Books!Dates
<1>6. e \in Books!RecordErrors(h, TRUE)
  BY <1>2 DEF Books!CheckHeader
<1>7. e \in {"title", "sprint"} /\ h[e].word = ""
  BY <1>4, <1>5, <1>6
     DEF Books!RecordErrors, Books!ErrorIf, Books!Value, Books!Dates, Books!PlaybookStates
<1>8. h[e] \in Texts /\ h[e].glued = TRUE
  <2>1. e \in Keys /\ h[e] \in Texts /\ h[e].glued \in BOOLEAN
    BY <1>2, <1>7 DEF Keys, Texts
  <2>2. value(e) # ""
    BY <1>1, <1>7
  <2>3. h[e].glued
    BY <1>3, <1>7, <2>1, <2>2
  <2> QED BY <2>1, <2>3
<1> QED BY <1>7, <1>8 DEF Texts

(* What build_playbook.py has rendered, check_docs.py accepts (check,      *)
(* check_docs.check_header).                                               *)
THEOREM BooksPassDocsCheck == Books!Spec => []DonePassesDocsCheck
<1>1. BooksInv => DonePassesDocsCheck
  <2> SUFFICES ASSUME BooksInv, bookPc = "done", NEW n \in 1..Len(files), files[n] \notin saved,
                      NEW e \in Books!CheckHeader("record", Books!Header(files[n]), pdf[files[n]] # NoPdf)
               PROVE  e \in {"title", "sprint"}
                      /\ Books!Header(files[n])[e] = [word |-> "", glued |-> TRUE]
    BY DEF DonePassesDocsCheck, Books!DonePassesDocsCheck
  <2>1. BooksTyped /\ files[n] \in BookFiles
    BY DEF BooksInv, BooksTyped
  <2>2. Books!Header(files[n]) \in Headers
    BY <2>1 DEF BooksTyped, BookText, Books!Header
  <2>3. pdf[files[n]] = Shown(files[n]) /\ InOrder(n) = {}
    BY DEF BooksInv, Built, Checked
  <2>4. (pdf[files[n]] # NoPdf) = TRUE
    BY <2>1, <2>3, ShownIsPage, BooksAssumption
  <2>5. e \in Books!CheckHeader("record", Books!Header(files[n]), TRUE)
    BY <2>4
  <2>6. Books!BuildErrors(Books!Header(files[n]), files[n] \in Dated) = {}
    BY <2>3 DEF InOrder
  <2> QED BY <2>2, <2>5, <2>6, InOrderPasses
<1> QED BY <1>1, BooksInvariant, PTL

-----------------------------------------------------------------------------
(***************************************************************************)
(* demo.py.  The count of the calls, first as the recursion it is.         *)
(***************************************************************************)
Stages == {"health", "auth", "models", "fast", "quality", "queue"}
CallsIn(s) == Len(Walk!Calls[s])

LEMMA CallsInStages ==
  /\ \A s \in Stages : CallsIn(s) \in Nat \ {0}
  /\ CallsIn("queue") = 1
<1>1. \A e : \A n \in Nat : Len([k \in 1..n |-> e]) = n
  OBVIOUS
<1>2. \A d, e : Len(<<d>>) = 1 /\ Len(<<d, e>>) = 2
  OBVIOUS
<1>3. /\ Walk!Calls["health"] = [n \in 1..2 |-> Walk!Wants(200, {})]
      /\ Walk!Calls["auth"] = [n \in 1..7 |-> Walk!Wants(401, {})]
      /\ Walk!Calls["models"] = <<Walk!Wants(200, {1}), Walk!Wants(404, {})>>
      /\ \A s \in {"fast", "quality", "queue"} : Walk!Calls[s] = <<Walk!Wants(200, {429})>>
  BY DEF Walk!Calls
<1>4. CallsIn("health") = 2 /\ CallsIn("auth") = 7 /\ CallsIn("models") = 2
  BY <1>1, <1>2, <1>3 DEF CallsIn
<1>5. \A s \in {"fast", "quality", "queue"} : CallsIn(s) = 1
  BY <1>2, <1>3 DEF CallsIn
<1> QED BY <1>4, <1>5 DEF Stages

LEMMA CallsOfSteps ==
  ASSUME asked \in Seq(Stages)
  PROVE  /\ Walk!CallsOf[0] = 0
         /\ \A n \in 1..Len(asked) :
              Walk!CallsOf[n] = Walk!CallsOf[n - 1] + CallsIn(asked[n])
         /\ \A n \in 0..Len(asked) : Walk!CallsOf[n] \in Nat
<1> DEFINE N == Len(asked)
           g == [p \in Nat \X (1..N) |-> p[1] + CallsIn(asked[p[2]])]
           Body(h) == [n \in 0..N |-> IF n = 0 THEN 0 ELSE h[n - 1] + CallsIn(asked[n])]
<1>1. N \in Nat /\ \A n \in 1..N : CallsIn(asked[n]) \in Nat
  BY CallsInStages
<1>2. g \in [Nat \X (1..N) -> Nat]
  <2>1. ASSUME NEW p \in Nat \X (1..N) PROVE p[1] + CallsIn(asked[p[2]]) \in Nat
    BY <1>1
  <2> QED BY <2>1
<1>3. PICK h \in [0..N -> Nat] : Unfolds(h, N, 0, g)
  <2> HIDE DEF g, N
  <2> QED BY <1>1, <1>2, Recursion
<1>4. h[0] = 0 /\ \A n \in 1..N : h[n] = g[<<h[n - 1], n>>]
  BY <1>3 DEF Unfolds
<1>5. h = Body(h)
  <2>1. \A n \in 1..N : h[n] = h[n - 1] + CallsIn(asked[n])
    <3> SUFFICES ASSUME NEW n \in 1..N PROVE h[n] = h[n - 1] + CallsIn(asked[n])
      OBVIOUS
    <3>1. <<h[n - 1], n>> \in Nat \X (1..N)
      <4>1. n - 1 \in 0..N
        BY <1>1
      <4> QED BY <4>1
    <3> HIDE DEF N
    <3> QED BY <1>4, <3>1
  <2>2. \A n \in 0..N : n # 0 => n \in 1..N
    BY <1>1
  <2> HIDE DEF N
  <2> QED BY <1>4, <2>1, <2>2
<1>6. Walk!CallsOf = CHOOSE f : f = Body(f)
  BY DEF Walk!CallsOf, CallsIn
<1>7. Walk!CallsOf = Body(Walk!CallsOf)
  <2> HIDE DEF Body
  <2> QED BY <1>5, <1>6
<1>8. 0 \in 0..N /\ \A n \in 1..N : n \in 0..N /\ n # 0
  BY <1>1
<1>9. /\ Walk!CallsOf[0] = 0
      /\ \A n \in 1..N : Walk!CallsOf[n] = Walk!CallsOf[n - 1] + CallsIn(asked[n])
  <2> HIDE DEF N
  <2> QED BY <1>7, <1>8
<1>10. 0..N \subseteq {n \in 0..N : Walk!CallsOf[n] \in Nat}
  <2> DEFINE S == {n \in 0..N : Walk!CallsOf[n] \in Nat}
  <2>1. 0 \in S
    BY <1>8, <1>9
  <2>2. ASSUME NEW n \in 0..N, n < N, n \in S PROVE n + 1 \in S
    <3>1. n + 1 \in 1..N /\ (n + 1) - 1 = n
      BY <1>1, <2>2
    <3>2. Walk!CallsOf[n + 1] = Walk!CallsOf[n] + CallsIn(asked[n + 1])
      BY <1>9, <3>1
    <3> QED BY <1>1, <2>2, <3>1, <3>2
  <2> HIDE DEF S
  <2>3. 0..N \subseteq S
    BY <1>1, <2>1, <2>2, UpTo
  <2> QED BY <2>3 DEF S
<1> QED BY <1>9, <1>10

-----------------------------------------------------------------------------
(* How far the demo is: the stages that are over. *)
Over == Len(asked) - Len(todo)

WalkTyped ==
  /\ asked \in Seq(Stages) /\ todo \in Seq(Stages) /\ Len(todo) <= Len(asked)
  /\ step \in Nat /\ passed \in Nat /\ failed \in Nat /\ answered \in Nat
  /\ exit \in {-1, 0, 1, 2}

(* A stage that passed had all its calls answered as it wants, one that    *)
(* failed had not.                                                         *)
Counted ==
  /\ \A i \in 1..Len(todo) : todo[i] = asked[Over + i]
  /\ IF todo = <<>> THEN step = 1 ELSE step \in 1..CallsIn(todo[1])
  /\ passed + failed = Over
  /\ answered <= Walk!CallsOf[Over] + step - 1
  /\ failed = 0 <=> answered = Walk!CallsOf[Over] + step - 1

WalkCounted ==
  /\ WalkTyped
  /\ exit # 2 => Counted
  /\ exit \in {0, 1} => todo = <<>> /\ (exit = 0 <=> failed = 0)

LEMMA TodoTail ==
  ASSUME NEW s \in Seq(Stages), s # <<>>
  PROVE  /\ s[1] \in Stages /\ Len(s) \in Nat \ {0} /\ Tail(s) \in Seq(Stages)
         /\ Len(Tail(s)) = Len(s) - 1
         /\ \A i \in 1..Len(Tail(s)) : Tail(s)[i] = s[i + 1]
         /\ Tail(s) # <<>> => Len(s) > 1 /\ Tail(s)[1] \in Stages
OBVIOUS

(* The end of a stage, whatever the reason.                                *)
LEMMA StageOverKeeps ==
  ASSUME WalkTyped, Counted, todo # <<>>, NEW ok \in BOOLEAN, Walk!StageOver(ok),
         answered' = IF ok THEN answered + 1 ELSE answered,
         ok => step = CallsIn(todo[1]), UNCHANGED <<asked, exit>>
  PROVE  WalkTyped' /\ Counted'
<1> DEFINE C == Walk!CallsOf
<1>1. /\ todo' = Tail(todo) /\ step' = 1
      /\ passed' = passed + (IF ok THEN 1 ELSE 0) /\ failed' = failed + (IF ok THEN 0 ELSE 1)
  BY DEF Walk!StageOver, Walk!Note
<1>2. /\ todo[1] \in Stages /\ Len(todo) \in Nat \ {0} /\ todo' \in Seq(Stages)
      /\ Len(todo') = Len(todo) - 1
      /\ \A i \in 1..Len(todo') : todo'[i] = todo[i + 1]
      /\ todo' # <<>> => todo'[1] \in Stages
  BY <1>1, TodoTail DEF WalkTyped
<1>3. WalkTyped'
  BY <1>1, <1>2 DEF WalkTyped
<1>4. Over \in Nat /\ Over' = Over + 1 /\ Over + 1 \in 1..Len(asked) /\ Len(asked) \in Nat
  BY <1>2 DEF Over, WalkTyped
<1>5. todo[1] = asked[Over + 1]
  BY <1>2 DEF Counted
<1>6. C[Over + 1] = C[Over] + CallsIn(todo[1]) /\ C[Over] \in Nat /\ CallsIn(todo[1]) \in Nat \ {0}
  <2>1. (Over + 1) - 1 = Over /\ Over \in 0..Len(asked)
    BY <1>4
  <2> QED BY <1>2, <1>4, <1>5, <2>1, CallsOfSteps, CallsInStages DEF WalkTyped
<1>7. (Walk!CallsOf)' = Walk!CallsOf
  BY DEF Walk!CallsOf
<1>8. \A i \in 1..Len(todo') : todo'[i] = asked'[Over' + i]
  <2> SUFFICES ASSUME NEW i \in 1..Len(todo') PROVE todo'[i] = asked[(Over + 1) + i]
    BY <1>4
  <2>1. todo'[i] = todo[i + 1] /\ i + 1 \in 1..Len(todo)
    BY <1>2
  <2>2. todo[i + 1] = asked[Over + (i + 1)]
    BY <2>1 DEF Counted
  <2> QED BY <1>4, <2>1, <2>2
<1>9. step \in 1..CallsIn(todo[1]) /\ answered \in Nat /\ failed \in Nat /\ passed \in Nat
  BY DEF Counted, WalkTyped
<1>10. /\ answered <= C[Over] + step - 1
       /\ failed = 0 <=> answered = C[Over] + step - 1
       /\ passed + failed = Over
  BY DEF Counted
<1> HIDE DEF C
<1>11. /\ passed' + failed' = Over + 1
       /\ answered' <= C[Over + 1]
       /\ failed' = 0 <=> answered' = C[Over + 1]
  <2>1. CASE ok
    BY <1>1, <1>4, <1>6, <1>9, <1>10, <2>1
  <2>2. CASE ~ok
    <3>1. answered' = answered /\ answered < C[Over + 1] /\ failed' = failed + 1 /\ passed' = passed
      BY <1>1, <1>4, <1>6, <1>9, <1>10, <2>2
    <3> QED BY <1>4, <1>6, <1>9, <1>10, <3>1
  <2> QED BY <2>1, <2>2
<1>12. C[Over + 1] + 1 - 1 = C[Over + 1] /\ C[Over + 1] \in Nat
  BY <1>6
<1>13. IF todo' = <<>> THEN step' = 1 ELSE step' \in 1..CallsIn(todo'[1])
  BY <1>1, <1>2, CallsInStages
<1>14. (CallsIn(todo[1]))' = CallsIn(todo'[1])
  BY DEF CallsIn, Walk!Calls, Walk!Wants
<1>15. (Walk!CallsOf[Over])' = C[Over + 1]
  BY <1>4, <1>7 DEF C
<1> QED BY <1>1, <1>3, <1>4, <1>8, <1>11, <1>12, <1>13, <1>14, <1>15 DEF Counted

LEMMA JudgeKeeps ==
  ASSUME WalkTyped, Counted, todo # <<>>, NEW got, Walk!Judge(got), UNCHANGED <<asked, exit>>
  PROVE  WalkTyped' /\ Counted'
<1>1. Walk!Stage = todo[1] /\ todo[1] \in Stages
  BY TodoTail DEF Walk!Stage, WalkTyped
<1>2. CASE Walk!StageOver(FALSE) /\ UNCHANGED answered
  BY <1>2, StageOverKeeps
<1>3. CASE /\ answered' = answered + 1 /\ step = CallsIn(todo[1]) /\ Walk!StageOver(TRUE)
  BY <1>3, StageOverKeeps
<1>4. CASE /\ answered' = answered + 1 /\ step # CallsIn(todo[1])
           /\ step' = step + 1 /\ UNCHANGED <<passed, failed, last, todo>>
  <2>1. step \in 1..CallsIn(todo[1]) /\ CallsIn(todo[1]) \in Nat
    BY <1>1, CallsInStages DEF Counted
  <2>2. Over \in 0..Len(asked) /\ Walk!CallsOf[Over] \in Nat
    <3>1. Over \in 0..Len(asked)
      BY DEF Over, WalkTyped
    <3> QED BY <3>1, CallsOfSteps DEF WalkTyped
  <2>3. Over' = Over /\ (Walk!CallsOf)' = Walk!CallsOf /\ (CallsIn(todo[1]))' = CallsIn(todo[1])
    BY <1>4 DEF Over, Walk!CallsOf, CallsIn
  <2>4. WalkTyped'
    BY <1>4 DEF WalkTyped
  <2> DEFINE c == Walk!CallsOf[Over]
  <2>5. /\ answered <= c + step - 1
        /\ failed = 0 <=> answered = c + step - 1
        /\ answered \in Nat /\ c \in Nat /\ step \in Nat
    BY <2>2 DEF Counted, WalkTyped
  <2>6. /\ answered + 1 <= c + (step + 1) - 1
        /\ failed = 0 <=> answered + 1 = c + (step + 1) - 1
    <3> HIDE DEF c
    <3> QED BY <2>5
  <2>7. step + 1 \in 1..CallsIn(todo[1])
    BY <1>4, <2>1
  <2>8. (Walk!CallsOf[Over])' = c
    BY <2>3
  <2> HIDE DEF c
  <2> QED BY <1>4, <2>3, <2>4, <2>6, <2>7, <2>8 DEF Counted
<1> QED BY <1>1, <1>2, <1>3, <1>4 DEF Walk!Judge, CallsIn

(* The stage with the queue comes last, if at all. *)
QueueLast == \A i \in 1..Len(asked) : asked[i] = "queue" => i = Len(asked)

LEMMA Joined ==
  ASSUME NEW S, NEW s \in Seq(S), NEW t \in Seq(S)
  PROVE  /\ s \o t \in Seq(S) /\ Len(s) \in Nat /\ Len(t) \in Nat
         /\ Len(s \o t) = Len(s) + Len(t)
         /\ \A i \in 1..Len(s \o t) :
              (s \o t)[i] = IF i <= Len(s) THEN s[i] ELSE t[i - Len(s)]
OBVIOUS

LEMMA AskedAtFirst ==
  Walk!Init => asked \in Seq(Stages) /\ QueueLast
<1> SUFFICES ASSUME Walk!Init PROVE asked \in Seq(Stages) /\ QueueLast
  OBVIOUS
<1> DEFINE four == <<"health", "auth", "models", "fast">>
<1>1. PICK quality, skip \in BOOLEAN :
        asked = four \o (IF quality THEN <<"quality">> ELSE <<>>)
                     \o (IF skip THEN <<>> ELSE <<"queue">>)
  BY DEF Walk!Init
<1> DEFINE B == IF quality THEN <<"quality">> ELSE <<>>
           C == IF skip THEN <<>> ELSE <<"queue">>
<1>2. /\ four \in Seq(Stages) /\ Len(four) = 4
      /\ \A i \in 1..4 : four[i] # "queue"
  BY DEF Stages
<1>3. /\ B \in Seq(Stages)
      /\ \A i \in 1..Len(B) : B[i] # "queue"
  <2>1. <<>> \in Seq(Stages) /\ Len(<<>>) = 0 /\ 1..0 = {}
    OBVIOUS
  <2>2. /\ <<"quality">> \in Seq(Stages) /\ Len(<<"quality">>) = 1
        /\ <<"quality">>[1] = "quality"
    BY DEF Stages
  <2> QED BY <2>1, <2>2
<1>4. C \in Seq(Stages) /\ Len(C) <= 1
  BY DEF Stages
<1> HIDE DEF four, B, C
<1>5. four \o B \in Seq(Stages) /\ \A i \in 1..Len(four \o B) : (four \o B)[i] # "queue"
  <2>1. ASSUME NEW i \in 1..Len(four \o B) PROVE (four \o B)[i] # "queue"
    <3>1. CASE i <= Len(four)
      BY <1>2, <1>3, <3>1, Joined
    <3>2. CASE ~(i <= Len(four))
      <4>1. Len(four \o B) = Len(four) + Len(B) /\ Len(B) \in Nat /\ Len(four) \in Nat
        BY <1>2, <1>3, Joined
      <4>2. i - Len(four) \in 1..Len(B)
        BY <3>2, <4>1
      <4>3. (four \o B)[i] = B[i - Len(four)]
        BY <1>2, <1>3, <3>2, Joined
      <4> QED BY <1>3, <4>2, <4>3
    <3> QED BY <3>1, <3>2
  <2> QED BY <1>2, <1>3, <2>1, Joined
<1> DEFINE AB == four \o B
<1>6. asked = AB \o C
  BY <1>1 DEF B, C
<1> HIDE DEF AB
<1>7. AB \in Seq(Stages) /\ \A i \in 1..Len(AB) : AB[i] # "queue"
  BY <1>5 DEF AB
<1>8. asked \in Seq(Stages)
  BY <1>4, <1>6, <1>7, Joined
<1>9. ASSUME NEW i \in 1..Len(asked), asked[i] = "queue" PROVE i = Len(asked)
  <2>1. Len(asked) = Len(AB) + Len(C) /\ Len(AB) \in Nat /\ Len(C) \in Nat
    BY <1>4, <1>6, <1>7, Joined
  <2>2. CASE i <= Len(AB)
    <3>1. i \in 1..Len(AB)
      BY <2>1, <2>2
    <3>2. asked[i] = AB[i]
      BY <1>4, <1>6, <1>7, <2>2, Joined
    <3> QED BY <1>7, <1>9, <3>1, <3>2
  <2> QED BY <1>4, <2>1, <2>2
<1> QED BY <1>8, <1>9 DEF QueueLast

LEMMA CountedInit == Walk!Init => WalkCounted
<1> SUFFICES ASSUME Walk!Init PROVE WalkCounted
  OBVIOUS
<1>1. /\ asked \in Seq(Stages) /\ Len(asked) \in Nat
      /\ step = 1 /\ passed = 0 /\ failed = 0 /\ answered = 0
      /\ \/ todo = asked /\ exit = -1
         \/ todo = <<>> /\ exit = 2
  <2>1. step = 1 /\ passed = 0 /\ failed = 0 /\ answered = 0
    BY DEF Walk!Init
  <2>2. PICK key \in BOOLEAN :
          todo = (IF key THEN asked ELSE <<>>) /\ exit = (IF key THEN -1 ELSE 2)
    BY DEF Walk!Init
  <2>3. asked \in Seq(Stages) /\ Len(asked) \in Nat
    BY AskedAtFirst
  <2> QED BY <2>1, <2>2, <2>3
<1>2. WalkTyped
  <2>1. <<>> \in Seq(Stages) /\ Len(<<>>) = 0
    OBVIOUS
  <2>2. exit \in {-1, 0, 1, 2}
    BY <1>1
  <2>3. todo \in Seq(Stages) /\ Len(todo) <= Len(asked)
    <3>1. asked \in Seq(Stages) /\ Len(asked) \in Nat
      BY <1>1
    <3>2. CASE todo = asked
      BY <3>1, <3>2
    <3>3. CASE todo = <<>>
      <4>1. Len(todo) = 0
        BY <3>3
      <4> QED BY <2>1, <3>1, <3>3, <4>1
    <3> QED BY <1>1, <3>2, <3>3
  <2> QED BY <1>1, <2>2, <2>3 DEF WalkTyped
<1>3. ASSUME exit # 2 PROVE Counted
  <2>1. todo = asked /\ Over = 0
    BY <1>1, <1>3 DEF Over
  <2>2. Walk!CallsOf[0] = 0
    BY <1>1, CallsOfSteps
  <2>3. todo # <<>> => 1 \in 1..CallsIn(todo[1])
    BY <1>1, <2>1, TodoTail, CallsInStages
  <2> QED BY <1>1, <2>1, <2>2, <2>3 DEF Counted
<1> QED BY <1>1, <1>2, <1>3 DEF WalkCounted

(* Steps of the line and of those in it do not touch the count.            *)
LEMMA DriverRests ==
  ASSUME WalkCounted, UNCHANGED <<asked, todo, step, passed, failed, answered, exit>>
  PROVE  WalkCounted'
<1>1. WalkTyped'
  BY DEF WalkCounted, WalkTyped
<1>2. Counted => Counted'
  BY DEF Counted, Over, Walk!CallsOf, CallsIn
<1> QED BY <1>1, <1>2 DEF WalkCounted

LEMMA CountedStep == WalkCounted /\ [Walk!Next]_Walk!vars => WalkCounted'
<1> SUFFICES ASSUME WalkCounted, [Walk!Next]_Walk!vars PROVE WalkCounted'
  OBVIOUS
<1> USE DEF Walk!driver, Walk!service
<1>1. CASE UNCHANGED Walk!vars
  BY <1>1, DriverRests DEF Walk!vars
<1>2. CASE Walk!Next
  <2>1. exit = -1 /\ Walk!Step /\ UNCHANGED asked /\ WalkTyped /\ Counted
    BY <1>2 DEF Walk!Next, WalkCounted
  <2>2. ASSUME NEW got, todo # <<>>, Walk!Judge(got), UNCHANGED exit PROVE WalkCounted'
    BY <2>1, <2>2, JudgeKeeps DEF WalkCounted
  <2>3. \A s \in Stages : Walk!Stage = s => todo # <<>>
    BY DEF Walk!Stage, Stages
  <2>4. CASE Walk!Call
    <3>1. todo # <<>> /\ UNCHANGED exit
      BY <2>3, <2>4 DEF Walk!Call, Stages
    <3>2. \E got : Walk!Judge(got)
      BY <2>4 DEF Walk!Call
    <3> QED BY <2>2, <3>1, <3>2
  <2>5. CASE Walk!FastDone
    <3>1. todo # <<>> /\ UNCHANGED exit
      BY <2>3, <2>5 DEF Walk!FastDone, Stages
    <3>2. \E got : Walk!Judge(got)
      BY <2>5 DEF Walk!FastDone
    <3> QED BY <2>2, <3>1, <3>2
  <2>6. CASE Walk!QueueVerdict
    <3>1. todo # <<>> /\ todo[1] = "queue" /\ UNCHANGED exit
      BY <2>3, <2>6 DEF Walk!QueueVerdict, Walk!Stage, Stages
    <3>2. PICK ok \in BOOLEAN : /\ Walk!StageOver(ok)
                                /\ answered' = IF last' = "passed" THEN answered + 1 ELSE answered
      BY <2>6 DEF Walk!QueueVerdict
    <3>3. last' = IF ok THEN "passed" ELSE "failed"
      BY <3>1, <3>2 DEF Walk!StageOver, Walk!Note, Walk!Stage
    <3>4. answered' = IF ok THEN answered + 1 ELSE answered
      BY <3>2, <3>3
    <3>5. step = CallsIn(todo[1])
      <4>1. step \in 1..1
        BY <2>1, <3>1, CallsInStages DEF Counted
      <4> QED BY <3>1, <4>1, CallsInStages
    <3>6. WalkTyped' /\ Counted'
      BY <2>1, <3>1, <3>2, <3>4, <3>5, StageOverKeeps
    <3> QED BY <2>1, <3>1, <3>6 DEF WalkCounted
  <2>7. CASE Walk!Finish
    <3>1. /\ todo = <<>> /\ exit' = IF failed > 0 THEN 1 ELSE 0
          /\ UNCHANGED <<todo, step, passed, failed, answered>>
      BY <2>7 DEF Walk!Finish
    <3>2. WalkTyped'
      BY <2>1, <3>1 DEF WalkTyped
    <3>3. Counted'
      BY <2>1, <3>1 DEF Counted, Over, Walk!CallsOf, CallsIn
    <3>4. failed \in Nat
      BY <2>1 DEF WalkTyped
    <3> QED BY <3>1, <3>2, <3>3, <3>4 DEF WalkCounted
  <2>8. CASE \/ Walk!FastCall
             \/ \E t \in Tabs : Walk!TabCall(t)
             \/ \E o \in Students : Walk!OtherCall(o)
             \/ \E r \in Walk!Requests : Walk!Start(r) \/ Walk!Served(r) \/ Walk!Leave(r)
             \/ \E r \in Walk!Own : Walk!GiveUp(r)
    <3>1. UNCHANGED <<asked, todo, step, passed, failed, answered, exit>>
      BY <2>1, <2>8 DEF Walk!FastCall, Walk!TabCall, Walk!OtherCall, Walk!Start, Walk!Served,
         Walk!Leave, Walk!GiveUp
    <3> QED BY <3>1, DriverRests
  <2> QED BY <2>1, <2>4, <2>5, <2>6, <2>7, <2>8 DEF Walk!Step
<1> QED BY <1>1, <1>2

(* Every call of a stage is in the count, and no stage is left out.        *)
THEOREM WalkInvariant == Walk!Spec => []WalkCounted
BY CountedInit, CountedStep, PTL DEF Walk!Spec

(* The demo ends with 0 only when every call of every stage it was asked   *)
(* for got what it should, and with 1 only when one did not (demo.main,    *)
(* run, expect).                                                           *)
THEOREM WalkExitIsHonest == Walk!Spec => []ExitIsHonest
<1>1. WalkCounted => ExitIsHonest
  <2> SUFFICES ASSUME WalkCounted, exit \in {0, 1}
               PROVE  /\ exit = 0 <=> answered = Walk!CallsOf[Len(asked)]
                      /\ passed + failed = Len(asked)
    BY DEF ExitIsHonest, Walk!ExitIsHonest
  <2>1. todo = <<>> /\ Counted /\ WalkTyped /\ (exit = 0 <=> failed = 0)
    BY DEF WalkCounted
  <2>2. Over = Len(asked) /\ Len(asked) \in Nat
    BY <2>1 DEF Over, WalkTyped
  <2>3. Walk!CallsOf[Len(asked)] \in Nat
    BY <2>1, <2>2, CallsOfSteps DEF WalkTyped
  <2> QED BY <2>1, <2>2, <2>3 DEF Counted, WalkTyped
<1> QED BY <1>1, WalkInvariant, PTL

-----------------------------------------------------------------------------
(* stage_queue.  The streams that got into the line, and those it refused. *)
Entered == {t \in Tabs : state[t] \in {"queued", "serving", "served"}}
Refused == {t \in Tabs : state[t] = "refused"}

Fits(t) ==
  \/ state[t] \in {"outside", "queued", "serving"} /\ result[t] = NoResult
  \/ state[t] = "refused" /\ result[t] = 429
  \/ state[t] = "served" /\ result[t] = 200

(* Only the streams are in the line, and no one is done before the last of *)
(* them has come.                                                          *)
Alone ==
  /\ \A r \in Walk!Requests \ Tabs : state[r] \notin {"queued", "serving"}
  /\ \A t, u \in Tabs : state[t] = "served" => state[u] # "outside"

Quiet ==
  /\ Alone
  /\ \A t \in Tabs : Fits(t)
  /\ Cardinality(Entered) <= Slots + Places
  /\ Refused # {} => Cardinality(Entered) = Slots + Places

Untouched == \A t \in Tabs : state[t] = "outside" /\ result[t] = NoResult

QueueInv ==
  /\ WalkCounted /\ QueueLast
  /\ state \in [Walk!Requests -> Walk!Line!States]
  /\ result = [r \in Walk!Own |-> result[r]]
  /\ last # "none" => todo = <<>>
  /\ last = "none" /\ Walk!Stage # "queue" => Untouched
  /\ last = "none" /\ Walk!Stage = "queue" /\ ~disturbed => Quiet
  /\ last = "failed" => disturbed

LEMMA TabsCounted ==
  /\ Slots + Places \in Nat /\ IsFiniteSet(Tabs)
  /\ Cardinality(Tabs) = Slots + Places + 1
  /\ \A S \in SUBSET Tabs : IsFiniteSet(S) /\ Cardinality(S) \in Nat
BY DemoAssumption, FS_Subset, FS_CardinalityType

LEMMA SameCount ==
  \A S : Walk!Line!Cardinality(S) = Cardinality(S) /\ Walk!Cardinality(S) = Cardinality(S)
BY DEF Walk!Line!Cardinality, Walk!Cardinality, Cardinality

(* With the streams alone in the line, it is full when as many of them as  *)
(* it holds have entered.                                                  *)
LEMMA FullWhenEntered ==
  ASSUME Alone, state \in [Walk!Requests -> Walk!Line!States], NEW u \in Tabs, state[u] = "outside"
  PROVE  Walk!Line!Full <=> Cardinality(Entered) >= Slots + Places
<1> DEFINE Q == Walk!Line!In("queued")
           S == Walk!Line!In("serving")
<1>1. Q \subseteq Tabs /\ S \subseteq Tabs /\ Q \cap S = {}
  BY DEF Alone, Walk!Line!In
<1>2. Q \cup S = Entered
  BY <1>1 DEF Alone, Entered, Walk!Line!In, Walk!Requests, Walk!Own
<1>3. IsFiniteSet(Q) /\ IsFiniteSet(S)
  BY <1>1, TabsCounted
<1>4. Walk!Line!Full <=> Cardinality(Q) + Cardinality(S) >= Slots + Places
  BY SameCount DEF Walk!Line!Full
<1> HIDE DEF Q, S
<1>5. Cardinality(Entered) = Cardinality(Q) + Cardinality(S)
  BY <1>1, <1>2, <1>3, DisjointCount
<1> QED BY <1>4, <1>5

LEMMA QuietAtFirst == Untouched /\ Alone => Quiet
<1> SUFFICES ASSUME Untouched, Alone PROVE Quiet
  OBVIOUS
<1>1. Entered = {} /\ Refused = {}
  BY DEF Untouched, Entered, Refused
<1>2. Cardinality(Entered) = 0
  BY <1>1, FS_EmptySet
<1> QED BY <1>1, <1>2, TabsCounted DEF Quiet, Untouched, Fits

(* A stage that is not disturbed leaves the streams alone. *)
LEMMA NotDisturbed ==
  ASSUME Walk!Stage = "queue", ~Walk!Disturbing
  PROVE  Alone /\ \A t \in Tabs : result[t] \notin {-1, 502}
BY DEF Walk!Disturbing, Alone, Walk!Got, Walk!Exception

(* A stream comes to the line. *)
LEMMA TabCallQuiet ==
  ASSUME QueueInv, Quiet, NEW t \in Tabs, Walk!TabCall(t), Walk!Stage' = "queue", ~Walk!Disturbing'
  PROVE  Quiet'
<1>1. t \in Walk!Requests /\ t \in Walk!Own
  BY DEF Walk!Requests, Walk!Own
<1>2. Alone' /\ \A v \in Tabs : result'[v] \notin {-1, 502}
  BY NotDisturbed DEF Alone, Walk!Disturbing, Walk!Got, Walk!Exception
<1>3. state[t] = "outside" /\ result[t] = NoResult
  BY DEF Walk!TabCall, Walk!Arrive, Walk!Line!Enter, Walk!Line!Refuse, Walk!Line!Move
<1>4. Walk!Line!Full <=> Cardinality(Entered) >= Slots + Places
  BY <1>3, FullWhenEntered DEF QueueInv, Quiet
<1>5. Cardinality(Entered) \in Nat /\ IsFiniteSet(Entered) /\ Slots + Places \in Nat
  BY TabsCounted DEF Entered
<1>6. CASE Walk!Line!Enter(t) /\ UNCHANGED result
  <2>1. state' = [state EXCEPT ![t] = "queued"] /\ ~Walk!Line!Full
    BY <1>6 DEF Walk!Line!Enter, Walk!Line!Move
  <2>2. \A v \in Tabs : state'[v] = IF v = t THEN "queued" ELSE state[v]
    BY <1>1, <2>1 DEF QueueInv, Walk!Requests, Walk!Own
  <2>3. Entered' = Entered \cup {t} /\ Refused' = Refused
    BY <1>3, <2>2 DEF Entered, Refused
  <2>4. Cardinality(Entered') <= Cardinality(Entered) + 1 /\ Cardinality(Entered') \in Nat
    BY <1>5, <2>3, AddOne
  <2>5. \A v \in Tabs : Fits(v)'
    BY <1>3, <1>6, <2>2 DEF Quiet, Fits
  <2>6. Cardinality(Entered) < Slots + Places
    BY <1>4, <1>5, <2>1
  <2>7. Refused = {}
    BY <1>5, <2>6 DEF Quiet
  <2> QED BY <1>2, <1>5, <2>3, <2>4, <2>5, <2>6, <2>7 DEF Quiet
<1>7. CASE Walk!Line!Refuse(t) /\ result' = [result EXCEPT ![t] = 429]
  <2>1. state' = [state EXCEPT ![t] = "refused"] /\ Walk!Line!Full
    BY <1>7 DEF Walk!Line!Refuse, Walk!Line!Move
  <2>2. \A v \in Tabs : state'[v] = IF v = t THEN "refused" ELSE state[v]
    BY <1>1, <2>1 DEF QueueInv, Walk!Requests, Walk!Own
  <2>3. \A v \in Tabs : result'[v] = IF v = t THEN 429 ELSE result[v]
    BY <1>1, <1>7 DEF QueueInv, Walk!Own
  <2>4. Entered' = Entered
    BY <1>3, <2>2 DEF Entered
  <2>5. \A v \in Tabs : Fits(v)'
    BY <2>2, <2>3 DEF Quiet, Fits
  <2>6. Cardinality(Entered) = Slots + Places
    BY <1>4, <1>5, <2>1 DEF Quiet
  <2> QED BY <1>2, <1>5, <2>4, <2>5, <2>6 DEF Quiet
<1>8. CASE \E none \in {502, -1} : result' = [result EXCEPT ![t] = none]
  <2>1. result'[t] \in {502, -1}
    BY <1>1, <1>8 DEF QueueInv, Walk!Own
  <2> QED BY <1>2, <2>1
<1> QED BY <1>6, <1>7, <1>8 DEF Walk!TabCall, Walk!Arrive, Walk!Exception

(* What happens in the line while the streams have it for themselves. *)
LEMMA LineQuiet ==
  ASSUME QueueInv, Quiet, Walk!Stage' = "queue", ~Walk!Disturbing',
         \/ \E o \in Students : Walk!OtherCall(o)
         \/ \E r \in Walk!Requests : Walk!Start(r) \/ Walk!Served(r) \/ Walk!Leave(r)
         \/ \E r \in Walk!Own : Walk!GiveUp(r)
  PROVE  Quiet'
<1> DEFINE dom == Walk!Requests
<1>1. Tabs \subseteq dom /\ Tabs \subseteq Walk!Own /\ Students \cap Tabs = {}
      /\ Walk!Own \subseteq dom /\ state \in [dom -> Walk!Line!States]
      /\ result = [r \in Walk!Own |-> result[r]]
  BY DemoAssumption DEF Walk!Requests, Walk!Own, QueueInv
<1>2. Alone' /\ \A v \in Tabs : result'[v] \notin {-1, 502}
  BY NotDisturbed DEF Alone, Walk!Disturbing, Walk!Got, Walk!Exception
<1> HIDE DEF dom
<1>3. ASSUME UNCHANGED result, \A v \in Tabs : state'[v] = state[v] PROVE Quiet'
  BY <1>2, <1>3 DEF Quiet, Fits, Entered, Refused
<1>4. ASSUME NEW o \in Students, Walk!OtherCall(o) PROVE Quiet'
  <2>1. UNCHANGED result /\ \E to : state' = [state EXCEPT ![o] = to]
    BY <1>4 DEF Walk!OtherCall, Walk!Line!Enter, Walk!Line!Refuse, Walk!Line!Move
  <2>2. \A v \in Tabs : state'[v] = state[v]
    BY <1>1, <2>1
  <2> QED BY <1>3, <2>1, <2>2
<1>5. ASSUME NEW r \in Tabs, state[r] \in {"queued", "serving"}, result[r] = NoResult,
             NEW to \in {"serving", "served"}, state' = [state EXCEPT ![r] = to],
             \A v \in Tabs : result'[v] = IF v = r /\ to = "served" THEN 200 ELSE result[v]
      PROVE  Quiet'
  <2>1. \A v \in Tabs : state'[v] = IF v = r THEN to ELSE state[v]
    BY <1>1, <1>5
  <2>2. Entered' = Entered /\ Refused' = Refused
    BY <1>5, <2>1 DEF Entered, Refused
  <2>3. \A v \in Tabs : Fits(v)'
    BY <1>5, <2>1 DEF Quiet, Fits
  <2> QED BY <1>2, <2>2, <2>3 DEF Quiet
<1>6. \A r \in dom : state[r] \in {"queued", "serving"} => r \in Tabs /\ result[r] = NoResult
  BY DEF Quiet, Alone, Fits, dom
<1>7. ASSUME NEW r \in dom, Walk!Start(r) PROVE Quiet'
  <2>1. /\ state[r] = "queued" /\ state' = [state EXCEPT ![r] = "serving"] /\ UNCHANGED result
    BY <1>7 DEF Walk!Start, Walk!Line!Start, Walk!Line!Move
  <2> QED BY <1>5, <1>6, <2>1
<1>8. ASSUME NEW r \in dom, Walk!Served(r) PROVE Quiet'
  <2>1. state[r] = "serving" /\ state' = [state EXCEPT ![r] = "served"]
    BY <1>8 DEF Walk!Served, Walk!Line!Finish, Walk!Line!Move
  <2>2. r \in Tabs /\ result[r] = NoResult
    BY <1>6, <2>1
  <2>3. result' = [result EXCEPT ![r] = 200]
    BY <1>1, <1>8, <2>2 DEF Walk!Served
  <2>4. \A v \in Tabs : result'[v] = IF v = r THEN 200 ELSE result[v]
    BY <1>1, <2>2, <2>3
  <2> QED BY <1>5, <2>1, <2>2, <2>4
<1>9. ASSUME NEW r \in dom, Walk!Leave(r) PROVE Quiet'
  <2>1. state[r] = "queued" /\ r \in Students \cup {c \in Walk!Own : result[c] = -1}
    BY <1>9 DEF Walk!Leave, Walk!Line!Leave, Walk!Line!Move, Walk!Exception
  <2> QED BY <1>1, <1>6, <2>1, DemoAssumption
<1>10. ASSUME NEW r \in Walk!Own, Walk!GiveUp(r) PROVE Quiet'
  <2>1. state[r] \in {"queued", "serving"} /\ result' = [result EXCEPT ![r] = -1]
    BY <1>10 DEF Walk!GiveUp, Walk!Exception
  <2>2. r \in Tabs
    BY <1>1, <1>6, <2>1
  <2>3. result'[r] = -1
    BY <1>1, <2>1
  <2> QED BY <1>2, <2>2, <2>3
<1> QED BY <1>4, <1>7, <1>8, <1>9, <1>10 DEF dom

(* When every stream of a quiet stage has its answer, one was refused and  *)
(* all others were served.                                                 *)
LEMMA QuietVerdict ==
  ASSUME Quiet, \A t \in Tabs : result[t] # NoResult
  PROVE  Cardinality(Walk!Got(200)) = Slots + Places /\ Cardinality(Walk!Got(429)) = 1
<1>1. \A t \in Tabs : \/ state[t] = "refused" /\ result[t] = 429
                      \/ state[t] = "served" /\ result[t] = 200
  BY DEF Quiet, Fits
<1>2. Walk!Got(200) = Entered /\ Walk!Got(429) = Refused
  BY <1>1 DEF Walk!Got, Entered, Refused
<1>3. Entered \cup Refused = Tabs /\ Entered \cap Refused = {}
  BY <1>1 DEF Entered, Refused
<1>4. IsFiniteSet(Entered) /\ IsFiniteSet(Refused)
      /\ Cardinality(Entered) \in Nat /\ Cardinality(Refused) \in Nat
  BY TabsCounted DEF Entered, Refused
<1>5. Slots + Places + 1 = Cardinality(Entered) + Cardinality(Refused)
  BY <1>3, <1>4, TabsCounted, DisjointCount
<1>6. Refused # {}
  <2> SUFFICES ASSUME Refused = {} PROVE FALSE
    OBVIOUS
  <2>1. Cardinality(Refused) = 0
    BY FS_EmptySet
  <2> QED BY <1>4, <1>5, <2>1, TabsCounted DEF Quiet
<1>7. Cardinality(Entered) = Slots + Places
  BY <1>6 DEF Quiet
<1> QED BY <1>2, <1>4, <1>5, <1>7, TabsCounted

LEMMA QueueInit == Walk!Init => QueueInv
<1> SUFFICES ASSUME Walk!Init PROVE QueueInv
  OBVIOUS
<1>1. WalkCounted /\ QueueLast /\ asked \in Seq(Stages)
  BY CountedInit, AskedAtFirst
<1>2. /\ last = "none" /\ state = [r \in Walk!Requests |-> "outside"]
      /\ result = [r \in Walk!Own |-> NoResult] /\ (todo = asked \/ todo = <<>>)
  BY DEF Walk!Init
<1>3. Untouched
  <2>1. Tabs \subseteq Walk!Requests /\ Tabs \subseteq Walk!Own
    BY DEF Walk!Requests, Walk!Own
  <2> QED BY <1>2, <2>1 DEF Untouched, Walk!Init
<1>4. Alone
  BY DEF Alone, Walk!Init, Walk!Requests, Walk!Own
<1>5. Quiet
  BY <1>3, <1>4, QuietAtFirst
<1>6. state \in [Walk!Requests -> Walk!Line!States] /\ result = [r \in Walk!Own |-> result[r]]
      /\ last = "none"
  BY DEF Walk!Init, Walk!Line!States
<1> QED BY <1>1, <1>3, <1>5, <1>6 DEF QueueInv

(* The queue is the last stage: after it there is none. *)
LEMMA QueueEnds ==
  ASSUME QueueInv, exit = -1, Walk!Stage = "queue"
  PROVE  Tail(todo) = <<>> /\ last = "none" /\ todo # <<>>
<1>1. todo # <<>> /\ todo[1] = "queue" /\ last = "none"
  BY DEF Walk!Stage, QueueInv
<1>2. /\ todo \in Seq(Stages) /\ Len(todo) \in Nat \ {0} /\ Len(Tail(todo)) = Len(todo) - 1
      /\ Tail(todo) \in Seq(Stages)
  BY <1>1, TodoTail DEF QueueInv, WalkCounted, WalkTyped
<1>3. asked[Over + 1] = "queue" /\ Len(asked) \in Nat /\ Len(todo) <= Len(asked)
  <2>1. 1 \in 1..Len(todo)
    BY <1>2
  <2> QED BY <1>1, <2>1 DEF QueueInv, WalkCounted, WalkTyped, Counted
<1>4. Over + 1 = Len(asked)
  <2>1. Over + 1 \in 1..Len(asked)
    BY <1>2, <1>3 DEF Over
  <2> QED BY <1>3, <2>1 DEF QueueInv, QueueLast
<1>5. Len(Tail(todo)) = 0
  BY <1>2, <1>3, <1>4 DEF Over
<1>6. Tail(todo) = <<>>
  <2>1. \A s \in Seq(Stages) : Len(s) = 0 => s = <<>>
    OBVIOUS
  <2> QED BY <1>2, <1>5, <2>1
<1> QED BY <1>1, <1>6

(* The driver goes on in a stage before the last one. *)
LEMMA BeforeQueue ==
  ASSUME QueueInv, WalkCounted', NEW got, Walk!Judge(got), Walk!Stage # "queue", todo # <<>>,
         UNCHANGED <<asked, state, result>>, disturbed' = (disturbed \/ Walk!Disturbing')
  PROVE  QueueInv'
<1>1. last = "none" /\ Untouched
  BY DEF QueueInv
<1>2. last' = last
  BY DEF Walk!Judge, Walk!StageOver, Walk!Note
<1>3. Untouched'
  BY <1>1 DEF Untouched
<1>4. Walk!Stage' = "queue" /\ ~disturbed' => Quiet'
  <2> SUFFICES ASSUME Walk!Stage' = "queue", ~disturbed' PROVE Quiet'
    OBVIOUS
  <2>1. Alone'
    <3>1. ~Walk!Disturbing'
      OBVIOUS
    <3>2. Walk!Stage' = "queue" /\ ~Walk!Disturbing' => Alone'
      BY DEF Walk!Disturbing, Alone
    <3> QED BY <3>1, <3>2
  <2>2. (Untouched /\ Alone => Quiet)'
    BY QuietAtFirst, PTL
  <2> QED BY <1>3, <2>1, <2>2
<1> QED BY <1>1, <1>2, <1>3, <1>4 DEF QueueInv, QueueLast

(* The streams and their answers, outside the last stage: no step touches  *)
(* them.                                                                   *)
LEMMA OutsideQueue ==
  ASSUME QueueInv, Untouched, Walk!Stage # "queue",
         \/ Walk!FastCall
         \/ \E o \in Students : Walk!OtherCall(o)
         \/ \E r \in Walk!Requests : Walk!Start(r) \/ Walk!Served(r) \/ Walk!Leave(r)
         \/ \E r \in Walk!Own : Walk!GiveUp(r)
  PROVE  Untouched'
<1>1. \E r \in Walk!Requests \ Tabs :
        /\ \A t \in Tabs : state'[t] = state[t]
        /\ \A t \in Tabs : result'[t] = result[t]
  <2> DEFINE Touches(r) ==
        /\ UNCHANGED state \/ \E to : state' = [state EXCEPT ![r] = to]
        /\ UNCHANGED result \/ \E to : result' = [result EXCEPT ![r] = to]
  <2>1. \A r \in Tabs : state[r] = "outside"
    BY DEF Untouched
  <2>2. Walk!Own \subseteq Walk!Requests /\ Fast \in Walk!Own /\ Fast \notin Tabs
        /\ Students \subseteq Walk!Requests /\ Students \cap Tabs = {}
        /\ Tabs \subseteq Walk!Own
    BY DemoAssumption DEF Walk!Requests, Walk!Own
  <2>3. CASE Walk!FastCall
    <3>1. Touches(Fast)
      BY <2>3 DEF Walk!FastCall, Walk!Arrive, Walk!Line!Enter, Walk!Line!Refuse, Walk!Line!Move
    <3> QED BY <2>2, <3>1 DEF QueueInv
  <2>4. ASSUME NEW o \in Students, Walk!OtherCall(o) PROVE o \in Walk!Requests \ Tabs /\ Touches(o)
    BY <2>2, <2>4 DEF Walk!OtherCall, Walk!Line!Enter, Walk!Line!Refuse, Walk!Line!Move
  <2>5. ASSUME NEW r \in Walk!Requests, Walk!Start(r) \/ Walk!Served(r) \/ Walk!Leave(r)
        PROVE  r \notin Tabs /\ Touches(r)
    <3>1. r \notin Tabs
      BY <2>1, <2>5 DEF Walk!Start, Walk!Served, Walk!Leave, Walk!Line!Start, Walk!Line!Finish,
         Walk!Line!Leave, Walk!Line!Move
    <3>2. Touches(r)
      BY <2>5 DEF Walk!Start, Walk!Served, Walk!Leave, Walk!Line!Start, Walk!Line!Finish,
         Walk!Line!Leave, Walk!Line!Move
    <3> QED BY <3>1, <3>2
  <2>6. ASSUME NEW r \in Walk!Own, Walk!GiveUp(r) PROVE r \notin Tabs /\ Touches(r)
    BY <2>1, <2>6 DEF Walk!GiveUp
  <2>7. ASSUME NEW r \in Walk!Requests \ Tabs, Touches(r)
        PROVE  \A t \in Tabs : state'[t] = state[t] /\ result'[t] = result[t]
    <3>1. /\ state \in [Walk!Requests -> Walk!Line!States]
          /\ result = [c \in Walk!Own |-> result[c]]
      BY DEF QueueInv
    <3> QED BY <2>2, <2>7, <3>1
  <2> HIDE DEF Touches
  <2>8. \A r \in Walk!Requests \ Tabs : Touches(r) =>
          \A t \in Tabs : state'[t] = state[t] /\ result'[t] = result[t]
    BY <2>7
  <2> QED BY <2>2, <2>3, <2>4, <2>5, <2>6, <2>8
<1> QED BY <1>1 DEF Untouched

(* The line keeps to its states. *)
LEMMA LineTyped ==
  ASSUME QueueInv, Walk!Step
  PROVE  /\ state' \in [Walk!Requests -> Walk!Line!States]
         /\ result' = [r \in Walk!Own |-> result'[r]]
<1>1. UNCHANGED state \/ \E r, to : to \in Walk!Line!States /\ state' = [state EXCEPT ![r] = to]
  BY DEF Walk!Step, Walk!Call, Walk!FastCall, Walk!FastDone, Walk!QueueVerdict, Walk!Finish,
     Walk!TabCall, Walk!OtherCall, Walk!Start, Walk!Served, Walk!Leave, Walk!GiveUp, Walk!Arrive,
     Walk!Line!Enter, Walk!Line!Refuse, Walk!Line!Start, Walk!Line!Finish, Walk!Line!Leave,
     Walk!Line!Move, Walk!Line!States, Walk!service
<1>2. UNCHANGED result \/ \E r, to : result' = [result EXCEPT ![r] = to]
  <2>1. CASE \E r \in Walk!Own : Walk!Arrive(r) \/ Walk!GiveUp(r)
    BY <2>1 DEF Walk!Arrive, Walk!GiveUp
  <2>2. ASSUME NEW r \in Walk!Requests, Walk!Served(r)
        PROVE  UNCHANGED result \/ \E to : result' = [result EXCEPT ![r] = to]
    BY <2>2 DEF Walk!Served
  <2>3. CASE UNCHANGED result
    BY <2>3
  <2>4. \/ \E r \in Walk!Own : Walk!Arrive(r) \/ Walk!GiveUp(r)
        \/ \E r \in Walk!Requests : Walk!Served(r)
        \/ UNCHANGED result
    <3>1. Fast \in Walk!Own /\ Tabs \subseteq Walk!Own
      BY DEF Walk!Own
    <3> QED BY <3>1 DEF Walk!Step, Walk!Call, Walk!FastCall, Walk!FastDone, Walk!QueueVerdict,
         Walk!Finish, Walk!TabCall, Walk!OtherCall, Walk!Start, Walk!Leave, Walk!service
  <2> QED BY <2>1, <2>2, <2>3, <2>4
<1> QED BY <1>1, <1>2 DEF QueueInv

(* The stage of the queue ends: nothing comes after it. *)
LEMMA VerdictKeeps ==
  ASSUME QueueInv, exit = -1, WalkCounted', Walk!QueueVerdict, UNCHANGED asked,
         disturbed' = (disturbed \/ Walk!Disturbing')
  PROVE  QueueInv'
<1>1. /\ Walk!Stage = "queue" /\ \A t \in Tabs : result[t] # NoResult
      /\ UNCHANGED <<state, result>>
  BY DEF Walk!QueueVerdict, Walk!service
<1>2. todo' = Tail(todo) /\ Tail(todo) = <<>> /\ last = "none"
  BY <1>1, QueueEnds DEF Walk!QueueVerdict, Walk!StageOver
<1>3. PICK ok \in BOOLEAN :
        /\ last' = IF ok THEN "passed" ELSE "failed"
        /\ ok <=> Walk!Cardinality(Walk!Got(200)) = Slots + Places
                    /\ Walk!Cardinality(Walk!Got(429)) = 1
  BY <1>1 DEF Walk!QueueVerdict, Walk!StageOver, Walk!Note
<1>4. ~disturbed => ok
  <2> SUFFICES ASSUME ~disturbed PROVE ok
    OBVIOUS
  <2>1. Quiet
    BY <1>1, <1>2 DEF QueueInv
  <2>2. Cardinality(Walk!Got(200)) = Slots + Places /\ Cardinality(Walk!Got(429)) = 1
    BY <1>1, <2>1, QuietVerdict
  <2> QED BY <1>3, <2>2, SameCount
<1>5. last' = "failed" => disturbed'
  BY <1>3, <1>4
<1>6. last' # "none" /\ todo' = <<>> /\ asked' = asked
  BY <1>2, <1>3
<1> QED BY <1>1, <1>5, <1>6 DEF QueueInv, QueueLast

(* A step of the line or of a client: the driver waits. *)
LEMMA ServiceKeeps ==
  ASSUME QueueInv, WalkCounted', Walk!Step, UNCHANGED asked,
         disturbed' = (disturbed \/ Walk!Disturbing'),
         \/ Walk!FastCall
         \/ \E t \in Tabs : Walk!TabCall(t)
         \/ \E o \in Students : Walk!OtherCall(o)
         \/ \E r \in Walk!Requests : Walk!Start(r) \/ Walk!Served(r) \/ Walk!Leave(r)
         \/ \E r \in Walk!Own : Walk!GiveUp(r)
  PROVE  QueueInv'
<1>1. UNCHANGED <<todo, last>>
  BY DEF Walk!FastCall, Walk!TabCall, Walk!OtherCall, Walk!Start, Walk!Served, Walk!Leave,
     Walk!GiveUp, Walk!driver
<1>2. Walk!Stage' = Walk!Stage
  BY <1>1 DEF Walk!Stage
<1>3. /\ state' \in [Walk!Requests -> Walk!Line!States]
      /\ result' = [r \in Walk!Own |-> result'[r]]
  BY LineTyped
<1>4. last = "none" /\ Walk!Stage # "queue" => Untouched'
  <2> SUFFICES ASSUME last = "none", Walk!Stage # "queue" PROVE Untouched'
    OBVIOUS
  <2>1. Untouched
    BY DEF QueueInv
  <2>2. ~\E t \in Tabs : Walk!TabCall(t)
    BY DEF Walk!TabCall
  <2> QED BY <2>1, <2>2, OutsideQueue
<1>5. last = "none" /\ Walk!Stage = "queue" /\ ~disturbed' => Quiet'
  <2> SUFFICES ASSUME last = "none", Walk!Stage = "queue", ~disturbed' PROVE Quiet'
    OBVIOUS
  <2>1. Quiet /\ ~Walk!Disturbing' /\ Walk!Stage' = "queue"
    BY <1>2 DEF QueueInv
  <2>2. ~Walk!FastCall
    BY DEF Walk!FastCall
  <2>3. ASSUME NEW t \in Tabs, Walk!TabCall(t) PROVE Quiet'
    BY <2>1, <2>3, TabCallQuiet
  <2>4. CASE \/ \E o \in Students : Walk!OtherCall(o)
             \/ \E r \in Walk!Requests : Walk!Start(r) \/ Walk!Served(r) \/ Walk!Leave(r)
             \/ \E r \in Walk!Own : Walk!GiveUp(r)
    BY <2>1, <2>4, LineQuiet
  <2> QED BY <2>2, <2>3, <2>4
<1>6. QueueLast'
  BY DEF QueueInv, QueueLast
<1>7. /\ last' # "none" => todo' = <<>>
      /\ last' = "failed" => disturbed'
  BY <1>1 DEF QueueInv
<1> QED BY <1>1, <1>2, <1>3, <1>4, <1>5, <1>6, <1>7 DEF QueueInv

LEMMA QueueStep == QueueInv /\ [Walk!Next]_Walk!vars => QueueInv'
<1> SUFFICES ASSUME QueueInv, [Walk!Next]_Walk!vars PROVE QueueInv'
  OBVIOUS
<1>1. WalkCounted'
  BY CountedStep DEF QueueInv
<1>2. CASE UNCHANGED Walk!vars
  <2>1. /\ Untouched' = Untouched /\ Quiet' = Quiet /\ QueueLast' = QueueLast
        /\ Walk!Stage' = Walk!Stage
        /\ UNCHANGED <<asked, todo, last, state, result, disturbed>>
    BY <1>2 DEF Walk!vars, Untouched, Quiet, Alone, Fits, Entered, Refused, QueueLast, Walk!Stage
  <2> QED BY <1>1, <2>1 DEF QueueInv
<1>3. CASE Walk!Next
  <2>1. /\ exit = -1 /\ Walk!Step /\ UNCHANGED asked
        /\ disturbed' = (disturbed \/ Walk!Disturbing')
    BY <1>3 DEF Walk!Next
  <2>2. \A s \in Stages : Walk!Stage = s => todo # <<>>
    BY DEF Walk!Stage, Stages
  <2>3. CASE Walk!Call \/ Walk!FastDone
    <3>1. /\ todo # <<>> /\ Walk!Stage # "queue" /\ UNCHANGED <<state, result>>
          /\ \E got : Walk!Judge(got)
      BY <2>2, <2>3 DEF Walk!Call, Walk!FastDone, Walk!service, Stages
    <3> QED BY <1>1, <2>1, <3>1, BeforeQueue
  <2>4. CASE Walk!QueueVerdict
    BY <1>1, <2>1, <2>4, VerdictKeeps
  <2>5. CASE Walk!Finish
    <3>1. todo = <<>> /\ UNCHANGED <<todo, last, state, result>>
      BY <2>5 DEF Walk!Finish, Walk!driver, Walk!service
    <3>2. Walk!Stage = "none" /\ Walk!Stage' = "none"
      BY <3>1 DEF Walk!Stage
    <3>3. Untouched' = Untouched /\ QueueLast' = QueueLast
      BY <2>1, <3>1 DEF Untouched, QueueLast
    <3> QED BY <1>1, <2>1, <3>1, <3>2, <3>3 DEF QueueInv
  <2>6. CASE \/ Walk!FastCall
             \/ \E t \in Tabs : Walk!TabCall(t)
             \/ \E o \in Students : Walk!OtherCall(o)
             \/ \E r \in Walk!Requests : Walk!Start(r) \/ Walk!Served(r) \/ Walk!Leave(r)
             \/ \E r \in Walk!Own : Walk!GiveUp(r)
    BY <1>1, <2>1, <2>6, ServiceKeeps
  <2> QED BY <2>1, <2>3, <2>4, <2>5, <2>6 DEF Walk!Step
<1> QED BY <1>2, <1>3

(* Until something disturbs the last stage, every stream is where it       *)
(* should be, and the line refuses one only when it holds all others.      *)
THEOREM QueueInvariant == Walk!Spec => []QueueInv
BY QueueInit, QueueStep, PTL DEF Walk!Spec

(* With the line to itself, no failure and no stream that ends before the  *)
(* last one came, the last stage passes (demo.stage_queue).                *)
THEOREM WalkQuietQueuePasses == Walk!Spec => []QuietQueuePasses
<1>1. QueueInv => QuietQueuePasses
  BY DEF QueueInv, QuietQueuePasses, Walk!QuietQueuePasses
<1> QED BY <1>1, QueueInvariant, PTL

-----------------------------------------------------------------------------
(* The scripts together: each of them keeps to its own specification. *)
LEMMA ScriptsRunEach == ScriptsSpec => Spec /\ Books!Spec /\ Walk!Spec
<1>1. ScriptsInit => Init /\ Books!Init /\ Walk!Init
  BY DEF ScriptsInit, OneTree, NoBooks, NoWalk
<1>2. ASSUME [ScriptsNext]_scripts
      PROVE  /\ [Next]_vars
             /\ [Books!Next]_Books!vars
             /\ [Walk!Next]_Walk!vars
  <2>1. books = Books!vars /\ books' = Books!vars'
    BY DEF books, Books!vars
  <2>2. walk = Walk!vars /\ walk' = Walk!vars'
    BY DEF walk, Walk!vars
  <2> QED BY <1>2, <2>1, <2>2 DEF ScriptsNext, scripts
<1> QED BY <1>1, <1>2, PTL DEF ScriptsSpec, Spec, Books!Spec, Walk!Spec

(* Whatever repository the scripts find and whatever the site answers: a   *)
(* verdict of check_docs.py holds, a PDF of build_playbook.py is that of   *)
(* the document and passes it, and the exit of demo.py is what it saw.     *)
THEOREM ScriptsRight ==
  ScriptsSpec =>
    [](/\ SearchExact /\ PassedIsSound
       /\ PdfsRight /\ DonePassesDocsCheck
       /\ ExitIsHonest /\ QuietQueuePasses)
BY ScriptsRunEach, DocsSearch, DocsPassed, BooksPdfsRight, BooksPassDocsCheck, WalkExitIsHonest,
   WalkQuietQueuePasses, PTL
=============================================================================
