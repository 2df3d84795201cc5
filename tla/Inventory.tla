----------------------------- MODULE Inventory -----------------------------
(***************************************************************************)
(* CollectInventory (internal/meta/inventory.go): one walk over the tree   *)
(* of the repository, which nothing locks, while files and directories     *)
(* come and go.  The list of the paths of generated files is left out.     *)
(***************************************************************************)
EXTENDS Naturals, SequencesExt, FiniteSetsExt

CONSTANTS
  Paths,      \* below the root, in the order in which filepath.Walk takes them
  Parent,     \* the directory of each path, "." for the root
  Git,        \* the path .git
  InGit,      \* the paths below it
  Readme,     \* the path README.md
  GoFiles, GoooFiles, \* the paths with these suffixes
  Generated,  \* the paths in internal/generated, or that end in .generated.go
  Directories, \* the paths where directories may be
  Texts,      \* what may be in a file, line ends and other characters
  MaxChanges  \* bounds the number of changes to the tree

(* A path comes after the directory it is in.                              *)
ASSUME PathsAssumption ==
  /\ Paths \in Seq(STRING \ {"."}) /\ IsInjective(Paths)
  /\ \A i \in DOMAIN Paths :
       Parent[Paths[i]] # "." => \E j \in 1 .. i - 1 : Parent[Paths[i]] = Paths[j] /\ Paths[j] \in Directories
  /\ Git \notin {".", Readme}
  /\ InGit = {path \in ToSet(Paths) : Parent[path] \in InGit \cup {Git}}
  /\ Texts \subseteq Seq(STRING)

VARIABLES
  tree,      \* what there is at each path
  todo,      \* where in Paths is what Walk has listed and not yet visited
  inventory, \* the counts so far
  pc,
  stayed,    \* what was there all the time
  ever,      \* what was there at any time
  changes    \* the number of changes so far

vars == <<tree, todo, inventory, pc, stayed, ever, changes>>

Directory == [kind |-> "directory"]
Link == [kind |-> "link"]
Regular(text) == [kind |-> "regular", text |-> text]

Nodes(path) ==
  IF path \in Directories THEN {Directory} ELSE {Link} \cup {Regular(text) : text \in Texts}

Names(directory, names) ==
  {i \in DOMAIN Paths : Paths[i] \in names /\ Parent[Paths[i]] = directory}

Closed(names) == \A path \in names : Parent[path] \in names \cup {"."}

(* Path and node of all that there is.                                     *)
Present(t) == {<<path, t[path]>> : path \in DOMAIN t}

Nothing ==
  [RootReadmeExcluded |-> 0, GoFiles |-> 0, GoPhysicalLines |-> 0, GoooFiles |-> 0,
   GoooPhysicalLines |-> 0, DescendantDirs |-> 0, RegularFiles |-> 0, GeneratedFiles |-> 0,
   GeneratedBytes |-> 0]

Init ==
  /\ \E names \in SUBSET ToSet(Paths) :
       /\ Closed(names)
       /\ tree \in {t \in [names -> UNION {Nodes(path) : path \in names}] :
                      \A path \in names : t[path] \in Nodes(path)}
  /\ todo = Names(".", DOMAIN tree) /\ inventory = Nothing /\ pc = "walk"
  /\ stayed = Present(tree) /\ ever = Present(tree) /\ changes = 0

-----------------------------------------------------------------------------
(* Mutant: a line end at the end begins another line.                      *)
physicalLinesOpen(text) ==
  IF text = <<>> THEN 0 ELSE 1 + Cardinality({i \in DOMAIN text : text[i] = "end"})

physicalLines(text) ==
  IF text = <<>> THEN 0
  ELSE LET count == 1 + Cardinality({i \in DOMAIN text : text[i] = "end"})
       IN  IF Last(text) = "end" THEN count - 1 ELSE count

One(condition) == IF condition THEN 1 ELSE 0

Counted(path, text) ==
  LET go == One(path \in GoFiles)
      gooo == One(path \in GoooFiles)
      generated == One(path \in Generated)
  IN  [inventory EXCEPT !.RegularFiles = @ + 1,
         !.GoFiles = @ + go, !.GoPhysicalLines = @ + go * physicalLines(text),
         !.GoooFiles = @ + gooo, !.GoooPhysicalLines = @ + gooo * physicalLines(text),
         !.GeneratedFiles = @ + generated, !.GeneratedBytes = @ + generated * Len(text)]

(* Walk goes on with the first of what it has listed: names are sorted, and *)
(* what is in a directory comes before the neighbours of the directory.    *)
Visited == Paths[Min(todo)]

(* What was listed is gone: the error ends the walk.                       *)
VisitGone ==
  /\ pc = "walk" /\ todo # {} /\ Visited \notin DOMAIN tree
  /\ pc' = "failed" /\ UNCHANGED <<todo, inventory>>

(* A directory is counted and listed; .git, be it a directory or not, and  *)
(* links are passed over; a file is read and counted.                      *)
VisitPresent ==
  /\ pc = "walk" /\ todo # {} /\ Visited \in DOMAIN tree
  /\ LET node  == tree[Visited]
         below == Names(Visited, DOMAIN tree)
     IN  /\ todo' = (todo \ {Min(todo)}) \cup (IF Visited # Git /\ node = Directory THEN below ELSE {})
         /\ inventory' =
              IF Visited = Git \/ node = Link THEN inventory
              ELSE IF node = Directory THEN [inventory EXCEPT !.DescendantDirs = @ + 1]
              ELSE IF Visited = Readme THEN [inventory EXCEPT !.RootReadmeExcluded = 1]
              ELSE Counted(Visited, node.text)
  /\ UNCHANGED pc

Finish == pc = "walk" /\ todo = {} /\ pc' = "done" /\ UNCHANGED <<todo, inventory>>

Walk == (VisitGone \/ VisitPresent \/ Finish) /\ UNCHANGED <<tree, stayed, ever, changes>>

(* Somebody removes something, or puts something where nothing was.        *)
Change ==
  /\ pc = "walk" /\ changes < MaxChanges /\ changes' = changes + 1
  /\ \/ \E path \in DOMAIN tree :
          /\ \A other \in DOMAIN tree : Parent[other] # path
          /\ tree' = [other \in DOMAIN tree \ {path} |-> tree[other]]
     \/ \E path \in ToSet(Paths) \ DOMAIN tree : \E node \in Nodes(path) :
          /\ Closed(DOMAIN tree \cup {path})
          /\ tree' = [other \in DOMAIN tree \cup {path} |->
                        IF other = path THEN node ELSE tree[other]]
  /\ stayed' = stayed \cap Present(tree') /\ ever' = ever \cup Present(tree')
  /\ UNCHANGED <<todo, inventory, pc>>

Next == Walk \/ Change

Spec == Init /\ [][Next]_vars

-----------------------------------------------------------------------------
(* Properties.                                                             *)

Files(some) == {entry \in some : entry[2].kind = "regular" /\ entry[1] \notin {Readme, Git}}

(* A line begins at the first character and after each line end.           *)
LineStarts(text) == {i \in DOMAIN text : i = 1 \/ text[i - 1] = "end"}

LinesIn(some) == UNION {{entry} \X LineStarts(entry[2].text) : entry \in some}

BytesIn(some) == UNION {{entry} \X DOMAIN entry[2].text : entry \in some}

Of(paths, some) == {entry \in Files(some) : entry[1] \in paths}

Real(some) == {entry \in some : entry[1] \notin InGit}

(* What the report counts, of a tree that stays as it is.                  *)
Expected(some) ==
  LET real == Real(some)
  IN  [RootReadmeExcluded |-> One(\E entry \in real : entry[1] = Readme /\ entry[2].kind = "regular"),
       GoFiles |-> Cardinality(Of(GoFiles, real)),
       GoPhysicalLines |-> Cardinality(LinesIn(Of(GoFiles, real))),
       GoooFiles |-> Cardinality(Of(GoooFiles, real)),
       GoooPhysicalLines |-> Cardinality(LinesIn(Of(GoooFiles, real))),
       DescendantDirs |-> Cardinality({entry \in real : entry[2] = Directory /\ entry[1] # Git}),
       RegularFiles |-> Cardinality(Files(real)),
       GeneratedFiles |-> Cardinality(Of(Generated, real)),
       GeneratedBytes |-> Cardinality(BytesIn(Of(Generated, real)))]

(* The walk that succeeds counts whatever was there all the time, and      *)
(* nothing that was never there: it is exact for a tree that stays as it   *)
(* is.                                                                     *)
InventoryIsExact ==
  pc = "done" =>
    \A count \in DOMAIN Nothing :
      Expected(stayed)[count] <= inventory[count] /\ inventory[count] <= Expected(ever)[count]
=============================================================================
