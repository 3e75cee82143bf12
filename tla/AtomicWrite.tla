---------------------------- MODULE AtomicWrite ----------------------------
(***************************************************************************)
(* write_text of observe_report.py, through which every report, selection  *)
(* and server record is written: a temporary file beside the target, then  *)
(* a rename.  A platform with descriptor-relative calls keeps the parent   *)
(* directory open; the portable fallback goes by the path and compares the *)
(* identities of its directories before and after.  The path has two parts *)
(* that may be renamed under the writer, the existing boundary and the     *)
(* directory below it, which the writer may have to make.                  *)
(***************************************************************************)
EXTENDS Integers, FiniteSets

CONSTANTS
  Writers,     \* processes that write the file
  Boundaries,  \* directories that the boundary's path may name
  Parents,     \* directories that the parent's name may name in a boundary
  MaxMoves     \* bound: renames, links and kills in a behaviour

None == "none"
ASSUME WriterAssumption ==
  None \notin Writers \cup Parents \cup Boundaries /\ MaxMoves \in Nat

VARIABLES
  top,     \* the directory that the boundary's path names
  sub,     \* per boundary, the directory that the parent's name names in it
  target,  \* per parent, what the target is: a whole value, a part of one, a link
  temp,    \* per parent and writer, the temporary file of that writer
  wr,      \* the writers
  moves    \* changes of the directories so far

writeVars == <<top, sub, target, temp, wr, moves>>

Whole(w)  == [by |-> w, kind |-> "whole"]
Part(w)   == [by |-> w, kind |-> "part"]
NoFile    == [by |-> None, kind |-> "absent"]
OldFile   == [by |-> None, kind |-> "whole"]
Link      == [by |-> None, kind |-> "link"]

Fresh == [pc |-> "start", boundary |-> None, parent |-> None, landed |-> None, named |-> None, portable |-> FALSE]

WriteInit ==
  /\ top \in Boundaries
  /\ sub \in [Boundaries -> Parents \cup {None}]
  /\ target \in [Parents -> {NoFile, OldFile}]
  /\ temp = [d \in Parents |-> [w \in Writers |-> NoFile]]
  /\ wr \in [Writers -> {Fresh, [Fresh EXCEPT !.portable = TRUE]}]
  /\ moves = 0

At(w, pc)  == wr[w].pc = pc
To(w, pc)  == wr' = [wr EXCEPT ![w].pc = pc]
Failed(w)  == To(w, "failed")
ByPath     == sub[top]
\* The directory a writer works in: the one it holds, or the one of the path.
Place(w)   == IF wr[w].portable THEN ByPath ELSE wr[w].parent

\* open_output_parent, portable_parent_chain
OpenBoundary(w) ==
  /\ At(w, "start")
  /\ wr' = [wr EXCEPT ![w].pc = "parent", ![w].boundary = top]
  /\ UNCHANGED <<top, sub, target, temp, moves>>

\* A missing parent is made, unless somebody else has just made it.
OpenParent(w) ==
  LET b == IF wr[w].portable THEN top ELSE wr[w].boundary
  IN /\ At(w, "parent")
     /\ UNCHANGED <<top, target, temp, moves>>
     /\ IF wr[w].portable /\ top /= wr[w].boundary THEN Failed(w) /\ UNCHANGED sub
        ELSE \E d \in Parents :
               /\ IF sub[b] = None THEN /\ \A c \in Boundaries : sub[c] /= d
                                        /\ target[d] = NoFile
                                        /\ sub' = [sub EXCEPT ![b] = d]
                  ELSE d = sub[b] /\ UNCHANGED sub
               /\ wr' = [wr EXCEPT ![w].pc = "look", ![w].parent = d]

\* Only a regular file may be replaced.
Look(w) ==
  /\ At(w, "look")
  /\ IF Place(w) /= None /\ target[Place(w)] /= Link THEN To(w, "create") ELSE Failed(w)
  /\ UNCHANGED <<top, sub, target, temp, moves>>

Create(w) ==
  /\ At(w, "create")
  /\ UNCHANGED <<top, sub, target, moves>>
  /\ IF Place(w) = None THEN Failed(w) /\ UNCHANGED temp
     ELSE /\ temp' = [temp EXCEPT ![Place(w)][w] = Part(w)]
          /\ wr' = [wr EXCEPT ![w].pc = "fill", ![w].landed = Place(w)]

\* Mutation: the file is put in place before it is written.
FillLater(w) ==
  /\ At(w, "fill")
  /\ To(w, IF wr[w].portable THEN "match" ELSE "rename")
  /\ UNCHANGED <<top, sub, target, temp, moves>>

\* The bytes go to the file that is open, wherever it is now.
Fill(w) ==
  /\ At(w, "fill")
  /\ temp' = [temp EXCEPT ![wr[w].landed][w] = Whole(w)]
  /\ To(w, IF wr[w].portable THEN "match" ELSE "rename")
  /\ UNCHANGED <<top, sub, target, moves>>

\* output_directory_matches, portable_parent_chain_matches
Matches(w) == top = wr[w].boundary /\ sub[top] = wr[w].parent

\* The fallback looks at the directories and the target once more.
Match(w) ==
  /\ At(w, "match")
  /\ IF Matches(w) /\ target[ByPath] /= Link THEN To(w, "rename") ELSE Failed(w)
  /\ UNCHANGED <<top, sub, target, temp, moves>>

Rename(w) ==
  LET d == Place(w)
  IN /\ At(w, "rename")
     /\ UNCHANGED <<top, sub, moves>>
     /\ IF d = None \/ d /= wr[w].landed THEN Failed(w) /\ UNCHANGED <<target, temp>>
        ELSE /\ target' = [target EXCEPT ![d] = temp[d][w]]
             /\ temp' = [temp EXCEPT ![d][w] = NoFile]
             /\ To(w, "matchagain")

MatchAgain(w) ==
  /\ At(w, "matchagain")
  /\ wr' = [wr EXCEPT ![w].pc = IF Matches(w) THEN "written" ELSE "failed", ![w].named = ByPath]
  /\ UNCHANGED <<top, sub, target, temp, moves>>

WriteDone(w) ==
  /\ wr[w].pc \in {"written", "failed"}
  /\ wr' = [wr EXCEPT ![w] = [Fresh EXCEPT !.pc = "over", !.portable = wr[w].portable]]
  /\ UNCHANGED <<top, sub, target, temp, moves>>

\* Somebody moves directories, or puts a link in the target's place, or the
\* writer is killed and leaves its temporary file.
Moved ==
  /\ moves < MaxMoves /\ moves' = moves + 1
  /\ \/ top' \in Boundaries \ {top} /\ UNCHANGED <<sub, target, wr>>
     \/ \E b \in Boundaries, d \in Parents \cup {None} :
          sub' = [sub EXCEPT ![b] = d] /\ UNCHANGED <<top, target, wr>>
     \/ \E d \in Parents : target' = [target EXCEPT ![d] = Link] /\ UNCHANGED <<top, sub, wr>>
     \/ \E w \in Writers : /\ wr[w].pc \notin {"over", "written", "failed"} /\ To(w, "over")
                           /\ UNCHANGED <<top, sub, target>>
  /\ UNCHANGED temp

WriteStep(w) ==
  \/ OpenBoundary(w) \/ OpenParent(w) \/ Look(w) \/ Create(w) \/ Fill(w) \/ Match(w)
  \/ Rename(w) \/ MatchAgain(w) \/ WriteDone(w)
WriteNext == Moved \/ \E w \in Writers : WriteStep(w)
WriteSpec == WriteInit /\ [][WriteNext]_writeVars

----------------------------------------------------------------------------
\* Whoever reads the target finds a whole file, of one writer, or none
\* (write_text_descriptor, write_text_portable): no kill, no second writer and
\* no move of a directory leaves a part of one there.
NeverTorn == \A d \in Parents : target[d].kind /= "part"

\* A write that reports success has put its file into the directory that the
\* path named when the write began and still named when it ended
\* (output_directory_matches, portable_parent_chain_matches).  The fallback can
\* be led elsewhere and back by four moves between its comparisons, the window
\* its comment concedes; up to three it notices.
SuccessIsInPlace ==
  \A w \in Writers : wr[w].pc = "written" =>
    wr[w].landed = wr[w].parent /\ wr[w].landed = wr[w].named

\* A writer that says it succeeded has its file in place, and whoever reads a
\* report finds one whole version of it (write_text, _replace_report).
WritesAreWhole == NeverTorn /\ SuccessIsInPlace
=============================================================================
