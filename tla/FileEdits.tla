---------------------------- MODULE FileEdits ----------------------------
(***************************************************************************)
(* One file that several agents change through their tools while the user  *)
(* saves it: tools/hashline_read.py, tools/hashline_edit.py, tools/edit.py *)
(* and tools/write.py.  A tool reads the file, works on its copy, and      *)
(* rewrites the file in place: opening it for writing empties it first.    *)
(* A line is its text; line endings and encodings are left out.            *)
(***************************************************************************)
EXTENDS Naturals, Sequences, SequencesExt, FiniteSets

CONSTANTS Editors,      \* agents
          Texts,        \* what a line may say
          Wordy,        \* the texts with a letter or a digit
          Digest,       \* text -> its two digits of SHA-256
          Drafts,       \* the files to begin with
          Ops,          \* the operations the agents ask for
          MaxEdits,     \* bound on the edits of one call
          EditTurns     \* bound on the calls of tools and the user's saves

Inserts == {"insert_after", "insert_before"}
ASSUME FileEditsAssumption ==
  /\ Drafts \subseteq Seq(DOMAIN Digest) /\ Texts \cup {"new"} \subseteq DOMAIN Digest
  /\ Ops \subseteq Inserts \cup {"replace", "delete"} /\ MaxEdits \in Nat /\ EditTurns \in Nat

VARIABLES doc,       \* the lines of the file
          whole,     \* what was last written to it completely
          copy,      \* editor -> the file as it last read it
          editCall,  \* editor -> the call of a tool it waits for, and the tool's lines so far
          turns      \* calls and saves so far

editVars == <<doc, whole, copy, editCall, turns>>
NoTool == [pc |-> "idle", tool |-> "none", edits |-> <<>>, todo |-> {}, old |-> "none", new |-> <<>>, late |-> FALSE]

EditInit == /\ doc \in Drafts /\ whole = doc /\ turns = 0
            /\ copy = [e \in Editors |-> <<>>] /\ editCall = [e \in Editors |-> NoTool]

\* compute_line_hash: only a line without letters or digits depends on its number.
LineHash(n, text) == <<IF text \in Wordy THEN 0 ELSE n, Digest[text]>>

\* An edit names a line as the agent read it.
Refs(e) == {[line |-> n, hash |-> LineHash(n, copy[e][n])] : n \in 1..Len(copy[e])}
EditsOn(e) == {[op |-> o, line |-> r.line, hash |-> r.hash, text |-> t] : o \in Ops, r \in Refs(e), t \in {"new"}}

RefHolds(lines, edit) == edit.line \in 1..Len(lines) /\ LineHash(edit.line, lines[edit.line]) = edit.hash

\* The next edit of a list: the one of the last line, and of those the first.
BuggyUpcoming(edits, todo) ==
  CHOOSE i \in todo : \A j \in todo : edits[i].line < edits[j].line \/ (edits[i].line = edits[j].line /\ i <= j)
Upcoming(edits, todo) ==
  CHOOSE i \in todo : \A j \in todo : edits[j].line < edits[i].line \/ (edits[i].line = edits[j].line /\ i <= j)

\* list.insert() appends behind the end; a line that is gone is an IndexError.
Put(lines, n, text) == IF n > Len(lines) THEN Append(lines, text) ELSE InsertAt(lines, n, text)
Gone(lines, edit) == edit.op \notin Inserts /\ edit.line > Len(lines)
ApplyEdit(lines, edit) == CASE edit.op = "insert_after"  -> Put(lines, edit.line + 1, edit.text)
                            [] edit.op = "insert_before" -> Put(lines, edit.line, edit.text)
                            [] edit.op = "replace"       -> ReplaceAt(lines, edit.line, edit.text)
                            [] edit.op = "delete"        -> RemoveAt(lines, edit.line)

\* Edit: the text to replace must occur exactly once.
Once(lines, old) == Cardinality({n \in DOMAIN lines : lines[n] = old}) = 1
Replaced(lines, old) == ReplaceAt(lines, CHOOSE n \in DOMAIN lines : lines[n] = old, "new")

\* A tool that has the file's lines in hand when they change works on old ones.
Late(c) == [e \in Editors |-> IF c[e].pc = "idle" THEN c[e] ELSE [c[e] EXCEPT !.late = TRUE]]

MayCall(e) == editCall[e].pc = "idle" /\ turns < EditTurns
ReadDoc(e) == /\ MayCall(e) /\ copy' = [copy EXCEPT ![e] = doc]
              /\ UNCHANGED <<doc, whole, editCall, turns>>

\* The tool has read the file; a call that is refused leaves it alone.
Call(e, c) == /\ MayCall(e) /\ turns' = turns + 1
              /\ editCall' = [editCall EXCEPT ![e] = c]
              /\ UNCHANGED <<doc, whole, copy>>

\* HashlineEdit checks every reference before it changes anything, and then
\* edits its copy of the lines.
EditLines(e) ==
  MayCall(e) /\ \E n \in 1..MaxEdits : \E edits \in [1..n -> EditsOn(e)] :
    /\ \A i \in 1..n : RefHolds(doc, edits[i])
    /\ Call(e, [NoTool EXCEPT !.pc = "editing", !.tool = "hashline", !.edits = edits, !.todo = 1..n, !.new = doc])
EditOne(e) ==
  LET c == editCall[e]
      i == Upcoming(c.edits, c.todo)
  IN /\ c.pc = "editing" /\ UNCHANGED <<doc, whole, copy, turns>>
     /\ editCall' = [editCall EXCEPT ![e] =
          IF Gone(c.new, c.edits[i]) THEN NoTool
          ELSE [c EXCEPT !.new = ApplyEdit(c.new, c.edits[i]), !.todo = c.todo \ {i},
                         !.pc = IF c.todo = {i} THEN "loaded" ELSE "editing"]]

EditText(e) == \E n \in DOMAIN copy[e] :
  /\ Once(doc, copy[e][n])
  /\ Call(e, [NoTool EXCEPT !.pc = "loaded", !.tool = "edit", !.old = copy[e][n], !.new = Replaced(doc, copy[e][n])])
WriteDoc(e) == Call(e, [NoTool EXCEPT !.pc = "loaded", !.tool = "write", !.new = <<"new">>])

Empty(e) == /\ editCall[e].pc = "loaded" /\ doc' = <<>>
            /\ editCall' = [(Late(editCall)) EXCEPT ![e] = [editCall[e] EXCEPT !.pc = "emptied"]]
            /\ UNCHANGED <<whole, copy, turns>>

\* The new lines go to the front of whatever the file holds by now.
Fill(e) == /\ editCall[e].pc = "emptied"
           /\ doc' = editCall[e].new \o SubSeq(doc, Len(editCall[e].new) + 1, Len(doc))
           /\ whole' = doc' /\ editCall' = [(Late(editCall)) EXCEPT ![e] = NoTool]
           /\ UNCHANGED <<copy, turns>>

\* Killed in between, the process leaves the file as it is.
KilledEmpty(e) == /\ editCall[e].pc = "emptied" /\ editCall' = [editCall EXCEPT ![e] = NoTool]
                  /\ UNCHANGED <<doc, whole, copy, turns>>

\* The user opens the file, changes a line and saves.
UserSaves == /\ turns < EditTurns
             /\ \E n \in 1..Len(doc) + 1, t \in Texts :
                  doc' \in {InsertAt(doc, n, t)} \cup (IF n \in DOMAIN doc THEN {RemoveAt(doc, n), ReplaceAt(doc, n, t)} ELSE {})
             /\ whole' = doc' /\ editCall' = Late(editCall)
             /\ turns' = turns + 1 /\ UNCHANGED copy

EditNext == \/ \E e \in Editors : \/ ReadDoc(e) \/ EditLines(e) \/ EditOne(e) \/ EditText(e) \/ WriteDoc(e)
                                  \/ Empty(e) \/ Fill(e) \/ KilledEmpty(e)
            \/ UserSaves
EditSpec == EditInit /\ [][EditNext]_editVars

EditTypeOK == /\ doc \in Seq(DOMAIN Digest) /\ whole \in Seq(DOMAIN Digest) /\ turns \in 0..EditTurns
              /\ \A e \in Editors : editCall[e].pc \in {"idle", "editing", "loaded", "emptied"}

\* What one edit makes of the line it names, whatever the other lines become.
Becomes(line, edit) == CASE edit.op = "replace" -> <<edit.text>>
                         [] edit.op = "delete" -> <<>>
                         [] edit.op = "insert_before" -> <<edit.text, line>>
                         [] edit.op = "insert_after" -> <<line, edit.text>>
Meant(lines, edits, n) ==
  LET here == {i \in DOMAIN edits : edits[i].line = n}
  IN IF here = {} THEN <<lines[n]>> ELSE Becomes(lines[n], edits[CHOOSE i \in here : TRUE])
\* Where that begins, by what is put in and taken out before it.
Begins(edits, n) == n + Cardinality({i \in DOMAIN edits : edits[i].line < n /\ edits[i].op \in Inserts})
                      - Cardinality({i \in DOMAIN edits : edits[i].line < n /\ edits[i].op = "delete"})
InPlace(lines, edits, after) ==
  /\ Len(after) = Begins(edits, Len(lines) + 1) - 1
  /\ \A n \in DOMAIN lines : \A k \in DOMAIN Meant(lines, edits, n) :
       LET place == Begins(edits, n) + k - 1 IN place \in DOMAIN after /\ after[place] = Meant(lines, edits, n)[k]
Apart(edits) == \A i, j \in DOMAIN edits : edits[i].line = edits[j].line => i = j

\* An edit lands on the line the agent meant: when nobody wrote between a
\* tool's reading and its writing, the file it leaves is what was last saved
\* with each named line, unchanged since it was read up to its hash, edited in
\* its place, however the list of edits was ordered and whatever the user did
\* to the file since the agent read it (HashlineEditTool, EditTool).
Landed(e) ==
  LET c == editCall[e] IN
  CASE c.tool = "hashline" -> Apart(c.edits) => /\ \A i \in DOMAIN c.edits : RefHolds(whole, c.edits[i])
                                                /\ InPlace(whole, c.edits, doc')
    [] c.tool = "edit" -> Once(whole, c.old) /\ doc' = Replaced(whole, c.old)
    [] c.tool = "write" -> doc' = <<"new">>
\* A killed process leaves an empty file and has saved nothing.
Wrote(e) == editCall[e].pc = "emptied" /\ editCall'[e].pc = "idle" /\ (doc' # <<>> \/ whole' # whole)
EditsLand == [][\A e \in Editors : Wrote(e) /\ ~editCall[e].late => Landed(e)]_editVars
=============================================================================
