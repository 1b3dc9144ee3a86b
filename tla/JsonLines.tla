------------------------------ MODULE JsonLines ------------------------------
(***************************************************************************)
(* A file of JSON lines, as both ledgers keep them: a record and its       *)
(* newline are appended in one write, and a reader splits the whole file   *)
(* at the newlines and parses every line.  A write that is cut short (a    *)
(* dying process, a full disk) leaves its last line without a newline, and *)
(* whatever is appended next continues that line.                          *)
(***************************************************************************)
EXTENDS Naturals, Sequences

\* A line that JSON.parse refuses.
Garbage == [torn |-> TRUE]

\* A missing file reads like an empty one.
EmptyFile == [lines |-> <<>>, open |-> FALSE]

LineFiles(Record) == [lines : Seq(Record \cup {Garbage}), open : BOOLEAN]

\* What arrives goes on the open line, if there is one, and makes it unreadable.
Arrives(file, line, open) ==
  [lines |-> IF file.open THEN [file.lines EXCEPT ![Len(file.lines)] = Garbage]
             ELSE Append(file.lines, line),
   open  |-> open]

\* Mutant: the record is appended without its newline.
AppendUnterminated(file, record) == Arrives(file, record, TRUE)

AppendLine(file, record) == Arrives(file, record, FALSE)

\* A write that ends early: part of the record, or all of it but the newline.
TornAppends(file, record) == {Arrives(file, Garbage, TRUE), Arrives(file, record, TRUE)}

Parses(file) == \A k \in DOMAIN file.lines : file.lines[k] # Garbage

=============================================================================
