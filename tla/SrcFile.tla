------------------------------ MODULE SrcFile -------------------------------
(***************************************************************************)
(* preprocess: a source file is read line by line, each line is cut at its *)
(* spaces by split (cpp_console/sstring.h), and SrcIter visits the tokens  *)
(* of all lines by their index, as Main.cc does.                           *)
(*                                                                         *)
(* A character is SP or any other. A file is the sequence of its lines, a  *)
(* trailing empty one left out: getline finds nothing there. An operator   *)
(* Bad... is a mistake the code does not make.                             *)
(***************************************************************************)
EXTENDS Integers, SequencesExt

CONSTANTS Lines,     \* the lines a file may have
          MaxLines,  \* bound: lines per file
          BufSize,   \* the size of the buffer that getline fills
          SP

VARIABLES text,   \* the lines of the file
          unread, \* the lines that getline has before it; <<>> after a failure
          _data,  \* the tokens of each line
          _size,
          it,     \* the iterator's index, -1 before the loop
          out     \* what the loop has printed

vars == <<text, unread, _data, _size, it, out>>

Init ==
  /\ text \in UNION {[1 .. n -> Lines] : n \in 0 .. MaxLines}
  /\ text # <<>> => Last(text) # <<>>
  /\ unread = text
  /\ _data = <<>> /\ _size = 0
  /\ it = -1 /\ out = <<>>

-----------------------------------------------------------------------------
(* The result of split so far, and the part it is at. *)
Pushed(u, remove_empty) ==
  IF remove_empty /\ u.sub = <<>> THEN u
  ELSE [result |-> Append(u.result, u.sub), sub |-> <<>>]

BadSplit(str, delims, remove_empty) ==
  FoldLeft(LAMBDA u, c : IF c \notin delims THEN [u EXCEPT !.sub = Append(@, c)]
                         ELSE Pushed(u, remove_empty),
           [result |-> <<>>, sub |-> <<>>], str).result

split(str, delims, remove_empty) ==
  IF str = <<>> THEN <<>>
  ELSE LET u == FoldLeft(LAMBDA v, c : IF c \notin delims THEN [v EXCEPT !.sub = Append(@, c)]
                                       ELSE Pushed(v, remove_empty),
                         [result |-> <<>>, sub |-> <<>>], str)
       IN  Pushed(u, remove_empty).result

SrcLine(str) == split(str, {SP}, TRUE)

(* One turn of the loop of read. A line that does not fit the buffer sets  *)
(* failbit: the loop ends, and this line and what follows it are dropped.  *)
ReadLine ==
  /\ unread # <<>>
  /\ IF Len(Head(unread)) > BufSize - 1
     THEN unread' = <<>> /\ UNCHANGED <<_data, _size>>
     ELSE LET line == SrcLine(Head(unread)) IN
          /\ unread' = Tail(unread)
          /\ _data' = Append(_data, line)
          /\ _size' = _size + Len(line)
  /\ UNCHANGED <<text, it, out>>

(* operator[]: the line that holds the index is the first one longer than  *)
(* what is left of it.                                                     *)
RECURSIVE At(_, _)
At(lines, index) ==
  IF index < Len(Head(lines)) THEN Head(lines)[index + 1]
  ELSE At(Tail(lines), index - Len(Head(lines)))

Begin ==
  /\ unread = <<>> /\ it = -1
  /\ it' = 0
  /\ UNCHANGED <<text, unread, _data, _size, out>>

(* it != sf.end(), *it, it++ *)
Visit ==
  /\ it # -1 /\ it # _size
  /\ out' = Append(out, At(_data, it))
  /\ it' = it + 1
  /\ UNCHANGED <<text, unread, _data, _size>>

Next == ReadLine \/ Begin \/ Visit

Spec == Init /\ [][Next]_vars

-----------------------------------------------------------------------------
Blank(line, i) == i \notin DOMAIN line \/ line[i] = SP

(* The words of a line: its longest stretches without a space, in order.   *)
Words(line) ==
  LET from == SetToSortSeq({i \in DOMAIN line : ~Blank(line, i) /\ Blank(line, i - 1)}, <)
      to == SetToSortSeq({i \in DOMAIN line : ~Blank(line, i) /\ Blank(line, i + 1)}, <)
  IN  [j \in DOMAIN from |-> SubSeq(line, from[j], to[j])]

(* The lines before the first that is too long for the buffer. *)
Whole ==
  LET long == {i \in DOMAIN text : Len(text[i]) >= BufSize}
  IN  SubSeq(text, 1, IF long = {} THEN Len(text) ELSE (CHOOSE i \in long : \A j \in long : i <= j) - 1)

(* The loop over the iterators prints every word of the lines before the   *)
(* first one that does not fit the buffer, in order and once, whatever     *)
(* empty and blank lines are between them, and then ends.                  *)
WordsVisited ==
  LET words == FlattenSeq([i \in DOMAIN Whole |-> Words(Whole[i])]) IN
  /\ IsPrefix(out, words)
  /\ (it = _size /\ unread = <<>>) => out = words
=============================================================================
