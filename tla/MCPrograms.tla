----------------------------- MODULE MCPrograms -----------------------------
(***************************************************************************)
(* The small programs and classes of the repository that share nothing,    *)
(* one at a time; the others stay where they begin, where no fairness      *)
(* applies to them.                                                        *)
(***************************************************************************)
EXTENDS Programs

CONSTANTS NULL, Keys,                        \* STree
          Lines, MaxLines, LineBuf, SP       \* SrcFile

VARIABLES program,
          helper, tree, fam, builds, fresh,
          text, unread, _data, _size, it, out

treeVars == <<helper, tree, fam, builds, fresh>>
srcVars == <<text, unread, _data, _size, it, out>>

Tree == INSTANCE STree
Src == INSTANCE SrcFile WITH BufSize <- LineBuf

(* All lines of up to three characters, and one that is too long. *)
MCLines == UNION {[1 .. n -> {0, 1}] : n \in 0 .. 3} \cup {<<1, 1, 1, 1>>}

MCInit ==
  /\ program \in {"event", "stree", "stop_watch", "preprocess", "unixsock"}
  /\ IF program = "event" THEN Init
     ELSE /\ signaled_ = FALSE /\ now = MaxTime
          /\ pc = [t \in Threads |-> "out"]
          /\ abs_time = [t \in TimedWaiters |-> 0]
          /\ result = [t \in TimedWaiters |-> FALSE]
  /\ Tree!Init /\ Watch!Init /\ Unix!Init
  /\ Src!Init /\ (program # "preprocess" => text = <<>>)

MCNext ==
  \/ /\ program = "event" /\ Next
     /\ UNCHANGED <<treeVars, watchVars, srcVars, unixVars, program>>
  \/ /\ program = "stree" /\ Tree!Next
     /\ UNCHANGED <<vars, watchVars, srcVars, unixVars, program>>
  \/ /\ program = "stop_watch" /\ Watch!Next
     /\ UNCHANGED <<vars, treeVars, srcVars, unixVars, program>>
  \/ /\ program = "preprocess" /\ Src!Next
     /\ UNCHANGED <<vars, treeVars, watchVars, unixVars, program>>
  \/ /\ program = "unixsock" /\ Unix!Next
     /\ UNCHANGED <<vars, treeVars, watchVars, srcVars, program>>

MCSpec ==
  /\ MCInit /\ [][MCNext]_<<vars, treeVars, watchVars, srcVars, unixVars, program>>
  /\ Fairness /\ Unix!Fairness

-----------------------------------------------------------------------------
(* stree: what is built and printed is the family tree told (STree). *)
TreeAsTold == Tree!TreeAsTold

(* preprocess: the iterators visit every word once, in order (SrcFile). *)
WordsVisited == Src!WordsVisited
=============================================================================
