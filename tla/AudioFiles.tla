----------------------------- MODULE AudioFiles -----------------------------
(***************************************************************************)
(* What the file store of main/filesystem/littlefs.c promises about the    *)
(* music directory: a name holds nothing or a whole file, of exactly the   *)
(* declared size, and it goes from one to the other in one step.  Nothing  *)
(* in between is ever there for the player to open.                        *)
(***************************************************************************)
EXTENDS Naturals

CONSTANTS
  Names,    \* names of music files
  Pieces,   \* what a piece of a file may be
  MaxSize   \* largest declared size, in pieces

VARIABLE content   \* the file each name holds

NoFile == [size |-> 0, data |-> <<>>]

\* Files all of whose declared pieces are there.
Whole == UNION {[size : {s}, data : [1 .. s -> Pieces]] : s \in 1 .. MaxSize}

Init == content = [n \in Names |-> NoFile]

\* A complete upload becomes the file.
Publish(n) == \E w \in Whole : content' = [content EXCEPT ![n] = w]

\* A file is deleted, or gives way to the one that is about to replace it.
Remove(n) == content' = [content EXCEPT ![n] = NoFile]

Next == \E n \in Names : Publish(n) \/ Remove(n)

Spec == Init /\ [][Next]_content
=============================================================================
