--------------------------- MODULE MarkdownLinks ----------------------------
(***************************************************************************)
(* iter_markdown_links of scripts/check_repository.py: a Markdown file is    *)
(* read a line at a time, and the links outside code blocks are collected.  *)
(* Beside the flag of the code the model follows the code block that        *)
(* CommonMark has open; the two are to agree on which links count.          *)
(*                                                                         *)
(* A line is a record: the mark of its fence ("none" without one), how many *)
(* of the mark there are, what follows them ("nothing", "info", or "code"   *)
(* when the marks close again on the line), how far it is indented, and     *)
(* whether it holds a link.                                                *)
(***************************************************************************)
EXTENDS Naturals

CONSTANT Lines                \* the lines a file may have

VARIABLES line_number, in_fence,
          links,              \* the numbers of the lines links were taken from
          block,              \* the fence of the open code block, or NoBlock
          meant,              \* the numbers of the lines whose links are links
          regular             \* the fences so far were the simplest there are

vars == <<line_number, in_fence, links, block, meant, regular>>

NoBlock == [mark |-> "none", run |-> 0]

\* What the code takes for a fence: three backticks first on the line.
Toggles(line) == line.mark = "backtick" /\ line.run >= 3

\* CommonMark: at most three spaces, at least three marks; what follows the
\* backticks that open a block holds no backtick.
IsFence(line) ==
    /\ line.mark # "none" /\ line.run >= 3 /\ line.indent <= 3
    /\ line.mark = "backtick" => line.follows # "code"
Opens(line) == block = NoBlock /\ IsFence(line)
Closes(line) ==
    /\ block # NoBlock /\ IsFence(line) /\ line.follows = "nothing"
    /\ line.mark = block.mark /\ line.run >= block.run

\* Three backticks at the margin, named only where they open a block.
Simple(line) ==
    line.mark # "none" =>
        /\ line.mark = "backtick" /\ line.run = 3 /\ line.indent = 0 /\ line.follows # "code"
        /\ block # NoBlock => line.follows = "nothing"

Init ==
    /\ line_number = 0 /\ in_fence = FALSE /\ links = {}
    /\ block = NoBlock /\ meant = {} /\ regular = TRUE

ReadLine == \E line \in Lines :
    /\ line_number' = line_number + 1
    /\ in_fence' = IF Toggles(line) THEN ~in_fence ELSE in_fence
    /\ links' = IF line.link /\ ~Toggles(line) /\ ~in_fence THEN links \union {line_number'} ELSE links
    /\ block' = CASE Opens(line) -> [mark |-> line.mark, run |-> line.run]
                  [] Closes(line) -> NoBlock
                  [] OTHER -> block
    /\ meant' = IF line.link /\ block = NoBlock /\ ~Opens(line)
                THEN meant \union {line_number'} ELSE meant
    /\ regular' = (regular /\ Simple(line))

Spec == Init /\ [][ReadLine]_vars

-----------------------------------------------------------------------------
(* check_repository.py:180-191.  Among simple fences the flag follows the    *)
(* code blocks, and the links checked are those outside them.              *)
LinksExact == regular => links = meant
=============================================================================
