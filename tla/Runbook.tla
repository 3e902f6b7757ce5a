------------------------------ MODULE Runbook ------------------------------
(***************************************************************************)
(* The advisory scan of a presenter's runbook (authoring/validate.py): one *)
(* step reads one line of the Markdown file.  It reports the first `synth` *)
(* command of each fenced block outside a developer-mode section.          *)
(***************************************************************************)
EXTENDS Naturals, Sequences, FiniteSetsExt

CONSTANT Level  \* how deep a heading may be: 1..6 in Markdown
ASSUME LevelAssumption == Level \subseteq Nat

VARIABLES
  text,    \* history: the lines read so far
  scan     \* the scanner's locals

runbookVars == <<text, scan>>

(* A line: a heading of a level that names developer mode or does not, a   *)
(* fence of either character, a synth command, anything else.              *)
Line ==
  [kind : {"heading"}, level : Level, dev : BOOLEAN]
    \cup [kind : {"fence"}, char : {"backtick", "tilde"}] \cup [kind : {"synth", "prose"}]

RunbookInit ==
  text = <<>> /\ scan = [headings |-> {}, fence |-> "none", command |-> 0,
                         exempt |-> FALSE, flagged |-> {}]

(* heading_stack: its levels grow from the bottom to the top, so it is the *)
(* set of its entries, and popping from the top takes out those that are   *)
(* at least as deep as the new heading.                                    *)
KeepsEqual(headings, level) == {h \in headings : h.level <= level}
Levels(headings, level) == {h \in headings : h.level < level}
Entered(line) ==
  Levels(scan.headings, line.level) \cup {[level |-> line.level, dev |-> line.dev]}

Flagged == IF scan.command > 0 /\ ~scan.exempt THEN scan.flagged \cup {scan.command}
           ELSE scan.flagged

(* _markdown_synth_block_lines: a line inside a block can only close it or *)
(* be its first command; headings and other fences in it are its text.     *)
ReadLine(line) ==
  /\ text' = Append(text, line)
  /\ scan' =
       IF scan.fence # "none"
       THEN IF line.kind = "fence" /\ line.char = scan.fence
            THEN [scan EXCEPT !.fence = "none", !.flagged = Flagged]
            ELSE IF scan.command = 0 /\ line.kind = "synth"
            THEN [scan EXCEPT !.command = Len(text) + 1] ELSE scan
       ELSE IF line.kind = "heading" THEN [scan EXCEPT !.headings = Entered(line)]
       ELSE IF line.kind = "fence"
       THEN [scan EXCEPT !.fence = line.char, !.command = 0,
               !.exempt = \E h \in scan.headings : h.dev]
       ELSE scan

(* What the scan returns if the file ends here: an open block counts.      *)
Advisories == IF scan.fence = "none" THEN scan.flagged ELSE Flagged

(* The sections and blocks of a text, read off the whole of it.            *)
OpenAfter[i \in 0..Len(text)] ==
  IF i = 0 THEN "none"
  ELSE IF text[i].kind # "fence" THEN OpenAfter[i - 1]
  ELSE IF OpenAfter[i - 1] = "none" THEN text[i].char
  ELSE IF OpenAfter[i - 1] = text[i].char THEN "none" ELSE OpenAfter[i - 1]
Heading(i) == text[i].kind = "heading" /\ OpenAfter[i - 1] = "none"
Sections(i) ==
  {h \in 1..i - 1 : Heading(h) /\
     \A k \in h + 1..i - 1 : Heading(k) => text[k].level > text[h].level}
BlockOf(i) == Max({b \in 1..i : text[b].kind = "fence" /\ OpenAfter[b - 1] = "none"})
Unreachable(i) ==
  /\ text[i].kind = "synth" /\ OpenAfter[i] # "none"
  /\ \A k \in BlockOf(i)..i - 1 : text[k].kind # "synth"
  /\ ~\E h \in Sections(BlockOf(i)) : text[h].dev

(* A developer-mode heading exempts "everything under it (including deeper *)
(* subsections) ... until a heading at the same or a shallower level       *)
(* closes the section" (validate.py:361): the scan reports exactly the     *)
(* blocks that a reader of the finished document would find outside one.   *)
AdvisesExactly == Advisories = {i \in DOMAIN text : Unreachable(i)}
=============================================================================
