------------------------- MODULE AuthorGatesProofs -------------------------
(***************************************************************************)
(* The gates of an author's kit, proved: the advisories of a runbook are   *)
(* those of the finished document, the shell gets its secrets back, a role *)
(* the lint let through resolves, and a green check has seen the kit.      *)
(***************************************************************************)
EXTENDS AuthorGates, SequenceTheorems, FiniteSetTheorems, TLAPS

-----------------------------------------------------------------------------
(* The runbook scan. *)

Fence == {"backtick", "tilde"}
Scan0 ==
  [headings : SUBSET [level : Level, dev : BOOLEAN], fence : Fence \cup {"none"},
   command : Nat, exempt : BOOLEAN, flagged : SUBSET Nat]

(* OpenAfter is the one function with this property. *)
Labels(t, f) ==
  f = [i \in 0..Len(t) |->
         IF i = 0 THEN "none"
         ELSE IF t[i].kind # "fence" THEN f[i - 1]
         ELSE IF f[i - 1] = "none" THEN t[i].char
         ELSE IF f[i - 1] = t[i].char THEN "none" ELSE f[i - 1]]
Determined(t) == \E f : Labels(t, f) /\ \A g : Labels(t, g) => g = f

HeadOf(h) == [level |-> text[h].level, dev |-> text[h].dev]
Opens(b) == text[b].kind = "fence" /\ OpenAfter[b - 1] = "none"
Silent(b, i) == \A k \in b..i : text[k].kind # "synth"
First(b, i) == text[i].kind = "synth" /\ Silent(b, i - 1)

(* Line b opened the block that line i is in or was the last before it.    *)
LastOpener(b, i) == Opens(b) /\ \A k \in b + 1..i : ~Opens(k)

(* The scan is in the block that line b opened. *)
InBlock(b) ==
  /\ Opens(b) /\ \A k \in b..Len(text) : OpenAfter[k] = scan.fence
  /\ scan.exempt = \E h \in Sections(b) : text[h].dev
  /\ scan.flagged = {i \in 1..b - 1 : Unreachable(i)}
  /\ scan.command = 0 => Silent(b, Len(text))
  /\ scan.command # 0 => scan.command \in b..Len(text) /\ First(b, scan.command)

ScanInv ==
  /\ text \in Seq(Line) /\ scan \in Scan0 /\ Determined(text)
  /\ scan.fence = OpenAfter[Len(text)]
  /\ \A i \in 1..Len(text) : OpenAfter[i] # "none" => \E b \in 1..i : LastOpener(b, i)
  /\ scan.headings = {HeadOf(h) : h \in Sections(Len(text) + 1)}
  /\ scan.fence = "none" => scan.flagged = {i \in 1..Len(text) : Unreachable(i)}
  /\ scan.fence # "none" => \E b \in 1..Len(text) : InBlock(b)

Follows(label, line) ==
  IF line.kind # "fence" THEN label
  ELSE IF label = "none" THEN line.char
  ELSE IF label = line.char THEN "none" ELSE label

LEMMA LabelsAgree ==
  ASSUME NEW t \in Seq(Line), NEW line \in Line, Determined(t),
         NEW f, Labels(t, f), NEW g, Labels(Append(t, line), g)
  PROVE  /\ \A i \in 0..Len(t) : g[i] = f[i]
         /\ g[Len(t) + 1] = Follows(f[Len(t)], line)
<1> DEFINE r == [i \in 0..Len(t) |-> g[i]]
<1>1. /\ Len(t) \in Nat /\ Len(Append(t, line)) = Len(t) + 1
      /\ \A i \in 1..Len(t) : Append(t, line)[i] = t[i]
      /\ Append(t, line)[Len(t) + 1] = line
  OBVIOUS
<1>2. \A i \in 0..Len(t) + 1 : g[i] =
         IF i = 0 THEN "none"
         ELSE IF Append(t, line)[i].kind # "fence" THEN g[i - 1]
         ELSE IF g[i - 1] = "none" THEN Append(t, line)[i].char
         ELSE IF g[i - 1] = Append(t, line)[i].char THEN "none" ELSE g[i - 1]
  BY <1>1 DEF Labels
<1>3. Labels(t, r)
  <2> SUFFICES ASSUME NEW i \in 0..Len(t)
               PROVE  r[i] = IF i = 0 THEN "none"
                             ELSE IF t[i].kind # "fence" THEN r[i - 1]
                             ELSE IF r[i - 1] = "none" THEN t[i].char
                             ELSE IF r[i - 1] = t[i].char THEN "none" ELSE r[i - 1]
    BY DEF Labels
  <2>1. CASE i = 0
    BY <1>1, <1>2, <2>1
  <2>2. CASE i # 0
    <3>1. i - 1 \in 0..Len(t) /\ i \in 1..Len(t)
      BY <1>1, <2>2
    <3>2. r[i] = g[i] /\ r[i - 1] = g[i - 1] /\ Append(t, line)[i] = t[i]
      BY <1>1, <3>1
    <3> HIDE DEF r
    <3> QED
      BY <1>1, <1>2, <2>2, <3>2
  <2> QED
    BY <2>1, <2>2
<1>4. r = f
  BY <1>3 DEF Determined
<1>5. \A i \in 0..Len(t) : g[i] = f[i]
  BY <1>4
<1>6. g[Len(t) + 1] = Follows(g[Len(t)], line)
  BY <1>1, <1>2 DEF Follows
<1> QED
  BY <1>1, <1>5, <1>6

LEMMA LabelsGrow ==
  ASSUME NEW t \in Seq(Line), NEW line \in Line, Determined(t)
  PROVE  Determined(Append(t, line))
<1>1. PICK f : Labels(t, f)
  BY DEF Determined
<1> DEFINE n == Len(t)
           g == [i \in 0..n + 1 |-> IF i = n + 1 THEN Follows(f[n], line) ELSE f[i]]
<1>2. /\ n \in Nat /\ Len(Append(t, line)) = n + 1
      /\ \A i \in 1..n : Append(t, line)[i] = t[i]
      /\ Append(t, line)[n + 1] = line
  OBVIOUS
<1>3. Labels(Append(t, line), g)
  <2> SUFFICES ASSUME NEW i \in 0..n + 1
               PROVE  g[i] = IF i = 0 THEN "none"
                             ELSE IF Append(t, line)[i].kind # "fence" THEN g[i - 1]
                             ELSE IF g[i - 1] = "none" THEN Append(t, line)[i].char
                             ELSE IF g[i - 1] = Append(t, line)[i].char THEN "none"
                             ELSE g[i - 1]
    BY <1>2 DEF Labels
  <2>1. CASE i = 0
    BY <1>1, <1>2, <2>1 DEF Labels
  <2>2. CASE i \in 1..n
    <3>1. g[i] = f[i] /\ g[i - 1] = f[i - 1] /\ Append(t, line)[i] = t[i]
      BY <1>2, <2>2
    <3>2. f[i] = IF t[i].kind # "fence" THEN f[i - 1]
                 ELSE IF f[i - 1] = "none" THEN t[i].char
                 ELSE IF f[i - 1] = t[i].char THEN "none" ELSE f[i - 1]
      BY <1>1, <1>2, <2>2 DEF Labels
    <3> HIDE DEF g
    <3> QED
      BY <1>2, <2>2, <3>1, <3>2
  <2>3. CASE i = n + 1
    <3>1. g[i] = Follows(f[n], line) /\ g[i - 1] = f[n] /\ Append(t, line)[i] = line
      BY <1>2, <2>3
    <3> HIDE DEF g
    <3> QED
      BY <1>2, <2>3, <3>1 DEF Follows
  <2> QED
    BY <1>2, <2>1, <2>2, <2>3
<1>4. ASSUME NEW h, Labels(Append(t, line), h) PROVE h = g
  <2>1. h = [i \in 0..n + 1 |-> h[i]]
    BY <1>2, <1>4 DEF Labels
  <2>2. /\ \A i \in 0..n : h[i] = f[i]
        /\ h[n + 1] = Follows(f[n], line)
    BY <1>1, <1>4, LabelsAgree
  <2>3. \A i \in 0..n + 1 : h[i] = g[i]
    BY <1>2, <2>2
  <2> HIDE DEF n
  <2> QED
    BY <2>1, <2>3
<1> QED
  BY <1>3, <1>4 DEF Determined

LEMMA OpenAfterIs == Determined(text) => Labels(text, OpenAfter)
<1>1. OpenAfter = CHOOSE f : Labels(text, f)
  BY Zenon DEF Labels, OpenAfter
<1>2. Determined(text) => \E f : Labels(text, f)
  BY DEF Determined
<1> QED
  BY <1>1, <1>2

(* What a scanned line leaves alone: everything about the lines before it. *)
LEMMA LineFrame ==
  ASSUME text \in Seq(Line), Determined(text), NEW line \in Line,
         text' = Append(text, line)
  PROVE  /\ text' \in Seq(Line) /\ Determined(text)'
         /\ Len(text) \in Nat /\ Len(text') = Len(text) + 1
         /\ \A i \in 1..Len(text) : text'[i] = text[i]
         /\ text'[Len(text) + 1] = line
         /\ OpenAfter[0] = "none"
         /\ \A i \in 0..Len(text) : OpenAfter'[i] = OpenAfter[i]
         /\ OpenAfter'[Len(text) + 1] = Follows(OpenAfter[Len(text)], line)
<1>1. /\ text' \in Seq(Line) /\ Len(text) \in Nat /\ Len(text') = Len(text) + 1
      /\ \A i \in 1..Len(text) : text'[i] = text[i]
      /\ text'[Len(text) + 1] = line
  OBVIOUS
<1>2. Determined(text')
  BY LabelsGrow
<1>3. Labels(text, OpenAfter)
  BY OpenAfterIs
<1>4. Labels(text', OpenAfter')
  <2>1. OpenAfter' = CHOOSE f : Labels(text', f)
    BY Zenon DEF Labels, OpenAfter
  <2>2. \E f : Labels(text', f)
    BY <1>2 DEF Determined
  <2> QED
    BY <2>1, <2>2
<1>5. /\ \A i \in 0..Len(text) : OpenAfter'[i] = OpenAfter[i]
      /\ OpenAfter'[Len(text) + 1] = Follows(OpenAfter[Len(text)], line)
  BY <1>3, <1>4, LabelsAgree
<1>6. OpenAfter[0] = "none"
  BY <1>1, <1>3 DEF Labels
<1>7. Determined(text)'
  BY <1>2 DEF Determined, Labels
<1> QED
  BY <1>1, <1>5, <1>6, <1>7

LEMMA BlockIs ==
  ASSUME NEW i \in Nat, NEW b \in 1..i, LastOpener(b, i)
  PROVE  BlockOf(i) = b
<1> DEFINE S == {x \in 1..i : text[x].kind = "fence" /\ OpenAfter[x - 1] = "none"}
<1>1. b \in S /\ \A x \in S : b >= x
  BY DEF LastOpener, Opens
<1>2. \A x \in S : (\A y \in S : x >= y) => x = b
  BY <1>1
<1>3. Max(S) = b
  <2> HIDE DEF S
  <2>1. \E x : x \in S /\ \A y \in S : x >= y
    BY <1>1
  <2> QED
    BY <1>2, <2>1 DEF Max
<1> QED
  BY <1>3 DEF BlockOf

LEMMA ReportsKept ==
  ASSUME NEW n \in Nat, \A i \in 1..n : text'[i] = text[i],
         \A i \in 0..n : OpenAfter'[i] = OpenAfter[i],
         \A i \in 1..n : OpenAfter[i] # "none" => \E b \in 1..i : LastOpener(b, i)
  PROVE  /\ \A i \in 1..n : Heading(i)' = Heading(i)
         /\ \A i \in 1..n + 1 : Sections(i)' = Sections(i)
         /\ \A i \in 1..n : Opens(i)' = Opens(i)
         /\ \A i \in 1..n : \A b \in 1..i : LastOpener(b, i)' = LastOpener(b, i)
         /\ \A i \in 1..n : Unreachable(i)' = Unreachable(i)
<1>2. ASSUME NEW i \in 1..n PROVE Heading(i)' = Heading(i) /\ Opens(i)' = Opens(i)
  <2>1. text'[i] = text[i] /\ OpenAfter'[i - 1] = OpenAfter[i - 1]
    OBVIOUS
  <2> QED
    BY <2>1 DEF Heading, Opens
<1>3. ASSUME NEW i \in 1..n + 1 PROVE Sections(i)' = Sections(i)
  <2>1. \A h \in 1..i - 1 : /\ h \in 1..n /\ text'[h] = text[h] /\ Heading(h)' = Heading(h)
    BY <1>2
  <2>2. \A h \in 1..i - 1 : \A k \in h + 1..i - 1 :
          text'[k] = text[k] /\ Heading(k)' = Heading(k)
    BY <2>1
  <2> QED
    BY <2>1, <2>2 DEF Sections
<1>4. ASSUME NEW i \in 1..n, NEW b \in 1..i PROVE LastOpener(b, i)' = LastOpener(b, i)
  <2>1. b \in 1..n /\ \A k \in b + 1..i : k \in 1..n
    OBVIOUS
  <2> QED
    BY <1>2, <2>1 DEF LastOpener
<1>5. ASSUME NEW i \in 1..n PROVE Unreachable(i)' = Unreachable(i)
  <2>1. text'[i] = text[i] /\ OpenAfter'[i] = OpenAfter[i]
    OBVIOUS
  <2>2. CASE OpenAfter[i] = "none"
    BY <2>1, <2>2 DEF Unreachable
  <2>3. CASE OpenAfter[i] # "none"
    <3>1. PICK b \in 1..i : LastOpener(b, i)
      BY <2>3
    <3>2. BlockOf(i) = b
      BY <3>1, BlockIs
    <3>3. BlockOf(i)' = b
      <4>1. LastOpener(b, i)'
        BY <1>4, <3>1
      <4> DEFINE S == {x \in 1..i : text'[x].kind = "fence" /\ OpenAfter'[x - 1] = "none"}
      <4>2. b \in S /\ \A x \in S : b >= x
        BY <4>1 DEF LastOpener, Opens
      <4>3. \A x \in S : (\A y \in S : x >= y) => x = b
        BY <4>2
      <4>4. Max(S) = b
        <5> HIDE DEF S
        <5>1. \E x : x \in S /\ \A y \in S : x >= y
          BY <4>2
        <5> QED
          BY <4>3, <5>1 DEF Max
      <4> QED
        BY <4>4 DEF BlockOf
    <3>4. Sections(b)' = Sections(b) /\ \A h \in Sections(b) : text'[h] = text[h]
      <4>1. b \in 1..n + 1 /\ Sections(b) \subseteq 1..n
        BY DEF Sections
      <4> QED
        BY <1>3, <4>1
    <3>5. \A k \in b..i - 1 : text'[k] = text[k]
      OBVIOUS
    <3> QED
      BY <2>1, <3>2, <3>3, <3>4, <3>5 DEF Unreachable
  <2> QED
    BY <2>2, <2>3
<1> QED
  BY <1>2, <1>3, <1>4, <1>5

LEMMA ScanStarts == RunbookInit => ScanInv
<1> SUFFICES ASSUME RunbookInit PROVE ScanInv
  OBVIOUS
<1> USE DEF RunbookInit
<1>1. Determined(<<>>)
  <2> DEFINE f == [i \in 0..0 |-> "none"]
  <2>1. Labels(<<>>, f) /\ \A g : Labels(<<>>, g) => g = f
    BY DEF Labels
  <2> QED
    BY <2>1 DEF Determined
<1>2. text = <<>> /\ Len(text) = 0 /\ text \in Seq(Line) /\ scan \in Scan0
  BY DEF Scan0
<1>3. Determined(text)
  BY <1>1, <1>2
<1>4. OpenAfter[0] = "none"
  BY <1>2, <1>3, OpenAfterIs DEF Labels
<1>5. Sections(1) = {}
  BY DEF Sections
<1> QED
  BY <1>2, <1>3, <1>4, <1>5 DEF ScanInv

(* A line of the open block is reported by the document when it is the     *)
(* block's first command and the block is in no developer-mode section.    *)
LEMMA InThisBlock ==
  ASSUME NEW n \in Nat, Len(text) = n, NEW b \in 1..n, InBlock(b), scan.fence # "none",
         NEW i \in b..n
  PROVE  Unreachable(i) <=> First(b, i) /\ ~scan.exempt
<1>1. \A x \in b + 1..i : ~Opens(x)
  BY DEF InBlock, Opens
<1>2. LastOpener(b, i)
  BY <1>1 DEF InBlock, LastOpener
<1>3. BlockOf(i) = b
  BY <1>2, BlockIs
<1>4. OpenAfter[i] # "none"
  BY DEF InBlock
<1> QED
  BY <1>3, <1>4 DEF Unreachable, First, Silent, InBlock

LEMMA OpenBlockReports ==
  ASSUME ScanInv, scan.fence # "none"
  PROVE  Flagged = {i \in 1..Len(text) : Unreachable(i)}
<1> PICK n \in Nat : n = Len(text)
  BY DEF ScanInv
<1>1. PICK b \in 1..n : InBlock(b)
  BY DEF ScanInv
<1>2. scan.command \in Nat
  BY DEF ScanInv, Scan0
<1>3. ASSUME NEW i \in b..n PROVE First(b, i) <=> i = scan.command
  <2>1. CASE scan.command = 0
    BY <1>1, <2>1 DEF InBlock, First, Silent
  <2>2. CASE scan.command # 0
    <3>1. scan.command \in b..n /\ First(b, scan.command)
      BY <1>1, <2>2 DEF InBlock
    <3>2. ~(i < scan.command /\ First(b, i))
      BY <3>1 DEF First, Silent
    <3>3. ~(scan.command < i /\ First(b, i))
      BY <3>1 DEF First, Silent
    <3> QED
      BY <3>1, <3>2, <3>3
  <2> QED
    BY <2>1, <2>2
<1>4. scan.flagged = {i \in 1..b - 1 : Unreachable(i)}
  BY <1>1 DEF InBlock
<1>5. \A i \in b..n : Unreachable(i) <=> i = scan.command /\ ~scan.exempt
  BY <1>1, <1>3, InThisBlock
<1>6. scan.command # 0 => scan.command \in b..n
  BY <1>1 DEF InBlock
<1> QED
  BY <1>2, <1>4, <1>5, <1>6 DEF Flagged

LEMMA ScanIsRight == ScanInv => AdvisesExactly
<1> SUFFICES ASSUME ScanInv PROVE AdvisesExactly
  OBVIOUS
<1>1. DOMAIN text = 1..Len(text)
  BY DEF ScanInv
<1>2. CASE scan.fence = "none"
  BY <1>1, <1>2 DEF ScanInv, AdvisesExactly, Advisories
<1>3. CASE scan.fence # "none"
  BY <1>1, <1>3, OpenBlockReports DEF AdvisesExactly, Advisories
<1> QED
  BY <1>2, <1>3

LEMMA ScanReads ==
  ASSUME ScanInv, NEW line \in Line, ReadLine(line)
  PROVE  ScanInv'
<1> PICK n \in Nat : n = Len(text)
  BY DEF ScanInv
<1> DEFINE Past == \A i \in 1..n : OpenAfter[i] # "none" => \E b \in 1..i : LastOpener(b, i)
<1>1. /\ text' \in Seq(Line) /\ Determined(text)' /\ Len(text) = n /\ Len(text') = n + 1
      /\ \A i \in 1..n : text'[i] = text[i]
      /\ text'[n + 1] = line /\ OpenAfter[0] = "none"
      /\ \A i \in 0..n : OpenAfter'[i] = OpenAfter[i]
      /\ OpenAfter'[n + 1] = Follows(OpenAfter[n], line)
  BY LineFrame DEF ScanInv, ReadLine
<1>2. Past
  BY DEF ScanInv
<1>3. /\ \A i \in 1..n : Heading(i)' = Heading(i)
      /\ \A i \in 1..n + 1 : Sections(i)' = Sections(i)
      /\ \A i \in 1..n : Opens(i)' = Opens(i)
      /\ \A i \in 1..n : \A b \in 1..i : LastOpener(b, i)' = LastOpener(b, i)
      /\ \A i \in 1..n : Unreachable(i)' = Unreachable(i)
  BY <1>1, <1>2, ReportsKept
<1>4. /\ scan \in Scan0 /\ scan.fence = OpenAfter[n]
      /\ scan.headings = {HeadOf(h) : h \in Sections(n + 1)}
      /\ scan.fence = "none" => scan.flagged = {i \in 1..n : Unreachable(i)}
      /\ scan.fence # "none" => \E b \in 1..n : InBlock(b)
      /\ scan.fence # "none" => Flagged = {i \in 1..n : Unreachable(i)}
  BY OpenBlockReports DEF ScanInv
<1>5. /\ line.kind \in {"heading", "fence", "synth", "prose"}
      /\ line.kind = "heading" => line.level \in Level /\ line.dev \in BOOLEAN
      /\ line.kind = "fence" => line.char \in Fence
  BY DEF Line, Fence
<1>6. scan' =
       IF scan.fence # "none"
       THEN IF line.kind = "fence" /\ line.char = scan.fence
            THEN [scan EXCEPT !.fence = "none", !.flagged = Flagged]
            ELSE IF scan.command = 0 /\ line.kind = "synth"
            THEN [scan EXCEPT !.command = n + 1] ELSE scan
       ELSE IF line.kind = "heading" THEN [scan EXCEPT !.headings = Entered(line)]
       ELSE IF line.kind = "fence"
       THEN [scan EXCEPT !.fence = line.char, !.command = 0,
               !.exempt = \E h \in scan.headings : h.dev]
       ELSE scan
  BY <1>1 DEF ReadLine
<1> HIDE DEF Past
<1>7. scan' \in Scan0
  <2>1. Flagged \in SUBSET Nat
    BY <1>4 DEF Flagged, Scan0
  <2>2. line.kind = "heading" => Entered(line) \in SUBSET [level : Level, dev : BOOLEAN]
    BY <1>4, <1>5 DEF Entered, Levels, Scan0
  <2>3. CASE scan.fence # "none" /\ line.kind = "fence" /\ line.char = scan.fence
    BY <1>4, <1>6, <2>1, <2>3 DEF Scan0
  <2>4. CASE scan.fence # "none" /\ ~(line.kind = "fence" /\ line.char = scan.fence)
    BY <1>4, <1>6, <2>4 DEF Scan0
  <2>5. CASE scan.fence = "none" /\ line.kind = "heading"
    BY <1>4, <1>6, <2>2, <2>5 DEF Scan0
  <2>6. CASE scan.fence = "none" /\ line.kind = "fence"
    <3>1. line.kind # "heading" /\ line.char \in Fence
      BY <1>5, <2>6
    <3>2. (\E h \in scan.headings : h.dev) \in BOOLEAN
      OBVIOUS
    <3>3. scan' = [scan EXCEPT !.fence = line.char, !.command = 0,
                       !.exempt = \E h \in scan.headings : h.dev]
      BY <1>6, <2>6, <3>1
    <3> DEFINE e == \E h \in scan.headings : h.dev
    <3>4. e \in BOOLEAN /\ scan' = [scan EXCEPT !.fence = line.char, !.command = 0, !.exempt = e]
      BY <3>2, <3>3
    <3> HIDE DEF e
    <3> QED
      BY <1>4, <3>1, <3>4 DEF Scan0
  <2>7. CASE scan.fence = "none" /\ line.kind \notin {"heading", "fence"}
    BY <1>4, <1>6, <2>7
  <2> QED
    BY <2>3, <2>4, <2>5, <2>6, <2>7
<1>8. scan'.fence = OpenAfter'[n + 1]
  BY <1>1, <1>4, <1>5, <1>6 DEF Follows, Scan0, Fence
<1>9. OpenAfter'[n] = scan.fence /\ (n + 1) - 1 = n
  <2>1. n \in 0..n
    OBVIOUS
  <2>2. OpenAfter'[n] = OpenAfter[n]
    BY <1>1, <2>1
  <2> QED
    BY <1>4, <2>2
<1>10. \A i \in 1..n + 1 : OpenAfter'[i] # "none" => \E b \in 1..i : LastOpener(b, i)'
  <2> SUFFICES ASSUME NEW i \in 1..n + 1, OpenAfter'[i] # "none"
               PROVE  \E b \in 1..i : LastOpener(b, i)'
    OBVIOUS
  <2>1. CASE i \in 1..n
    BY <1>1, <1>2, <1>3, <2>1 DEF Past
  <2>2. CASE i = n + 1 /\ OpenAfter[n] # "none"
    <3>1. n # 0 /\ n \in 1..n
      BY <1>1, <2>2
    <3>2. PICK b \in 1..n : LastOpener(b, n)
      BY <1>2, <2>2, <3>1 DEF Past
    <3>3. LastOpener(b, n)'
      BY <1>3, <3>1, <3>2
    <3>4. ~Opens(n + 1)'
      BY <1>1, <2>2 DEF Opens
    <3> QED
      BY <2>2, <3>3, <3>4 DEF LastOpener
  <2>3. CASE i = n + 1 /\ OpenAfter[n] = "none"
    <3>1. Opens(n + 1)'
      BY <1>1, <2>3 DEF Opens, Follows
    <3> QED
      BY <2>3, <3>1 DEF LastOpener
  <2> QED
    BY <2>1, <2>2, <2>3
<1>11. scan'.headings = {HeadOf(h)' : h \in Sections(n + 2)'}
  <2>1. Sections(n + 1) \subseteq 1..n
    BY DEF Sections
  <2>2. \A h \in 1..n : HeadOf(h)' = HeadOf(h) /\ text'[h] = text[h]
    BY <1>1 DEF HeadOf
  <2>3. CASE line.kind = "heading" /\ scan.fence = "none"
    <3>1. Heading(n + 1)' /\ HeadOf(n + 1)' = [level |-> line.level, dev |-> line.dev]
      <4>1. OpenAfter'[n] = "none" /\ (n + 1) - 1 = n
        BY <1>9, <2>3
      <4> QED
        BY <1>1, <2>3, <4>1 DEF Heading, HeadOf
    <3>2. Sections(n + 2)' = {h \in Sections(n + 1) : text[h].level < line.level} \cup {n + 1}
      <4>1. ASSUME NEW h \in 1..n
            PROVE  h \in Sections(n + 2)' <=> h \in Sections(n + 1) /\ text[h].level < line.level
        <5>1. h \in Sections(n + 2)' <=>
                Heading(h)' /\ \A k \in h + 1..n + 1 : Heading(k)' => text'[k].level > text'[h].level
          BY DEF Sections
        <5>2. h \in Sections(n + 1) <=>
                Heading(h) /\ \A k \in h + 1..n : Heading(k) => text[k].level > text[h].level
          BY DEF Sections
        <5>3. \A k \in h + 1..n : Heading(k)' = Heading(k) /\ text'[k] = text[k]
          BY <1>1, <1>3
        <5>4. Heading(h)' = Heading(h) /\ text'[h] = text[h]
          BY <1>1, <1>3
        <5>5. Heading(h) => text[h].level \in Nat
          <6>1. text[h] \in Line
            BY <1>1 DEF ScanInv
          <6> QED
            BY <6>1, LevelAssumption DEF Heading, Line
        <5>6. line.level \in Nat
          BY <1>5, <2>3, LevelAssumption
        <5>7. (text'[n + 1].level > text'[h].level) <=> (line.level > text[h].level)
          BY <1>1, <5>4
        <5>8. h \in Sections(n + 2)' <=>
                Heading(h) /\ (line.level > text[h].level) /\
                  \A k \in h + 1..n : Heading(k) => text[k].level > text[h].level
          BY <3>1, <5>1, <5>3, <5>4, <5>7
        <5> QED
          BY <5>2, <5>5, <5>6, <5>8
      <4>2. n + 1 \in Sections(n + 2)'
        BY <3>1 DEF Sections
      <4>3. Sections(n + 2)' \subseteq 1..n + 1
        BY DEF Sections
      <4> QED
        BY <2>1, <4>1, <4>2, <4>3
    <3>3. scan'.headings = Entered(line)
      BY <1>4, <1>6, <2>3 DEF Scan0
    <3>4. Levels(scan.headings, line.level) =
            {HeadOf(h) : h \in {h \in Sections(n + 1) : text[h].level < line.level}}
      BY <1>4 DEF Levels, HeadOf
    <3>5. {HeadOf(h)' : h \in Sections(n + 2)'} =
            {HeadOf(h) : h \in {h \in Sections(n + 1) : text[h].level < line.level}}
              \cup {[level |-> line.level, dev |-> line.dev]}
      BY <2>1, <2>2, <3>1, <3>2
    <3> QED
      BY <3>3, <3>4, <3>5 DEF Entered
  <2>4. CASE ~(line.kind = "heading" /\ scan.fence = "none")
    <3>1. ~Heading(n + 1)'
      BY <1>1, <1>4, <2>4 DEF Heading
    <3>2. Sections(n + 2)' = Sections(n + 1)'
      <4>1. n + 1 \notin Sections(n + 2)'
        BY <3>1 DEF Sections
      <4>2. \A h \in 1..n : h \in Sections(n + 2)' <=> h \in Sections(n + 1)'
        BY <3>1 DEF Sections
      <4> QED
        BY <4>1, <4>2 DEF Sections
    <3>3. scan'.headings = scan.headings
      BY <1>4, <1>6, <2>4 DEF Scan0
    <3> QED
      BY <1>3, <1>4, <2>1, <2>2, <3>2, <3>3
  <2> QED
    BY <2>3, <2>4
<1>12. scan'.fence = "none" => scan'.flagged = {i \in 1..n + 1 : Unreachable(i)'}
  <2> SUFFICES ASSUME scan'.fence = "none"
               PROVE  scan'.flagged = {i \in 1..n + 1 : Unreachable(i)'}
    OBVIOUS
  <2>1. ~Unreachable(n + 1)'
    BY <1>8 DEF Unreachable
  <2>2. scan'.flagged = {i \in 1..n : Unreachable(i)}
    BY <1>4, <1>5, <1>6 DEF Scan0, Fence
  <2> QED
    BY <1>3, <2>1, <2>2
<1>13. scan'.fence # "none" => \E b \in 1..n + 1 : InBlock(b)'
  <2> SUFFICES ASSUME scan'.fence # "none"
               PROVE  \E b \in 1..n + 1 : InBlock(b)'
    OBVIOUS
  <2>1. CASE scan.fence = "none"
    <3>1. /\ line.kind = "fence" /\ scan'.fence = line.char /\ scan'.command = 0
          /\ scan'.exempt = \E h \in scan.headings : h.dev
          /\ scan'.flagged = scan.flagged
      BY <1>4, <1>6, <2>1 DEF Scan0
    <3>2. Opens(n + 1)'
      <4>1. OpenAfter'[n] = "none" /\ (n + 1) - 1 = n
        BY <1>9, <2>1
      <4> QED
        BY <1>1, <3>1, <4>1 DEF Opens
    <3>3. scan'.exempt = \E h \in Sections(n + 1)' : text'[h].dev
      <4>1. Sections(n + 1)' = Sections(n + 1) /\ \A h \in Sections(n + 1) : text'[h] = text[h]
        BY <1>1, <1>3 DEF Sections
      <4>2. (\E h \in scan.headings : h.dev) <=> \E h \in Sections(n + 1) : HeadOf(h).dev
        BY <1>4
      <4>3. \A h \in Sections(n + 1) : HeadOf(h).dev = text[h].dev
        BY DEF HeadOf
      <4>4. scan'.exempt \in BOOLEAN
        BY <1>7 DEF Scan0
      <4> QED
        BY <3>1, <4>1, <4>2, <4>3, <4>4
    <3>4. scan'.flagged = {i \in 1..(n + 1) - 1 : Unreachable(i)'}
      BY <1>3, <1>4, <2>1, <3>1
    <3>5. Silent(n + 1, n + 1)'
      BY <1>1, <3>1 DEF Silent
    <3>6. \A k \in n + 1..n + 1 : OpenAfter'[k] = scan'.fence
      BY <1>8
    <3>7. InBlock(n + 1)'
      BY <1>1, <3>1, <3>2, <3>3, <3>4, <3>5, <3>6 DEF InBlock
    <3> QED
      BY <3>7
  <2>2. CASE scan.fence # "none"
    <3>1. PICK b \in 1..n : InBlock(b)
      BY <1>4, <2>2
    <3>2. /\ scan'.fence = scan.fence /\ scan'.exempt = scan.exempt
          /\ scan'.flagged = scan.flagged
          /\ scan'.command =
               IF scan.command = 0 /\ line.kind = "synth" THEN n + 1 ELSE scan.command
      BY <1>4, <1>6, <2>2 DEF Scan0
    <3>3. Opens(b)' /\ \A k \in b..n + 1 : OpenAfter'[k] = scan'.fence
      BY <1>1, <1>3, <1>8, <3>1, <3>2 DEF InBlock
    <3>4. scan'.exempt = \E h \in Sections(b)' : text'[h].dev
      <4>1. Sections(b)' = Sections(b) /\ \A h \in Sections(b) : text'[h] = text[h]
        <5>1. Sections(b)' = Sections(b)
          BY <1>3
        <5>2. Sections(b) \subseteq 1..n
          BY DEF Sections
        <5> QED
          BY <1>1, <5>1, <5>2
      <4> QED
        BY <3>1, <3>2, <4>1 DEF InBlock
    <3>5. scan'.flagged = {i \in 1..b - 1 : Unreachable(i)'}
      BY <1>3, <3>1, <3>2 DEF InBlock
    <3>6. /\ scan'.command = 0 => Silent(b, n + 1)'
          /\ scan'.command # 0 => scan'.command \in b..n + 1 /\ First(b, scan.command)'
      <4>1. \A k \in b..n : text'[k] = text[k]
        BY <1>1
      <4>2. CASE scan.command = 0
        <5>1. \A k \in b..n : text'[k].kind # "synth"
          BY <1>1, <3>1, <4>1, <4>2 DEF InBlock, Silent
        <5> QED
          BY <1>1, <3>2, <4>2, <5>1 DEF Silent, First
      <4>3. CASE scan.command # 0
        <5>1. scan'.command = scan.command /\ scan.command \in b..n /\ First(b, scan.command)
          BY <1>1, <3>1, <3>2, <4>3 DEF InBlock
        <5>2. \A k \in b..scan.command - 1 : text'[k] = text[k]
          BY <4>1, <5>1
        <5> QED
          BY <4>1, <4>3, <5>1, <5>2 DEF Silent, First
      <4> QED
        BY <4>2, <4>3
    <3>7. InBlock(b)'
      BY <1>1, <3>3, <3>4, <3>5, <3>6 DEF InBlock
    <3> QED
      BY <3>7
  <2> QED
    BY <2>1, <2>2
<1> QED
  BY <1>1, <1>7, <1>8, <1>10, <1>11, <1>12, <1>13 DEF ScanInv

LEMMA ScanRests ==
  ASSUME ScanInv, UNCHANGED runbookVars
  PROVE  ScanInv'
<1>1. text' = text /\ scan' = scan
  BY DEF runbookVars
<1>2. OpenAfter' = OpenAfter
  BY <1>1 DEF OpenAfter
<1>3. \A b : Sections(b)' = Sections(b) /\ Opens(b)' = Opens(b) /\ BlockOf(b)' = BlockOf(b)
  BY <1>1, <1>2 DEF Sections, Heading, Opens, BlockOf
<1>4. \A i : Unreachable(i)' = Unreachable(i)
  BY <1>1, <1>2, <1>3 DEF Unreachable
<1>5. \A b, i : LastOpener(b, i)' = LastOpener(b, i)
  BY <1>3 DEF LastOpener
<1>6. \A b : InBlock(b)' = InBlock(b)
  BY <1>1, <1>2, <1>3, <1>4 DEF InBlock, First, Silent
<1>7. Determined(text)'
  <2>1. Determined(text')
    BY <1>1 DEF ScanInv
  <2> QED
    BY <2>1 DEF Determined, Labels
<1>8. scan' \in Scan0 /\ \A h : HeadOf(h)' = HeadOf(h)
  BY <1>1 DEF ScanInv, HeadOf
<1> QED
  BY <1>1, <1>2, <1>3, <1>4, <1>5, <1>6, <1>7, <1>8 DEF ScanInv

(* The headings of a runbook, its blocks and their first commands, as the  *)
(* scan holds them after any number of lines, are those of the text so     *)
(* far; so the advisories are exactly the commands that the finished       *)
(* document has outside its developer-mode sections, for every text.       *)
THEOREM AdvisoriesAreExact == Spec => []AdvisesExactly
<1>1. Init => ScanInv
  BY ScanStarts DEF Init
<1>2. ScanInv /\ [Next]_vars => ScanInv'
  <2> SUFFICES ASSUME ScanInv, [Next]_vars PROVE ScanInv'
    OBVIOUS
  <2>1. (\E line \in Line : ReadLine(line)) \/ UNCHANGED runbookVars
    BY Zenon DEF Next, vars
  <2> QED
    BY <2>1, ScanReads, ScanRests
<1> QED
  BY <1>1, <1>2, ScanIsRight, PTL DEF Spec

-----------------------------------------------------------------------------
(* The lint of the model roles and their resolution. *)

LEMMA LintHasRoles ==
  ASSUME NEW doc, Lint(doc) = {}
  PROVE  doc.schema = {} /\ RoleErrors(doc) = {}
<1>1. doc.schema = {} /\ SemanticErrors(doc) = {}
  BY DEF Lint
<1>2. RoleErrors(doc) \subseteq SemanticErrors(doc)
  BY Zenon DEF SemanticErrors
<1> QED
  BY <1>1, <1>2

LEMMA LintedRole ==
  ASSUME NEW k \in Kits \cup Editions, IsDoc(k), Lint(k.doc) = {},
         NEW r \in DOMAIN k.doc.roles, NEW p \in k.doc.providers
  PROVE  Resolvable(k.doc, r, p)
<1> DEFINE doc == k.doc
           role == doc.roles[r]
<1>1. doc.schema = {} /\ RoleErrors(doc) = {}
  BY LintHasRoles
<1>2. /\ \A q \in PossibleProviders(doc, role) : Named(role.models[q])
      /\ SwitchOk(doc, role)
  <2> DEFINE Errors(x) ==
        {e \in {"role-without-a-model"} :
           \E q \in PossibleProviders(doc, doc.roles[x]) : ~Named(doc.roles[x].models[q])}
        \cup {e \in {"switch-is-no-boolean-with-a-default"} : ~SwitchOk(doc, doc.roles[x])}
  <2>1. UNION {Errors(x) : x \in DOMAIN doc.roles} \subseteq RoleErrors(doc)
    BY Zenon DEF RoleErrors
  <2>2. /\ (\E q \in PossibleProviders(doc, role) : ~Named(role.models[q])) =>
             "role-without-a-model" \in Errors(r)
        /\ ~SwitchOk(doc, role) => "switch-is-no-boolean-with-a-default" \in Errors(r)
    OBVIOUS
  <2> HIDE DEF Errors
  <2>3. Errors(r) \in {Errors(x) : x \in DOMAIN doc.roles}
    OBVIOUS
  <2>4. Errors(r) = {}
    BY <1>1, <2>1, <2>3
  <2> QED
    BY <2>2, <2>4
<1>3. BoundTo(role, p) \in PossibleProviders(doc, role)
  BY DEF BoundTo, PossibleProviders
<1>4. BoundTo(role, p) \in LlmProvider
  BY <1>1, SchemaAssumption DEF BoundTo
<1> QED
  BY <1>2, <1>3, <1>4 DEF Resolvable

LEMMA LintedComponent ==
  ASSUME NEW doc, Lint(doc) = {}, NEW part \in ToSet(doc.live)
  PROVE  part.roles \subseteq DOMAIN doc.roles
<1> DEFINE Undefined ==
      {e \in {"undefined-role"} :
         \E c \in ToSet(doc.live) : ~(c.roles \subseteq DOMAIN doc.roles)}
<1> DEFINE Others ==
      UNION {{e \in {"role-without-a-model"} :
                \E p \in PossibleProviders(doc, doc.roles[r]) : ~Named(doc.roles[r].models[p])}
             \cup {e \in {"switch-is-no-boolean-with-a-default"} : ~SwitchOk(doc, doc.roles[r])} :
               r \in DOMAIN doc.roles}
<1>1. RoleErrors(doc) = Others \cup Undefined
  BY Zenon DEF RoleErrors
<1>2. ~(part.roles \subseteq DOMAIN doc.roles) => "undefined-role" \in Undefined
  OBVIOUS
<1>3. RoleErrors(doc) = {}
  BY LintHasRoles
<1> HIDE DEF Undefined, Others
<1> QED
  BY <1>1, <1>2, <1>3

(* What resolve_manifest_roles returns goes through an envelope unchanged. *)
LEMMA EnvelopeKeeps ==
  ASSUME NEW b, b = [r \in DOMAIN b |-> [provider |-> b[r].provider, model |-> b[r].model]],
         \A r \in DOMAIN b : b[r].provider \in LlmProvider /\ Named(b[r].model)
  PROVE  Decoded(Envelope(b)) = {b}
<1> DEFINE Item(r) == [name |-> r, provider |-> b[r].provider, model |-> b[r].model]
           E == {Item(r) : r \in DOMAIN b}
           Entry(r) == CHOOSE e \in E : e.name = r
           d == [r \in {e.name : e \in E} |->
                   [provider |-> Entry(r).provider, model |-> Entry(r).model]]
<1>1. Envelope(b) = [version |-> 1, bindings |-> E]
  BY DEF Envelope
<1>2. \A e \in E : e.provider \in LlmProvider /\ Named(e.model)
  OBVIOUS
<1>3. {e.name : e \in E} = DOMAIN b
  <2>1. \A r \in DOMAIN b : Item(r) \in E /\ Item(r).name = r
    OBVIOUS
  <2>2. \A e \in E : e.name \in DOMAIN b
    OBVIOUS
  <2> HIDE DEF E, Item
  <2> QED
    BY <2>1, <2>2
<1>4. ASSUME NEW r \in DOMAIN b
      PROVE  Entry(r).provider = b[r].provider /\ Entry(r).model = b[r].model
  <2>1. Item(r) \in E /\ \A e \in E : e.name = r => e = Item(r)
    OBVIOUS
  <2>2. Item(r).name = r /\ Item(r).provider = b[r].provider /\ Item(r).model = b[r].model
    OBVIOUS
  <2> HIDE DEF E, Item
  <2>3. Entry(r) = Item(r)
    BY <2>1, <2>2
  <2> HIDE DEF Entry
  <2> QED
    BY <2>2, <2>3
<1> HIDE DEF E, Entry
<1>5. d = b
  BY <1>3, <1>4
<1>6. Decoded(Envelope(b)) = {d}
  <2> DEFINE env == Envelope(b)
  <2>1. env.version = 1 /\ env.bindings = E
    BY <1>1
  <2> HIDE DEF env
  <2>2. Decoded(env) =
          {[r \in {e.name : e \in env.bindings} |->
              [provider |-> (CHOOSE e \in env.bindings : e.name = r).provider,
               model |-> (CHOOSE e \in env.bindings : e.name = r).model]]}
    BY <1>2, <2>1 DEF Decoded
  <2>3. Decoded(env) = {d}
    BY <2>1, <2>2 DEF Entry
  <2> QED
    BY <2>3 DEF env
<1> QED
  BY <1>5, <1>6

LEMMA LintIsEnough ==
  ASSUME kit \in Kits \cup Editions
  PROVE  LintedRolesResolve
<1> SUFFICES ASSUME IsDoc(kit), Lint(kit.doc) = {},
                    NEW c \in ToSet(kit.doc.live), NEW p \in kit.doc.providers,
                    NEW set \in SUBSET Switches(kit.doc), NEW overrides \in [set -> BOOLEAN]
             PROVE  LET bound == ResolveRoles(kit.doc, c.roles, p, overrides)
                    IN bound # Refused /\ \A b \in bound : Decoded(Envelope(b)) = bound
  BY DEF LintedRolesResolve
<1> DEFINE on == On(kit.doc, c.roles, overrides)
           f == [r \in on |-> BoundTo(kit.doc.roles[r], p)]
           g == [r \in on |-> kit.doc.roles[r].models[BoundTo(kit.doc.roles[r], p)]]
           bound == [r \in on |-> [provider |-> f[r], model |-> g[r]]]
<1>1. on \subseteq DOMAIN kit.doc.roles
  BY LintedComponent DEF On
<1>2. \A r \in on : Resolvable(kit.doc, r, p)
  BY <1>1, LintedRole
<1>3. ResolveRoles(kit.doc, c.roles, p, overrides) = {bound}
  BY <1>2 DEF ResolveRoles
<1>4. \A r \in on : f[r] \in LlmProvider /\ Named(g[r])
  BY <1>2 DEF Resolvable
<1>5. Decoded(Envelope(bound)) = {bound}
  <2>1. /\ DOMAIN bound = on
        /\ \A r \in on : bound[r] = [provider |-> f[r], model |-> g[r]]
    OBVIOUS
  <2>2. bound = [r \in DOMAIN bound |-> [provider |-> bound[r].provider, model |-> bound[r].model]]
    OBVIOUS
  <2> HIDE DEF bound, on, f, g
  <2>3. \A r \in DOMAIN bound : bound[r].provider \in LlmProvider /\ Named(bound[r].model)
    BY <1>4, <2>1
  <2> QED
    BY <2>2, <2>3, EnvelopeKeeps
<1> HIDE DEF bound
<1> QED
  BY <1>3, <1>5 DEF Refused

-----------------------------------------------------------------------------
(* The suite and the check. *)

Place == {"idle", "manifest", "factory", "remove", "serve", "return", "state", "sources", "ok",
          "findings", "raised", "lacks-a-package"}
End == {"state", "raised", "lacks-a-package"}   \* how the surface may end
Status == {"passed", "failed", "skipped", "unavailable"}

(* The fields of the two records; what the report holds is left open.      *)
Shaped(s) ==
  s = [at |-> s.at, then |-> s.then, advisory |-> s.advisory, absolute |-> s.absolute,
       web |-> s.web, surfaces |-> s.surfaces,
       report |-> [findings |-> s.report.findings, migration |-> s.report.migration,
                   notes |-> s.report.notes, passed |-> s.report.passed],
       ran |-> s.ran]
SuiteShape ==
  /\ Shaped(suite) /\ suite.at \in Place
  /\ suite.at = "return" => suite.then \in End
CheckShape ==
  /\ check = [at |-> check.at, python |-> check.python, web |-> check.web, stages |-> check.stages]
  /\ check.at \in {"idle", "over"} \cup ToSet(Stage) /\ check.stages \in Seq(Status)
  /\ check.at = "validate" => Len(check.stages) = 0
  /\ check.at = "conformance" => Len(check.stages) = 1
  /\ check.at = "tests" => Len(check.stages) = 2
  /\ check.at = "over" => Len(check.stages) = 3

(* A suite that has begun and is not over is the author's, or that of the  *)
(* conformance stage, which starts it after a manifest that passed.        *)
WhoseSuite ==
  /\ check.at = "validate" => suite.at = "idle"
  /\ check.at \notin {"idle", "conformance"} => suite.at \in Over
  /\ check.at = "conformance" /\ suite.at # "idle" =>
       StageRuns /\ check.stages[1] = "passed" /\ suite.absolute = TRUE

(* From the first secret that is taken out to the last that is put back,   *)
(* those that are missing are in the suite's hands; elsewhere it has none, *)
(* and the shell has what it was given, unless an interrupt cut a suite of *)
(* the author's off in between.                                            *)
Lending == suite.at \in {"remove", "serve", "return"} /\ InShell
ShellInv ==
  /\ shell = [given |-> shell.given, present |-> shell.present, removed |-> shell.removed,
              cut |-> shell.cut]
  /\ Lending => shell.present \cup shell.removed = shell.given
  /\ suite.at = "serve" /\ InShell => shell.present = {}
  /\ ~Lending => /\ shell.removed = {}
                 /\ \/ shell.present = shell.given
                    \/ shell.cut /\ (suite.at \in Over \/ ~InShell)

GateInv ==
  kit \in Kits \cup Editions /\ SuiteShape /\ CheckShape /\ WhoseSuite /\ ShellInv

LEMMA StageSet == ToSet(Stage) = {"validate", "conformance", "tests"}
<1>1. DOMAIN Stage = 1..3 /\ Stage[1] = "validate" /\ Stage[2] = "conformance" /\ Stage[3] = "tests"
  BY DEF Stage
<1> QED
  BY <1>1 DEF ToSet

LEMMA AfterStage ==
  After("validate") = "conformance" /\ After("conformance") = "tests" /\ After("tests") = "over"
<1>1. Stage[1] = "validate" /\ Stage[2] = "conformance" /\ Stage[3] = "tests"
  BY DEF Stage
<1>2. \A i \in 2..3 : /\ Stage[i - 1] = "validate" <=> i = 2
                    /\ Stage[i - 1] = "conformance" <=> i = 3
  BY <1>1
<1>3. (CHOOSE i \in 2..3 : Stage[i - 1] = "validate") = 2
  BY <1>2
<1>4. (CHOOSE i \in 2..3 : Stage[i - 1] = "conformance") = 3
  BY <1>2
<1> QED
  BY <1>1, <1>3, <1>4 DEF After

LEMMA GateStarts == Init => GateInv
<1> SUFFICES ASSUME Init PROVE GateInv
  OBVIOUS
<1> USE DEF Init
<1>1. SuiteShape /\ suite.at = "idle"
  BY DEF SuiteShape, Shaped, Fresh, NoReport, Place
<1>2. CheckShape /\ check.at = "idle"
  BY DEF CheckShape, NoCheck
<1>3. ShellInv
  BY <1>1 DEF ShellInv, Lending
<1> QED
  BY <1>1, <1>2, <1>3 DEF GateInv, WhoseSuite, Over

(* What a part of the kit must be for its checks to find nothing.          *)
DocPart(k) ==
  IsDoc(k) /\ Lint(k.doc) = {} /\ ManifestFindings(k.doc) = {} /\ LiveCommandFindings(k.doc) = {}
SurfacePart(k) ==
  HasLive(k.doc) =>
    /\ ~ImportRaises(k.companion) /\ Importable(k.companion) /\ ~BuildRaises(k.companion)
    /\ ServeFindings(k.companion) = {} /\ ~(Len(k.doc.live) > 1)
StatePart(k) ==
  k.state # "none" => k.state # "broken" /\ k.payloads # <<>> /\ AnchorsFindings(k.payloads) = {}
SourcePart(k, absolute) == TypeFindings(k, absolute) = {} /\ LegacyFindings(k, absolute) = {}

(* How a step of the suite changes its record.                             *)
Goes(s, u) ==
  /\ Shaped(u) /\ u.absolute = s.absolute
  /\ s.report.findings \subseteq u.report.findings /\ s.report.notes \subseteq u.report.notes
Like(s, u) ==
  /\ Shaped(u) /\ u.at = s.at /\ u.absolute = s.absolute /\ u.surfaces = s.surfaces
  /\ u.report.migration = s.report.migration

LEMMA Arrives ==
  ASSUME NEW s, Shaped(s), NEW x, NEW u, u = [s EXCEPT !.at = x]
  PROVE  /\ Shaped(u) /\ u.at = x /\ u.absolute = s.absolute /\ u.surfaces = s.surfaces
         /\ u.report = s.report /\ u.then = s.then
<1>1. u = [at |-> x, then |-> s.then, advisory |-> s.advisory, absolute |-> s.absolute, web |-> s.web,
            surfaces |-> s.surfaces, report |-> s.report, ran |-> s.ran]
  BY DEF Shaped
<1>2. s.report = [findings |-> s.report.findings, migration |-> s.report.migration,
                  notes |-> s.report.notes, passed |-> s.report.passed]
  BY DEF Shaped
<1> QED
  BY <1>1, <1>2 DEF Shaped
LEMMA Counts ==
  ASSUME NEW s, Shaped(s), NEW n, NEW u, u = [s EXCEPT !.surfaces = n]
  PROVE  /\ Shaped(u) /\ u.at = s.at /\ u.absolute = s.absolute /\ u.surfaces = n
         /\ u.report = s.report
<1>1. u = [at |-> s.at, then |-> s.then, advisory |-> s.advisory, absolute |-> s.absolute, web |-> s.web,
            surfaces |-> n, report |-> s.report, ran |-> s.ran]
  BY DEF Shaped
<1>2. s.report = [findings |-> s.report.findings, migration |-> s.report.migration,
                  notes |-> s.report.notes, passed |-> s.report.passed]
  BY DEF Shaped
<1> QED
  BY <1>1, <1>2 DEF Shaped
LEMMA Ends ==
  ASSUME NEW s, Shaped(s), NEW then, NEW u, u = Ended(s, then)
  PROVE  /\ Shaped(u) /\ u.at = "return" /\ u.then = then /\ u.absolute = s.absolute
         /\ u.surfaces = s.surfaces /\ u.report = s.report
<1>1. u = [at |-> "return", then |-> then, advisory |-> s.advisory, absolute |-> s.absolute,
            web |-> s.web, surfaces |-> s.surfaces, report |-> s.report, ran |-> s.ran]
  BY DEF Shaped, Ended
<1>2. s.report = [findings |-> s.report.findings, migration |-> s.report.migration,
                  notes |-> s.report.notes, passed |-> s.report.passed]
  BY DEF Shaped
<1> QED
  BY <1>1, <1>2 DEF Shaped
LEMMA Finds ==
  ASSUME NEW s, Shaped(s), NEW fs
  PROVE  /\ Like(s, Find(s, fs)) /\ Find(s, fs).report.notes = s.report.notes
         /\ Find(s, fs).report.findings = s.report.findings \cup fs
  BY DEF Shaped, Find, Like
LEMMA Notes ==
  ASSUME NEW s, Shaped(s), NEW n
  PROVE  /\ Like(s, Note(s, n)) /\ Note(s, n).report.notes = s.report.notes \cup {n}
         /\ Note(s, n).report.findings = s.report.findings
  BY DEF Shaped, Note, Like
LEMMA Claims ==
  ASSUME NEW s, Shaped(s), NEW c
  PROVE  /\ Like(s, Claim(s, c)) /\ Claim(s, c).report.notes = s.report.notes
         /\ Claim(s, c).report.findings = s.report.findings
  BY DEF Shaped, Claim, Like

LEMMA Migrates ==
  ASSUME NEW s, Shaped(s), NEW ms
  PROVE  LET u == [s EXCEPT !.report.migration = ms] IN
         /\ Shaped(u) /\ u.absolute = s.absolute /\ u.report.migration = ms
         /\ u.report.findings = s.report.findings /\ u.report.notes = s.report.notes
  BY DEF Shaped

LEMMA ManifestRead ==
  ASSUME SuiteShape, ReadManifest
  PROVE  /\ suite.at = "manifest" /\ Goes(suite, suite') /\ shell' = shell
         /\ \/ suite'.at = "findings" /\ ~IsDoc(kit)
            \/ /\ suite'.at = IF HasLive(kit.doc) THEN "factory" ELSE "state"
               /\ suite'.surfaces = Len(kit.doc.live)
               /\ suite'.report.findings = {} => DocPart(kit)
<1> DEFINE doc == kit.doc
           declared == ManifestFindings(doc) \cup LiveCommandFindings(doc)
           s1 == IF Lint(doc) # {} THEN Find(suite, {"lint"}) ELSE Claim(suite, "lint")
           s2 == IF HasLive(doc) /\ declared = {} THEN Claim(s1, "live-surface-declared")
                 ELSE Find(s1, declared)
           s3 == Find(suite, {"no-manifest"})
<1>1. /\ suite.at = "manifest" /\ shell' = shell
      /\ suite' = IF ~IsDoc(kit) THEN [s3 EXCEPT !.at = "findings"]
                  ELSE [s2 EXCEPT !.surfaces = Len(doc.live),
                                  !.at = IF HasLive(doc) THEN "factory" ELSE "state"]
  BY DEF ReadManifest
<1>2. Shaped(suite)
  BY DEF SuiteShape
<1>3. /\ Like(suite, s1) /\ suite.report.findings \subseteq s1.report.findings
      /\ s1.report.notes = suite.report.notes
      /\ s1.report.findings = {} => Lint(doc) = {}
  BY <1>2, Finds, Claims
<1>4. /\ Like(s1, s2) /\ s1.report.findings \subseteq s2.report.findings
      /\ s2.report.notes = s1.report.notes
      /\ s2.report.findings = {} => declared = {}
  <2> HIDE DEF s1, declared
  <2>1. Shaped(s1)
    BY <1>3 DEF Like
  <2> QED
    BY <2>1, Finds, Claims
<1>5. Like(suite, s3) /\ suite.report.findings \subseteq s3.report.findings
        /\ s3.report.notes = suite.report.notes
  BY <1>2, Finds
<1> HIDE DEF s1, s2, s3
<1>6. CASE ~IsDoc(kit)
  <2>1. suite' = [s3 EXCEPT !.at = "findings"]
    BY <1>1, <1>6
  <2>2. Shaped(s3)
    BY <1>5 DEF Like
  <2>3. /\ Shaped(suite') /\ suite'.at = "findings" /\ suite'.absolute = s3.absolute
        /\ suite'.report = s3.report
    BY <2>1, <2>2, Arrives
  <2> QED
    BY <1>1, <1>5, <1>6, <2>3 DEF Like, Goes
<1>7. CASE IsDoc(kit)
  <2> DEFINE place == IF HasLive(doc) THEN "factory" ELSE "state"
  <2>1. suite' = [s2 EXCEPT !.surfaces = Len(doc.live), !.at = place]
    BY <1>1, <1>7
  <2>2. Shaped(s2)
    BY <1>4 DEF Like
  <2> HIDE DEF place
  <2> DEFINE parts == Len(doc.live)
  <2>3. suite' = [s2 EXCEPT !.surfaces = parts, !.at = place]
    BY <2>1
  <2> HIDE DEF parts
  <2>4. /\ Shaped(suite') /\ suite'.at = place /\ suite'.surfaces = parts
        /\ suite'.absolute = s2.absolute /\ suite'.report = s2.report
    <3> DEFINE s4 == [s2 EXCEPT !.surfaces = parts]
    <3>1. /\ Shaped(s4) /\ s4.at = s2.at /\ s4.absolute = s2.absolute /\ s4.surfaces = parts
          /\ s4.report = s2.report
      BY <2>2, Counts
    <3>2. suite' = [s4 EXCEPT !.at = place]
      BY <2>3
    <3> HIDE DEF s4
    <3> QED
      BY <3>1, <3>2, Arrives
  <2>5. s2.report.findings = {} => DocPart(kit)
    <3>1. declared = {} => ManifestFindings(doc) = {} /\ LiveCommandFindings(doc) = {}
      OBVIOUS
    <3>2. s2.report.findings = {} => s1.report.findings = {}
      BY <1>4
    <3> QED
      BY <1>3, <1>4, <1>7, <3>1, <3>2, Zenon DEF DocPart
  <2>6. Goes(suite, suite')
    <3>1. suite'.absolute = suite.absolute
      BY <1>3, <1>4, <2>4 DEF Like
    <3>2. /\ suite.report.findings \subseteq s2.report.findings
          /\ suite.report.notes = s2.report.notes
      BY <1>3, <1>4, Zenon
    <3> QED
      BY <2>4, <3>1, <3>2 DEF Goes
  <2> QED
    BY <1>1, <2>4, <2>5, <2>6 DEF place, parts
<1> QED
  BY <1>6, <1>7

LEMMA FactoryImported ==
  ASSUME SuiteShape, ImportFactory
  PROVE  /\ suite.at = "factory" /\ Goes(suite, suite')
         /\ suite'.at \in {"raised", "state", "remove"} /\ shell' = shell
         /\ suite'.at = "state" =>
              suite'.report.findings # {} \/ "not-installed" \in suite'.report.notes
         /\ suite'.at = "remove" =>
              /\ Importable(kit.companion) /\ ~ImportRaises(kit.companion)
              /\ suite'.surfaces = suite.surfaces
              /\ suite.surfaces > 1 => "only-the-first" \in suite'.report.notes
<1>1. Shaped(suite) /\ suite.at = "factory"
  BY DEF SuiteShape, ImportFactory
<1>2. shell' = shell
  BY DEF ImportFactory
<1> DEFINE lost == Find(suite, {"factory-not-importable"})
           bare == Claimed(Note(suite, "not-installed"))
           first == IF suite.surfaces > 1 THEN Note(suite, "only-the-first") ELSE suite
<1>3. suite' =
        IF ImportRaises(kit.companion) THEN [suite EXCEPT !.at = "raised"]
        ELSE IF ~Importable(kit.companion) THEN [lost EXCEPT !.at = "state"]
        ELSE IF ~suite.web THEN [bare EXCEPT !.at = "state"] ELSE [first EXCEPT !.at = "remove"]
  BY DEF ImportFactory
<1>4. /\ Like(suite, lost) /\ lost.report.notes = suite.report.notes
      /\ lost.report.findings = suite.report.findings \cup {"factory-not-importable"}
  BY <1>1, Finds
<1>5. /\ Like(suite, bare) /\ bare.report.findings = suite.report.findings
      /\ bare.report.notes = suite.report.notes \cup {"not-installed"}
  <2> DEFINE noted == Note(suite, "not-installed")
  <2>1. /\ Like(suite, noted) /\ noted.report.notes = suite.report.notes \cup {"not-installed"}
        /\ noted.report.findings = suite.report.findings
    BY <1>1, Notes
  <2> HIDE DEF noted
  <2>2. Shaped(noted)
    BY <2>1 DEF Like
  <2>3. /\ Like(noted, Claimed(noted)) /\ Claimed(noted).report.notes = noted.report.notes
        /\ Claimed(noted).report.findings = noted.report.findings
    BY <2>2, Claims DEF Claimed
  <2>4. bare = Claimed(noted)
    BY DEF noted
  <2> HIDE DEF bare
  <2> QED
    BY <2>1, <2>3, <2>4 DEF Like
<1>6. /\ Like(suite, first) /\ first.report.findings = suite.report.findings
      /\ suite.report.notes \subseteq first.report.notes
      /\ suite.surfaces > 1 => "only-the-first" \in first.report.notes
  <2>1. Like(suite, suite)
    BY <1>1 DEF Like
  <2> QED
    BY <1>1, <2>1, Notes
<1> HIDE DEF lost, bare, first
<1>7. CASE ImportRaises(kit.companion)
  <2>1. suite' = [suite EXCEPT !.at = "raised"]
    BY <1>3, <1>7
  <2>2. Shaped(suite') /\ suite'.at = "raised" /\ suite'.absolute = suite.absolute
          /\ suite'.report = suite.report
    BY <1>1, <2>1, Arrives
  <2> QED
    BY <1>1, <1>2, <2>2 DEF Goes
<1>8. CASE ~ImportRaises(kit.companion) /\ ~Importable(kit.companion)
  <2>1. suite' = [lost EXCEPT !.at = "state"] /\ Shaped(lost)
    BY <1>3, <1>4, <1>8 DEF Like
  <2>2. Shaped(suite') /\ suite'.at = "state" /\ suite'.absolute = lost.absolute
          /\ suite'.report = lost.report
    BY <2>1, Arrives
  <2> QED
    BY <1>1, <1>2, <1>4, <2>2 DEF Goes, Like
<1>9. CASE ~ImportRaises(kit.companion) /\ Importable(kit.companion) /\ ~suite.web
  <2>1. suite' = [bare EXCEPT !.at = "state"] /\ Shaped(bare)
    BY <1>3, <1>5, <1>9 DEF Like
  <2>2. Shaped(suite') /\ suite'.at = "state" /\ suite'.absolute = bare.absolute
          /\ suite'.report = bare.report
    BY <2>1, Arrives
  <2> QED
    BY <1>1, <1>2, <1>5, <2>2 DEF Goes, Like
<1>10. CASE ~ImportRaises(kit.companion) /\ Importable(kit.companion) /\ suite.web
  <2>1. suite' = [first EXCEPT !.at = "remove"] /\ Shaped(first)
    BY <1>3, <1>6, <1>10 DEF Like
  <2>2. Shaped(suite') /\ suite'.at = "remove" /\ suite'.absolute = first.absolute
          /\ suite'.report = first.report /\ suite'.surfaces = first.surfaces
    BY <2>1, Arrives
  <2> QED
    BY <1>1, <1>2, <1>6, <1>10, <2>2 DEF Goes, Like
<1> QED
  BY <1>7, <1>8, <1>9, <1>10

(* A secret taken out or put back, or the last of them.                    *)
LEMMA SecretRemoved ==
  ASSUME SuiteShape, RemoveSecret
  PROVE  /\ suite.at = "remove" /\ Goes(suite, suite')
         /\ suite'.at \in {"remove", "serve"} /\ suite'.surfaces = suite.surfaces
         /\ \/ /\ suite'.at = "remove" /\ InShell
               /\ \E name \in shell.present :
                    shell' = [shell EXCEPT !.present = @ \ {name}, !.removed = @ \cup {name}]
            \/ suite'.at = "serve" /\ shell' = shell /\ (InShell => shell.present = {})
<1>1. Shaped(suite) /\ suite.at = "remove"
  BY DEF SuiteShape, RemoveSecret
<1>2. CASE InShell /\ shell.present # {}
  <2>1. /\ suite' = suite
        /\ \E name \in shell.present :
             shell' = [shell EXCEPT !.present = @ \ {name}, !.removed = @ \cup {name}]
    BY <1>2, Zenon DEF RemoveSecret
  <2>2. Goes(suite, suite')
    BY <1>1, <2>1 DEF Goes, Shaped
  <2> QED
    BY <1>1, <1>2, <2>1, <2>2
<1>3. CASE ~(InShell /\ shell.present # {})
  <2>1. suite' = [suite EXCEPT !.at = "serve"] /\ shell' = shell
    BY <1>3, Zenon DEF RemoveSecret
  <2>2. /\ Shaped(suite') /\ suite'.at = "serve" /\ suite'.absolute = suite.absolute
        /\ suite'.surfaces = suite.surfaces /\ suite'.report = suite.report
    BY <1>1, <2>1, Arrives
  <2> QED
    BY <1>1, <1>3, <2>1, <2>2 DEF Goes
<1> QED
  BY <1>2, <1>3

LEMMA SecretReturned ==
  ASSUME SuiteShape, ReturnSecret
  PROVE  /\ suite.at = "return" /\ Goes(suite, suite') /\ suite'.report = suite.report
         /\ suite'.at \in {"return"} \cup End /\ suite'.then = suite.then
         /\ \/ /\ suite'.at = "return"
               /\ \E name \in shell.removed :
                    shell' = [shell EXCEPT !.present = @ \cup {name}, !.removed = @ \ {name}]
            \/ suite'.at = suite.then /\ shell' = shell /\ shell.removed = {}
<1>1. Shaped(suite) /\ suite.at = "return" /\ suite.then \in End
  BY DEF SuiteShape, ReturnSecret
<1>2. CASE shell.removed # {}
  <2>1. /\ suite' = suite
        /\ \E name \in shell.removed :
             shell' = [shell EXCEPT !.present = @ \cup {name}, !.removed = @ \ {name}]
    BY <1>2, Zenon DEF ReturnSecret
  <2>2. Goes(suite, suite')
    BY <1>1, <2>1 DEF Goes, Shaped
  <2> QED
    BY <1>1, <2>1, <2>2
<1>3. CASE shell.removed = {}
  <2> DEFINE x == suite.then
  <2>1. suite' = [suite EXCEPT !.at = x] /\ shell' = shell
    BY <1>3, Zenon DEF ReturnSecret
  <2>2. /\ Shaped(suite') /\ suite'.at = x /\ suite'.absolute = suite.absolute
        /\ suite'.report = suite.report /\ suite'.then = suite.then
    BY <1>1, <2>1, Arrives
  <2> QED
    BY <1>1, <1>3, <2>1, <2>2 DEF Goes
<1> QED
  BY <1>2, <1>3

LEMMA SurfaceServed ==
  ASSUME SuiteShape, Serve
  PROVE  /\ suite.at = "serve" /\ Goes(suite, suite') /\ shell' = shell
         /\ suite'.at = "return" /\ suite'.then \in End
         /\ suite'.then = "state" /\ suite'.report.findings = {} =>
              ~BuildRaises(kit.companion) /\ ServeFindings(kit.companion) = {}
<1> DEFINE fs == ServeFindings(kit.companion)
           s == [suite EXCEPT !.ran = IF BuildFinding(kit.companion) = {} THEN @ \cup {"served"}
                                      ELSE @]
           done == IF fs = {} THEN Claimed(s) ELSE Find(s, fs)
<1>1. Shaped(suite) /\ suite.at = "serve"
  BY DEF SuiteShape, Serve
<1>2. shell' = shell
  BY DEF Serve
<1>3. suite' =
        IF kit.companion.factory = "raises" THEN Ended(suite, "raised")
        ELSE IF kit.companion.factory = "lacks-a-package" THEN Ended(suite, "lacks-a-package")
        ELSE Ended(done, "state")
  BY DEF Serve
<1>4. Like(suite, s) /\ s.report = suite.report
  BY <1>1 DEF Shaped, Like
<1>5. /\ Like(s, done) /\ done.report.notes = s.report.notes
      /\ done.report.findings = s.report.findings \cup fs
  <2>1. Shaped(s)
    BY <1>4 DEF Like
  <2> HIDE DEF s
  <2>2. CASE fs = {}
    BY <2>1, <2>2, Claims DEF Claimed
  <2>3. CASE fs # {}
    BY <2>1, <2>3, Finds
  <2> QED
    BY <2>2, <2>3
<1> HIDE DEF s, done
<1>6. CASE kit.companion.factory \in {"raises", "lacks-a-package"}
  <2>1. PICK x \in {"raised", "lacks-a-package"} : suite' = Ended(suite, x)
    BY <1>3, <1>6
  <2>2. /\ Shaped(suite') /\ suite'.at = "return" /\ suite'.then = x
        /\ suite'.absolute = suite.absolute /\ suite'.report = suite.report
    BY <1>1, <2>1, Ends
  <2> QED
    BY <1>1, <1>2, <2>2 DEF Goes, End
<1>7. CASE kit.companion.factory \notin {"raises", "lacks-a-package"}
  <2>1. suite' = Ended(done, "state") /\ Shaped(done)
    BY <1>3, <1>5, <1>7 DEF Like
  <2>2. /\ Shaped(suite') /\ suite'.at = "return" /\ suite'.then = "state"
        /\ suite'.absolute = done.absolute /\ suite'.report = done.report
    BY <2>1, Ends
  <2>3. Goes(suite, suite')
    BY <1>4, <1>5, <2>2 DEF Goes, Like
  <2>4. suite'.report.findings = {} => fs = {}
    BY <1>5, <2>2
  <2> QED
    BY <1>1, <1>2, <1>7, <2>2, <2>3, <2>4 DEF BuildRaises, End
<1> QED
  BY <1>6, <1>7

LEMMA AnchorsDone ==
  ASSUME SuiteShape, Anchors
  PROVE  /\ suite.at = "state" /\ suite'.at = "sources" /\ Goes(suite, suite') /\ shell' = shell
         /\ suite'.report.findings = {} => StatePart(kit)
<1> DEFINE fs == AnchorsFindings(kit.payloads)
           s == IF Skips(kit.payloads) THEN Note(suite, "round-trip-skipped") ELSE suite
           probed == IF fs = {} THEN Claim(s, "anchors-write") ELSE Find(s, fs)
           done == IF kit.state = "none" THEN Note(suite, "stateless")
                   ELSE IF kit.state = "broken" THEN Find(suite, {"state-module-failed-to-import"})
                   ELSE IF kit.payloads = <<>> THEN Find(suite, {"no-anchors-payload"})
                   ELSE probed
<1>1. Shaped(suite) /\ suite.at = "state" /\ shell' = shell
  BY DEF SuiteShape, Anchors
<1>2. suite' = [done EXCEPT !.at = "sources"]
  BY DEF Anchors
<1>3. /\ Like(suite, s) /\ s.report.findings = suite.report.findings
      /\ suite.report.notes \subseteq s.report.notes
  <2>1. Like(suite, suite)
    BY <1>1 DEF Like
  <2> QED
    BY <1>1, <2>1, Notes
<1>4. /\ Like(suite, probed) /\ suite.report.findings \subseteq probed.report.findings
      /\ suite.report.notes \subseteq probed.report.notes
      /\ probed.report.findings = {} => fs = {}
  <2> HIDE DEF s, fs
  <2>1. Shaped(s)
    BY <1>3 DEF Like
  <2>2. /\ Like(s, probed) /\ s.report.findings \subseteq probed.report.findings
        /\ probed.report.notes = s.report.notes
        /\ probed.report.findings = {} => fs = {}
    BY <2>1, Finds, Claims
  <2> HIDE DEF probed
  <2> QED
    BY <1>3, <2>2 DEF Like
<1> HIDE DEF probed, fs
<1>5. /\ Like(suite, done) /\ suite.report.findings \subseteq done.report.findings
      /\ suite.report.notes \subseteq done.report.notes
      /\ done.report.findings = {} => StatePart(kit)
  <2>1. CASE kit.state = "none"
    <3>1. done = Note(suite, "stateless") /\ StatePart(kit)
      BY <2>1 DEF StatePart
    <3> HIDE DEF done
    <3> QED
      BY <1>1, <3>1, Notes
  <2>2. CASE kit.state = "broken"
    <3>1. done = Find(suite, {"state-module-failed-to-import"})
      BY <2>2
    <3> HIDE DEF done
    <3> QED
      BY <1>1, <3>1, Finds
  <2>3. CASE kit.state \notin {"none", "broken"} /\ kit.payloads = <<>>
    <3>1. done = Find(suite, {"no-anchors-payload"})
      BY <2>3
    <3> HIDE DEF done
    <3> QED
      BY <1>1, <3>1, Finds
  <2>4. CASE kit.state \notin {"none", "broken"} /\ kit.payloads # <<>>
    <3>1. done = probed
      BY <2>4
    <3>2. fs = {} => StatePart(kit)
      BY <2>4 DEF StatePart, fs
    <3> HIDE DEF done
    <3> QED
      BY <1>4, <3>1, <3>2
  <2> QED
    BY <2>1, <2>2, <2>3, <2>4
<1> HIDE DEF done
<1>6. Shaped(done)
  BY <1>5 DEF Like
<1>7. Shaped(suite') /\ suite'.at = "sources" /\ suite'.absolute = done.absolute
        /\ suite'.report = done.report
  BY <1>2, <1>6, Arrives
<1> QED
  BY <1>1, <1>5, <1>7 DEF Goes, Like

LEMMA SourcesScanned ==
  ASSUME SuiteShape, Scan
  PROVE  /\ suite.at = "sources" /\ suite'.at \in {"ok", "findings"} /\ Goes(suite, suite')
         /\ shell' = shell
         /\ suite'.at = "ok" => suite'.report.findings = {}
         /\ suite'.at = "ok" \/ suite'.report.migration = {} => SourcePart(kit, suite.absolute)
<1> DEFINE types == TypeFindings(kit, suite.absolute)
           legacy == LegacyFindings(kit, suite.absolute)
           s1 == [suite EXCEPT !.report.migration = @ \cup types \cup legacy]
           s2 == IF AllTypes(kit, suite.absolute) = {} THEN Note(s1, "no-type-named")
                 ELSE IF types = {} THEN Claim(s1, "types-known") ELSE s1
           s3 == IF legacy = {} THEN Claim(s2, "no-deprecated-endpoint") ELSE s2
<1>1. Shaped(suite) /\ suite.at = "sources" /\ shell' = shell
  BY DEF SuiteShape, Scan
<1>2. suite' = [s3 EXCEPT !.at = Verdict(s3.report)]
  BY DEF Scan
<1> HIDE DEF types, legacy
<1>3. /\ Shaped(s1) /\ s1.absolute = suite.absolute
      /\ s1.report.findings = suite.report.findings /\ s1.report.notes = suite.report.notes
      /\ s1.report.migration = suite.report.migration \cup types \cup legacy
  <2> DEFINE ms == suite.report.migration \cup types \cup legacy
  <2>1. s1 = [suite EXCEPT !.report.migration = ms]
    OBVIOUS
  <2> HIDE DEF s1, ms
  <2>2. /\ Shaped(s1) /\ s1.absolute = suite.absolute /\ s1.report.migration = ms
        /\ s1.report.findings = suite.report.findings /\ s1.report.notes = suite.report.notes
    BY <1>1, <2>1, Migrates
  <2> QED
    BY <2>2 DEF ms
<1>4. /\ Like(s1, s2) /\ s2.report.findings = s1.report.findings
      /\ s1.report.notes \subseteq s2.report.notes
  <2> HIDE DEF s1
  <2>1. Like(s1, s1)
    BY <1>3 DEF Like
  <2> QED
    BY <1>3, <2>1, Notes, Claims
<1>5. /\ Like(s2, s3) /\ s3.report.findings = s2.report.findings
      /\ s3.report.notes = s2.report.notes
  <2> HIDE DEF s2
  <2>1. Like(s2, s2)
    BY <1>4 DEF Like
  <2> QED
    BY <2>1, <1>4, Claims DEF Like
<1> HIDE DEF s1, s2, s3
<1>6. Shaped(s3)
  BY <1>5 DEF Like
<1> DEFINE place == Verdict(s3.report)
<1>7. suite' = [s3 EXCEPT !.at = place]
  BY <1>2
<1>8. /\ place \in {"ok", "findings"}
      /\ place = "ok" => s3.report.findings = {} /\ s3.report.migration = {}
  BY DEF Verdict
<1> HIDE DEF place
<1>9. Shaped(suite') /\ suite'.at = place /\ suite'.absolute = s3.absolute
        /\ suite'.report = s3.report
  BY <1>6, <1>7, Arrives
<1>10. suite'.at = "ok" \/ suite'.report.migration = {} => types = {} /\ legacy = {}
  BY <1>3, <1>4, <1>5, <1>8, <1>9 DEF Like
<1>11. Goes(suite, suite')
  BY <1>3, <1>4, <1>5, <1>9 DEF Like, Goes
<1> QED
  BY <1>1, <1>8, <1>9, <1>10, <1>11 DEF SourcePart, types, legacy

(* Each stage appends its status and gives way to the next.                *)
LEMMA StageEnds ==
  ASSUME CheckShape, check.at \in ToSet(Stage), NEW status \in Status, Result(status)
  PROVE  /\ CheckShape' /\ check'.python = check.python
         /\ check.at = "validate" =>
              check'.at = "conformance" /\ check'.stages[1] = status
         /\ check.at = "conformance" =>
              check'.at = "tests" /\ check'.stages[1] = check.stages[1] /\ check'.stages[2] = status
         /\ check.at = "tests" =>
              check'.at = "over" /\ check'.stages[2] = check.stages[2] /\ check'.stages[3] = status
<1> DEFINE next == After(check.at)
           more == Append(check.stages, status)
<1>1. /\ check = [at |-> check.at, python |-> check.python, web |-> check.web,
                  stages |-> check.stages]
      /\ check' = [check EXCEPT !.stages = more, !.at = next]
  BY DEF CheckShape, Result
<1>2. /\ check.at = "validate" => next = "conformance"
      /\ check.at = "conformance" => next = "tests"
      /\ check.at = "tests" => next = "over"
  BY AfterStage
<1>3. check.stages \in Seq(Status)
  BY DEF CheckShape
<1>4. /\ more \in Seq(Status) /\ Len(more) = Len(check.stages) + 1
      /\ more[Len(check.stages) + 1] = status
      /\ \A i \in 1..Len(check.stages) : more[i] = check.stages[i]
  BY <1>3
<1>5. /\ check.at = "validate" => Len(check.stages) = 0
      /\ check.at = "conformance" => Len(check.stages) = 1
      /\ check.at = "tests" => Len(check.stages) = 2
  BY DEF CheckShape
<1> HIDE DEF next, more
<1>6. check' = [at |-> next, python |-> check.python, web |-> check.web, stages |-> more]
  BY <1>1
<1>7. next \in {"conformance", "tests", "over"}
  BY <1>2, StageSet
<1>8. CheckShape'
  BY <1>2, <1>4, <1>5, <1>6, <1>7, StageSet DEF CheckShape
<1>9. check'.at = next /\ check'.python = check.python /\ check'.stages = more
  BY <1>6
<1>10. CASE check.at = "validate"
  BY <1>2, <1>4, <1>5, <1>8, <1>9, <1>10
<1>11. CASE check.at = "conformance"
  <2>1. Len(check.stages) = 1
    BY <1>5, <1>11, Zenon
  <2>2. more[1] = check.stages[1] /\ more[2] = status
    BY <1>4, <2>1
  <2> QED
    BY <1>2, <1>8, <1>9, <1>11, <2>2
<1>12. CASE check.at = "tests"
  BY <1>2, <1>4, <1>5, <1>8, <1>9, <1>12
<1> QED
  BY <1>10, <1>11, <1>12, StageSet

LEMMA SuiteStarts ==
  ASSUME NEW s, NEW advisory, NEW absolute, NEW web,
         s = [Fresh EXCEPT !.at = "manifest", !.advisory = advisory, !.absolute = absolute,
                           !.web = web]
  PROVE  Shaped(s) /\ s.at = "manifest" /\ s.absolute = absolute
  BY DEF Shaped, Fresh, NoReport

(* Every step of the suite.                                                *)
LEMMA SuiteMoves ==
  ASSUME SuiteShape, SuiteStep
  PROVE  /\ suite.at \in Place \ Over /\ Goes(suite, suite') /\ suite'.at \in Place
         /\ suite'.at = "return" => suite'.then \in End
<1> USE DEF Place, Over
<1>1. CASE ReadManifest
  BY <1>1, ManifestRead
<1>2. CASE ImportFactory
  BY <1>2, FactoryImported
<1>3. CASE Serve
  BY <1>3, SurfaceServed
<1>4. CASE Anchors
  BY <1>4, AnchorsDone
<1>5. CASE Scan
  BY <1>5, SourcesScanned
<1>6. CASE RemoveSecret
  BY <1>6, SecretRemoved
<1>7. CASE ReturnSecret
  BY <1>7, SecretReturned DEF SuiteShape, End
<1> QED
  BY <1>1, <1>2, <1>3, <1>4, <1>5, <1>6, <1>7 DEF SuiteStep

(* It lends the author's secrets from "remove" to "return", and what it    *)
(* has taken out it still has when it puts them back.                      *)
LEMMA SuiteLends ==
  ASSUME SuiteShape, ShellInv, SuiteStep, UNCHANGED check
  PROVE  ShellInv'
<1> USE DEF Over, End
<1>1. InShell' = InShell
  BY DEF InShell
<1>2. ASSUME shell' = shell, suite.at \notin {"remove", "serve", "return"} \cup Over,
             suite'.at \notin {"serve", "return"}
      PROVE  ShellInv'
  BY <1>1, <1>2 DEF ShellInv, Lending
<1>3. CASE ReadManifest
  BY <1>2, <1>3, ManifestRead
<1>4. CASE ImportFactory
  BY <1>2, <1>4, FactoryImported
<1>5. CASE RemoveSecret
  <2>1. ASSUME suite.at = "remove", suite'.at = "remove", InShell,
               NEW name \in shell.present,
               shell' = [shell EXCEPT !.present = @ \ {name}, !.removed = @ \cup {name}]
        PROVE  ShellInv'
    <3>1. shell' = [given |-> shell.given, present |-> shell.present \ {name},
                    removed |-> shell.removed \cup {name}, cut |-> shell.cut]
      BY <2>1 DEF ShellInv
    <3> QED
      BY <1>1, <2>1, <3>1 DEF ShellInv, Lending
  <2>2. ASSUME suite.at = "remove", suite'.at = "serve", shell' = shell,
               InShell => shell.present = {}
        PROVE  ShellInv'
    BY <1>1, <2>2 DEF ShellInv, Lending
  <2> QED
    BY <1>5, <2>1, <2>2, SecretRemoved
<1>6. CASE Serve
  <2>1. suite.at = "serve" /\ suite'.at = "return" /\ shell' = shell
    BY <1>6, SurfaceServed
  <2> QED
    BY <1>1, <2>1 DEF ShellInv, Lending
<1>7. CASE ReturnSecret
  <2>1. ASSUME suite.at = "return", suite'.at = "return",
               NEW name \in shell.removed,
               shell' = [shell EXCEPT !.present = @ \cup {name}, !.removed = @ \ {name}]
        PROVE  ShellInv'
    <3>1. shell' = [given |-> shell.given, present |-> shell.present \cup {name},
                    removed |-> shell.removed \ {name}, cut |-> shell.cut]
      BY <2>1 DEF ShellInv
    <3>2. Lending
      BY <2>1 DEF ShellInv
    <3> QED
      BY <1>1, <2>1, <3>1, <3>2 DEF ShellInv, Lending
  <2>2. ASSUME suite.at = "return", suite'.at \in End, shell' = shell, shell.removed = {}
        PROVE  ShellInv'
    BY <1>1, <2>2 DEF ShellInv, Lending
  <2>3. suite.then \in End /\ suite.at = "return"
    BY <1>7, SecretReturned DEF SuiteShape
  <2> QED
    BY <1>7, <2>1, <2>2, <2>3, SecretReturned
<1>8. CASE Anchors
  BY <1>2, <1>8, AnchorsDone
<1>9. CASE Scan
  <2>1. suite.at = "sources" /\ suite'.at \in {"ok", "findings"} /\ shell' = shell
    BY <1>9, SourcesScanned
  <2> QED
    BY <1>2, <2>1
<1> QED
  BY <1>3, <1>4, <1>5, <1>6, <1>7, <1>8, <1>9 DEF SuiteStep

(* A step of the suite, and a stage of the check that ends, leave the      *)
(* invariant; so do the steps that start or stop one.                      *)
LEMMA SuiteKeepsGate ==
  ASSUME GateInv, SuiteStep, UNCHANGED <<kit, edited, check, left>>
  PROVE  GateInv'
<1>1. /\ suite.at \in Place \ Over /\ Goes(suite, suite') /\ suite'.at \in Place
      /\ suite'.at = "return" => suite'.then \in End
      /\ kit' = kit /\ check' = check
  BY SuiteMoves DEF GateInv
<1>2. SuiteShape' /\ suite'.absolute = suite.absolute
  BY <1>1 DEF SuiteShape, Goes, Shaped
<1>3. CheckShape'
  BY <1>1 DEF GateInv, CheckShape
<1>4. check.at = "conformance" \/ check.at = "idle"
  BY <1>1 DEF GateInv, WhoseSuite
<1>5. WhoseSuite'
  BY <1>1, <1>2, <1>4 DEF GateInv, WhoseSuite, StageRuns, Over
<1>6. ShellInv'
  BY <1>1, SuiteLends DEF GateInv
<1> QED
  BY <1>1, <1>2, <1>3, <1>5, <1>6 DEF GateInv

LEMMA StageKeepsGate ==
  ASSUME GateInv, check.at \in ToSet(Stage), NEW status \in Status, Result(status),
         kit' = kit, shell' = shell,
         suite' = suite \/ suite' = [suite EXCEPT !.at = "raised"],
         check.at = "conformance" => suite'.at \in Over,
         check.at = "validate" => suite' = suite
  PROVE  GateInv'
<1>1. SuiteShape /\ Shaped(suite) /\ CheckShape
  BY DEF GateInv, SuiteShape
<1>2. SuiteShape' /\ (suite' # suite => suite'.at = "raised")
  <2>1. CASE suite' = suite
    BY <1>1, <2>1 DEF SuiteShape, Shaped
  <2>2. CASE suite' = [suite EXCEPT !.at = "raised"]
    <3>1. Shaped(suite') /\ suite'.at = "raised"
      BY <1>1, <2>2, Arrives
    <3> QED
      BY <3>1 DEF SuiteShape, Shaped, Place
  <2> QED
    BY <2>1, <2>2
<1>3. /\ CheckShape' /\ check'.at \in {"conformance", "tests", "over"}
      /\ check'.at = "conformance" => check.at = "validate"
  BY <1>1, StageEnds, StageSet
<1>4. suite'.at \in Over /\ (check.at = "validate" => suite.at = "idle")
  <2>1. check.at # "conformance" => suite.at \in Over
    BY StageSet DEF GateInv, WhoseSuite
  <2>2. check.at = "validate" => suite.at = "idle"
    BY DEF GateInv, WhoseSuite
  <2> QED
    BY <1>2, <2>1, <2>2 DEF Over
<1>5. WhoseSuite'
  BY <1>3, <1>4 DEF WhoseSuite, Over
<1>6. ~InShell
  BY StageSet DEF InShell
<1>7. ShellInv'
  BY <1>4, <1>6 DEF GateInv, ShellInv, Lending, Over
<1> QED
  BY <1>2, <1>3, <1>5, <1>7 DEF GateInv

LEMMA StartsKeepGate ==
  ASSUME GateInv,
         \/ \E advisory, absolute, web \in BOOLEAN : StartSuite(advisory, absolute, web)
         \/ \E python \in Pythons, valid, web \in BOOLEAN : StartCheck(valid, python, web)
         \/ Interrupt
         \/ StartConformance
  PROVE  GateInv'
<1> USE DEF Place, Over
<1>1. Shaped(suite) /\ suite.at \in Place
  BY DEF GateInv, SuiteShape
<1>2. ASSUME NEW advisory \in BOOLEAN, NEW absolute \in BOOLEAN, NEW web \in BOOLEAN,
             StartSuite(advisory, absolute, web)
      PROVE  GateInv'
  <2>1. /\ suite' = [Fresh EXCEPT !.at = "manifest", !.advisory = advisory,
                                  !.absolute = absolute, !.web = web]
        /\ check' = NoCheck /\ kit' = kit /\ suite.at \in Over /\ InShell
        /\ shell' = [shell EXCEPT !.given = shell.present, !.cut = FALSE]
    BY <1>2, Zenon DEF StartSuite
  <2>2. Shaped(suite') /\ suite'.at = "manifest"
    BY <2>1, SuiteStarts, Zenon
  <2>3. CheckShape' /\ check'.at = "idle"
    BY <2>1 DEF NoCheck, CheckShape
  <2>4. ShellInv'
    <3>1. shell' = [given |-> shell.present, present |-> shell.present,
                    removed |-> shell.removed, cut |-> FALSE]
      BY <2>1 DEF GateInv, ShellInv
    <3>2. shell.removed = {}
      BY <2>1 DEF GateInv, ShellInv, Lending
    <3> QED
      BY <2>2, <3>1, <3>2 DEF ShellInv, Lending
  <2>5. SuiteShape' /\ WhoseSuite'
    BY <2>2, <2>3 DEF SuiteShape, Shaped, WhoseSuite
  <2> QED
    BY <2>1, <2>3, <2>4, <2>5 DEF GateInv
<1>3. ASSUME NEW python \in Pythons, NEW valid \in BOOLEAN, NEW web \in BOOLEAN,
             StartCheck(valid, python, web)
      PROVE  GateInv'
  <2>1. suite' = Fresh /\ kit' = kit /\ shell' = shell /\ suite.at \in Over
    BY <1>3 DEF StartCheck
  <2>2. SuiteShape' /\ suite'.at = "idle"
    BY <2>1 DEF SuiteShape, Shaped, Fresh, NoReport
  <2>3. CheckShape' /\ check'.at \in {"validate", "over"}
    <3>1. CASE valid
      <4>1. check' = [at |-> "validate", python |-> python, web |-> web, stages |-> <<>>]
        BY <1>3, <3>1 DEF StartCheck
      <4> QED
        BY <4>1, StageSet DEF CheckShape
    <3>2. CASE ~valid
      <4> DEFINE none == [i \in 1..3 |-> "unavailable"]
      <4>1. check' = [at |-> "over", python |-> "ok", web |-> TRUE, stages |-> none]
        BY <1>3, <3>2 DEF StartCheck, NoCheck
      <4>2. none \in Seq(Status) /\ Len(none) = 3
        BY DEF Status
      <4> HIDE DEF none
      <4> QED
        BY <4>1, <4>2 DEF CheckShape
    <3> QED
      BY <3>1, <3>2
  <2>4. ShellInv' /\ WhoseSuite'
    BY <2>1, <2>2, <2>3 DEF GateInv, ShellInv, Lending, WhoseSuite
  <2> QED
    BY <2>1, <2>2, <2>3, <2>4 DEF GateInv
<1>4. CASE Interrupt
  <2>1. suite.at \notin Over /\ InShell /\ kit' = kit /\ check' = check /\ InShell' = InShell
    BY <1>4 DEF Interrupt, InShell
  <2>2. CheckShape' /\ check.at = "idle"
    BY <2>1 DEF GateInv, CheckShape, InShell, WhoseSuite
  <2>3. CASE suite.at = "serve"
    <3>1. suite' = Ended(suite, "raised") /\ shell' = shell
      BY <1>4, <2>3, Zenon DEF Interrupt
    <3>2. Shaped(suite') /\ suite'.at = "return" /\ suite'.then = "raised"
      BY <1>1, <3>1, Ends
    <3>3. ShellInv'
      BY <2>1, <2>3, <3>1, <3>2 DEF GateInv, ShellInv, Lending
    <3>4. SuiteShape' /\ WhoseSuite'
      BY <2>1, <2>2, <3>2 DEF SuiteShape, Shaped, WhoseSuite, End
    <3> QED
      BY <2>1, <2>2, <3>3, <3>4 DEF GateInv
  <2>4. CASE suite.at # "serve"
    <3> DEFINE lost == suite.at \in {"remove", "return"}
    <3>1. /\ suite' = [suite EXCEPT !.at = "raised"]
          /\ shell' = [shell EXCEPT !.removed = {}, !.cut = lost]
      BY <1>4, <2>4, Zenon DEF Interrupt
    <3>2. Shaped(suite') /\ suite'.at = "raised"
      BY <1>1, <3>1, Arrives
    <3>3. ShellInv'
      <4>1. shell' = [given |-> shell.given, present |-> shell.present, removed |-> {},
                      cut |-> lost]
        BY <3>1 DEF GateInv, ShellInv
      <4>2. lost \/ shell.present = shell.given
        BY <2>1, <2>4 DEF GateInv, ShellInv, Lending
      <4> HIDE DEF lost
      <4> QED
        BY <3>2, <4>1, <4>2 DEF ShellInv, Lending
    <3>4. SuiteShape' /\ WhoseSuite'
      BY <2>1, <2>2, <3>2 DEF SuiteShape, Shaped, WhoseSuite
    <3> QED
      BY <2>1, <2>2, <3>3, <3>4 DEF GateInv
  <2> QED
    BY <2>3, <2>4
<1>5. CASE StartConformance
  <2>1. /\ check.at = "conformance" /\ StageRuns /\ check.stages[1] = "passed"
        /\ kit' = kit /\ shell' = shell /\ check' = check /\ suite.at = "idle"
        /\ suite' = [Fresh EXCEPT !.at = "manifest", !.web = check.web]
    BY <1>5 DEF StartConformance
  <2>2. Shaped(suite') /\ suite'.at = "manifest" /\ suite'.absolute = TRUE
    BY <2>1 DEF Shaped, Fresh, NoReport
  <2>3. SuiteShape' /\ CheckShape'
    BY <2>1, <2>2 DEF GateInv, SuiteShape, Shaped, CheckShape
  <2>4. WhoseSuite' /\ ShellInv'
    BY <2>1, <2>2 DEF GateInv, WhoseSuite, ShellInv, Lending, InShell, StageRuns
  <2> QED
    BY <2>1, <2>3, <2>4 DEF GateInv
<1> QED
  BY <1>2, <1>3, <1>4, <1>5

LEMMA GateRests ==
  ASSUME GateInv, kit' \in Kits \cup Editions, UNCHANGED <<shell, suite, check>>
  PROVE  GateInv'
  BY DEF GateInv, SuiteShape, Shaped, CheckShape, WhoseSuite, StageRuns, ShellInv, Lending,
         InShell

LEMMA GateSteps ==
  ASSUME GateInv, [Next]_vars
  PROVE  GateInv'
<1>1. CASE UNCHANGED vars
  <2>1. kit' = kit /\ UNCHANGED <<shell, suite, check>>
    BY <1>1 DEF vars
  <2> QED
    BY <2>1, GateRests DEF GateInv
<1>2. CASE (\E line \in Line : ReadLine(line)) /\ Spend("line")
             /\ UNCHANGED <<kit, edited, shell, suite, check>>
  <2>1. kit' = kit /\ UNCHANGED <<shell, suite, check>>
    BY <1>2
  <2> QED
    BY <2>1, GateRests DEF GateInv
<1>3. CASE Command
  <2>1. CASE SuiteStep /\ UNCHANGED <<kit, edited, check, left>>
    BY <2>1, SuiteKeepsGate
  <2>2. CASE NoWorker
    <3>1. PICK status \in Status : Result(status)
      BY <2>2 DEF NoWorker, Status
    <3>2. /\ check.at \in ToSet(Stage) /\ ~StageRuns /\ kit' = kit /\ shell' = shell
          /\ suite' = suite
      BY <2>2 DEF NoWorker
    <3>3. check.at = "conformance" => suite'.at \in Over
      BY <3>2 DEF GateInv, WhoseSuite, Over
    <3> QED
      BY <3>1, <3>2, <3>3, StageKeepsGate
  <2>3. CASE Validate \/ SkipConformance \/ EndConformance \/ Tests
    <3>1. PICK status \in Status : Result(status)
      BY <2>3 DEF Validate, SkipConformance, EndConformance, Tests, SuiteStatus, TestStatus, Status
    <3>2. check.at \in ToSet(Stage) /\ kit' = kit /\ shell' = shell /\ suite' = suite
      BY <2>3, StageSet DEF Validate, SkipConformance, EndConformance, Tests
    <3>3. check.at = "conformance" => suite.at \in Over
      BY <2>3 DEF Validate, SkipConformance, EndConformance, Tests, GateInv, WhoseSuite, Over
    <3> QED
      BY <3>1, <3>2, <3>3, StageKeepsGate
  <2>4. CASE TimesOut
    <3>1. /\ check.at \in ToSet(Stage) /\ Result("failed") /\ "failed" \in Status
          /\ kit' = kit /\ shell' = shell
          /\ suite' = IF check.at = "conformance" THEN [suite EXCEPT !.at = "raised"] ELSE suite
      BY <2>4 DEF TimesOut, Status
    <3>2. check.at = "conformance" => suite'.at \in Over
      <4>1. Shaped(suite)
        BY DEF GateInv, SuiteShape
      <4> QED
        BY <3>1, <4>1, Arrives DEF Over
    <3> QED
      BY <3>1, <3>2, StageKeepsGate
  <2>5. CASE \E k \in Editions : EditKit(k)
    <3>1. kit' \in Editions /\ UNCHANGED <<shell, suite, check>>
      BY <2>5, Zenon DEF EditKit
    <3> QED
      BY <3>1, GateRests
  <2> QED
    BY <1>3, <2>1, <2>2, <2>3, <2>4, <2>5, StartsKeepGate, Zenon DEF Command
<1> QED
  BY <1>1, <1>2, <1>3, Zenon DEF Next

LEMMA GateHolds == Spec => []GateInv
  BY GateStarts, GateSteps, PTL DEF Spec

(* Whichever way the suite ends, at a factory that raises, at a package    *)
(* that is missing or at a Ctrl-C, the author's environment is whole again *)
(* (conformance.py:277), unless that Ctrl-C came while the secrets were    *)
(* being taken out, before the `try` that restores them, or being put      *)
(* back; and while the surface serves in the author's process it has none  *)
(* of them.                                                                *)
THEOREM SecretsComeBack == Spec => []SecretsLentBack
<1>1. GateInv => SecretsLentBack
  BY DEF GateInv, ShellInv, Lending, SecretsLentBack, Over
<1> QED
  BY <1>1, GateHolds, PTL

(* A role that the lint lets through is resolved at every setting of the   *)
(* switches, and reaches the adapter as it was resolved, whatever manifest *)
(* the author has and whatever the edits leave.                            *)
THEOREM LintedRolesAreResolved == Spec => []LintedRolesResolve
<1>1. GateInv => LintedRolesResolve
  BY LintIsEnough DEF GateInv
<1> QED
  BY <1>1, GateHolds, PTL

-----------------------------------------------------------------------------
(* What has been seen of the kit, wherever the suite and the check are, as *)
(* long as nobody edited it: each place of the suite knows the parts whose *)
(* reads lie behind it, unless something was found; the surface is known   *)
(* unless a note says that it was not looked at.                           *)
SuiteSaw ==
  /\ suite.at \in {"factory", "remove", "serve"} =>
       HasLive(kit.doc) /\ suite.surfaces = Len(kit.doc.live)
  /\ /\ suite.at \in {"factory", "remove", "serve", "state", "sources", "ok"}
     /\ suite.report.findings = {}
     => DocPart(kit)
  /\ suite.at \in {"remove", "serve"} =>
       /\ Importable(kit.companion) /\ ~ImportRaises(kit.companion)
       /\ suite.surfaces > 1 => "only-the-first" \in suite.report.notes
  /\ suite.at = "return" /\ suite.then = "state" /\ suite.report.findings = {} =>
       DocPart(kit) /\ ("only-the-first" \in suite.report.notes \/ SurfacePart(kit))
  /\ suite.at \in {"state", "sources", "ok"} /\ suite.report.findings = {} =>
       \/ "not-installed" \in suite.report.notes \/ "only-the-first" \in suite.report.notes
       \/ SurfacePart(kit)
  /\ suite.at \in {"sources", "ok"} /\ suite.report.findings = {} => StatePart(kit)
  /\ suite.at = "ok" => suite.report.findings = {} /\ SourcePart(kit, suite.absolute)
  /\ suite.at = "findings" /\ IsDoc(kit) /\ suite.report.migration = {} =>
       SourcePart(kit, suite.absolute)
SuitePart(k) == DocPart(k) /\ SurfacePart(k) /\ StatePart(k) /\ SourcePart(k, TRUE)
CheckSaw ==
  /\ check.at \in {"tests", "over"} /\ check.stages[2] = "passed" => SuitePart(kit)
  /\ check.at = "over" /\ check.stages[3] = "passed" => kit.tests = "pass"
Seen == ~edited => SuiteSaw /\ CheckSaw

LEMMA SuiteSees ==
  ASSUME SuiteShape, SuiteSaw, SuiteStep, kit' = kit
  PROVE  SuiteSaw'
<1>1. /\ suite'.report.findings = {} => suite.report.findings = {}
      /\ \A n : n \in suite.report.notes => n \in suite'.report.notes
      /\ suite'.absolute = suite.absolute
  BY SuiteMoves DEF Goes
<1>2. CASE ReadManifest
  <2>1. CASE suite'.at = "findings" /\ ~IsDoc(kit)
    BY <2>1 DEF SuiteSaw
  <2>2. CASE suite'.at = "factory" /\ HasLive(kit.doc)
    BY <1>2, <2>2, ManifestRead DEF SuiteSaw
  <2>3. CASE suite'.at = "state" /\ ~HasLive(kit.doc)
    BY <1>2, <2>3, ManifestRead DEF SuiteSaw, SurfacePart
  <2> QED
    BY <1>2, <2>1, <2>2, <2>3, ManifestRead
<1>3. CASE ImportFactory
  <2>1. suite.at = "factory"
    BY <1>3, FactoryImported
  <2>2. /\ HasLive(kit.doc) /\ suite.surfaces = Len(kit.doc.live)
        /\ suite.report.findings = {} => DocPart(kit)
    BY <2>1 DEF SuiteSaw
  <2>3. CASE suite'.at = "raised"
    BY <2>3 DEF SuiteSaw
  <2>4. CASE suite'.at = "state"
    BY <1>1, <1>3, <2>2, <2>4, FactoryImported DEF SuiteSaw
  <2>5. CASE suite'.at = "remove"
    BY <1>1, <1>3, <2>2, <2>5, FactoryImported DEF SuiteSaw
  <2> QED
    BY <1>3, <2>3, <2>4, <2>5, FactoryImported
<1>4. CASE Serve
  <2>1. suite.at = "serve"
    BY <1>4, SurfaceServed
  <2>2. /\ HasLive(kit.doc) /\ suite.surfaces = Len(kit.doc.live)
        /\ suite.report.findings = {} => DocPart(kit)
        /\ Importable(kit.companion) /\ ~ImportRaises(kit.companion)
        /\ suite.surfaces > 1 => "only-the-first" \in suite.report.notes
    BY <2>1 DEF SuiteSaw
  <2>3. suite'.at = "return"
    BY <1>4, SurfaceServed
  <2>4. suite'.then = "state" /\ suite'.report.findings = {} =>
          DocPart(kit) /\ ("only-the-first" \in suite'.report.notes \/ SurfacePart(kit))
    <3>1. suite'.then = "state" /\ suite'.report.findings = {} =>
            ~BuildRaises(kit.companion) /\ ServeFindings(kit.companion) = {}
      BY <1>4, SurfaceServed
    <3> QED
      BY <1>1, <2>2, <3>1 DEF SurfacePart
  <2> QED
    BY <2>3, <2>4 DEF SuiteSaw
<1>5. CASE Anchors
  <2>1. /\ suite.at = "state" /\ suite'.at = "sources"
        /\ suite'.report.findings = {} => StatePart(kit)
    BY <1>5, AnchorsDone
  <2> QED
    BY <1>1, <2>1 DEF SuiteSaw
<1>6. CASE Scan
  <2>1. /\ suite.at = "sources" /\ suite'.at \in {"ok", "findings"}
        /\ suite'.at = "ok" => suite'.report.findings = {}
        /\ suite'.at = "ok" \/ suite'.report.migration = {} => SourcePart(kit, suite.absolute)
    BY <1>6, SourcesScanned
  <2> QED
    BY <1>1, <2>1 DEF SuiteSaw
<1>7. CASE RemoveSecret
  <2>1. /\ suite.at = "remove" /\ suite'.at \in {"remove", "serve"}
        /\ suite'.surfaces = suite.surfaces
    BY <1>7, SecretRemoved
  <2> QED
    BY <1>1, <2>1 DEF SuiteSaw
<1>8. CASE ReturnSecret
  <2>1. /\ suite.at = "return" /\ suite'.report = suite.report /\ suite'.then = suite.then
        /\ (suite'.at = "return" \/ suite'.at = suite.then) /\ suite.then \in End
    BY <1>8, SecretReturned DEF SuiteShape
  <2>2. \/ suite'.at = "return"
        \/ suite'.at \in {"raised", "lacks-a-package"}
        \/ suite'.at = "state" /\ suite.then = "state"
    BY <2>1 DEF End
  <2> QED
    BY <2>1, <2>2 DEF SuiteSaw
<1> QED
  BY <1>2, <1>3, <1>4, <1>5, <1>6, <1>7, <1>8 DEF SuiteStep

(* A suite that the conformance stage reports as passed has seen every     *)
(* part of the kit.                                                        *)
LEMMA PassedSawAll ==
  ASSUME GateInv, SuiteSaw, check.at = "conformance", SuiteStatus = "passed"
  PROVE  SuitePart(kit)
<1>1. /\ suite.at = "ok" /\ "not-installed" \notin suite.report.notes
      /\ "only-the-first" \notin suite.report.notes
  BY DEF SuiteStatus
<1>2. suite.absolute = TRUE
  BY <1>1 DEF GateInv, WhoseSuite
<1> QED
  BY <1>1, <1>2 DEF SuiteSaw, SuitePart

LEMMA StageSees ==
  ASSUME GateInv, SuiteSaw, CheckSaw, check.at \in ToSet(Stage), kit' = kit,
         NEW status \in Status, Result(status),
         check.at = "conformance" /\ status = "passed" => SuitePart(kit),
         check.at = "tests" /\ status = "passed" => kit.tests = "pass"
  PROVE  CheckSaw'
<1>1. CheckShape
  BY DEF GateInv
<1>2. CASE check.at = "validate"
  BY <1>1, <1>2, StageEnds DEF CheckSaw
<1>3. CASE check.at = "conformance"
  BY <1>1, <1>3, StageEnds DEF CheckSaw
<1>4. CASE check.at = "tests"
  BY <1>1, <1>4, StageEnds DEF CheckSaw
<1> QED
  BY <1>2, <1>3, <1>4, StageSet

LEMMA SeenStarts == Init => Seen
  BY DEF Init, Fresh, NoCheck, Seen, SuiteSaw, CheckSaw

LEMMA SeenSteps ==
  ASSUME GateInv, Seen, [Next]_vars
  PROVE  Seen'
<1> SUFFICES ASSUME ~edited' PROVE SuiteSaw' /\ CheckSaw'
  BY DEF Seen
<1>1. ASSUME UNCHANGED <<kit, edited, suite, check>> PROVE SuiteSaw' /\ CheckSaw'
  BY <1>1 DEF Seen, SuiteSaw, CheckSaw
<1>2. CASE UNCHANGED vars
  BY <1>1, <1>2 DEF vars
<1>3. CASE (\E line \in Line : ReadLine(line)) /\ Spend("line")
             /\ UNCHANGED <<kit, edited, shell, suite, check>>
  BY <1>1, <1>3
<1>4. CASE Command
  <2>1. ASSUME SuiteStep, UNCHANGED <<kit, edited, check, left>>
        PROVE  SuiteSaw' /\ CheckSaw'
    <3>1. SuiteSaw /\ CheckSaw /\ kit' = kit /\ check' = check
      BY <2>1 DEF Seen
    <3>2. SuiteSaw'
      BY <2>1, <3>1, SuiteSees DEF GateInv
    <3> QED
      BY <3>1, <3>2 DEF CheckSaw
  <2>2. ASSUME NEW advisory \in BOOLEAN, NEW absolute \in BOOLEAN, NEW web \in BOOLEAN,
               StartSuite(advisory, absolute, web)
        PROVE  SuiteSaw' /\ CheckSaw'
    <3>1. /\ suite' = [Fresh EXCEPT !.at = "manifest", !.advisory = advisory,
                                    !.absolute = absolute, !.web = web]
          /\ check' = NoCheck
      BY <2>2, Zenon DEF StartSuite
    <3>2. suite'.at = "manifest" /\ check'.at = "idle"
      <4>1. Shaped(suite') /\ suite'.at = "manifest"
        BY <3>1, SuiteStarts, Zenon
      <4>2. check'.at = "idle"
        BY <3>1 DEF NoCheck
      <4> QED
        BY <4>1, <4>2
    <3> QED
      BY <3>2 DEF SuiteSaw, CheckSaw
  <2>3. ASSUME NEW python \in Pythons, NEW valid \in BOOLEAN, NEW web \in BOOLEAN,
               StartCheck(valid, python, web)
        PROVE  SuiteSaw' /\ CheckSaw'
    <3>1. /\ suite' = Fresh
          /\ check' = IF valid THEN [at |-> "validate", python |-> python, web |-> web,
                                     stages |-> <<>>]
                      ELSE [NoCheck EXCEPT !.at = "over",
                                           !.stages = [i \in 1..3 |-> "unavailable"]]
      BY <2>3, Zenon DEF StartCheck
    <3>2. suite'.at = "idle"
      BY <3>1 DEF Fresh
    <3>3. \/ check'.at = "validate"
          \/ check'.stages[2] # "passed" /\ check'.stages[3] # "passed"
      BY <3>1 DEF NoCheck
    <3> QED
      BY <3>2, <3>3 DEF SuiteSaw, CheckSaw
  <2>4. CASE Interrupt
    <3>1. /\ suite' = Ended(suite, "raised") \/ suite' = [suite EXCEPT !.at = "raised"]
          /\ kit' = kit /\ edited' = edited /\ check' = check
      BY <2>4, Zenon DEF Interrupt
    <3>2. suite'.at = "raised" \/ (suite'.at = "return" /\ suite'.then = "raised")
      <4>1. Shaped(suite)
        BY DEF GateInv, SuiteShape
      <4>2. CASE suite' = Ended(suite, "raised")
        BY <4>1, <4>2, Ends
      <4>3. CASE suite' = [suite EXCEPT !.at = "raised"]
        BY <4>1, <4>3, Arrives
      <4> QED
        BY <3>1, <4>2, <4>3
    <3> QED
      BY <3>1, <3>2 DEF Seen, SuiteSaw, CheckSaw
  <2>5. CASE StartConformance
    <3>1. /\ suite' = [Fresh EXCEPT !.at = "manifest", !.web = check.web]
          /\ kit' = kit /\ edited' = edited /\ check' = check
      BY <2>5 DEF StartConformance
    <3>2. suite'.at = "manifest"
      BY <3>1 DEF Fresh
    <3> QED
      BY <3>1, <3>2 DEF Seen, SuiteSaw, CheckSaw
  <2>6. CASE NoWorker \/ Validate \/ SkipConformance \/ EndConformance \/ Tests
    <3>1. kit' = kit /\ edited' = edited /\ suite' = suite
      BY <2>6 DEF NoWorker, Validate, SkipConformance, EndConformance, Tests
    <3>2. SuiteSaw /\ CheckSaw
      BY <3>1 DEF Seen
    <3>3. SuiteSaw'
      BY <3>1, <3>2 DEF SuiteSaw
    <3>4. CASE NoWorker \/ Validate \/ SkipConformance
      <4>1. PICK status \in Status : Result(status) /\ (check.at # "validate" => status # "passed")
        BY <3>4 DEF NoWorker, Validate, SkipConformance, Status
      <4>2. check.at \in ToSet(Stage) /\ (check.at = "tests" => status # "passed")
        BY <3>4, <4>1, StageSet DEF NoWorker, Validate, SkipConformance
      <4> QED
        BY <3>1, <3>2, <3>3, <4>1, <4>2, StageSees
    <3>5. CASE EndConformance
      <4>1. /\ check.at = "conformance" /\ Result(SuiteStatus) /\ SuiteStatus \in Status
            /\ check.at \in ToSet(Stage)
        BY <3>5, StageSet DEF EndConformance, SuiteStatus, Status
      <4>2. SuiteStatus = "passed" => SuitePart(kit)
        BY <3>2, <4>1, PassedSawAll
      <4> QED
        BY <3>1, <3>2, <3>3, <4>1, <4>2, StageSees
    <3>6. CASE Tests
      <4>1. /\ check.at = "tests" /\ Result(TestStatus) /\ TestStatus \in Status
            /\ check.at \in ToSet(Stage)
        BY <3>6, StageSet DEF Tests, TestStatus, Status
      <4>2. TestStatus = "passed" => kit.tests = "pass"
        BY DEF TestStatus
      <4> QED
        BY <3>1, <3>2, <3>3, <4>1, <4>2, StageSees
    <3> QED
      BY <2>6, <3>4, <3>5, <3>6
  <2>7. CASE TimesOut
    <3>1. /\ check.at \in ToSet(Stage) /\ Result("failed") /\ "failed" \in Status
          /\ kit' = kit /\ edited' = edited
          /\ suite' = IF check.at = "conformance" THEN [suite EXCEPT !.at = "raised"] ELSE suite
      BY <2>7 DEF TimesOut, Status
    <3>2. SuiteSaw /\ CheckSaw
      BY <3>1 DEF Seen
    <3>3. SuiteSaw'
      <4>1. Shaped(suite)
        BY DEF GateInv, SuiteShape
      <4>2. suite' = suite \/ suite'.at = "raised"
        BY <3>1, <4>1, Arrives
      <4> QED
        BY <3>1, <3>2, <4>2 DEF SuiteSaw
    <3>4. CheckSaw'
      BY <3>1, <3>2, StageSees
    <3> QED
      BY <3>3, <3>4
  <2>8. ASSUME NEW k \in Editions, EditKit(k) PROVE FALSE
    BY <2>8, Zenon DEF EditKit
  <2> QED
    BY <1>4, <2>1, <2>2, <2>3, <2>4, <2>5, <2>6, <2>7, <2>8, Zenon DEF Command
<1> QED
  BY <1>2, <1>3, <1>4, Zenon DEF Next

LEMMA SeenHolds == Spec => []Seen
<1>1. GateInv /\ Seen /\ [Next]_vars => Seen'
  BY SeenSteps
<1> QED
  BY <1>1, SeenStarts, GateHolds, PTL DEF Spec

Whole(k) == SuitePart(k) /\ k.tests = "pass"

LEMMA ReadyIsWhole ==
  ASSUME GateInv, Seen
  PROVE  Ready /\ ~edited => Whole(kit)
<1> SUFFICES ASSUME Ready, ~edited PROVE Whole(kit)
  OBVIOUS
<1>1. DOMAIN check.stages = 1..3
  BY DEF Ready, GateInv, CheckShape
<1>2. check.at = "over" /\ check.stages[2] = "passed" /\ check.stages[3] = "passed"
  BY <1>1 DEF Ready
<1> QED
  BY <1>2 DEF Seen, CheckSaw, Whole

(* `local_ready: true` for a kit that nobody edited during the command:    *)
(* every read of the suite saw its whole part of the kit and found         *)
(* nothing, and the tests passed.  Nothing is skipped, masked by an        *)
(* earlier finding, lost to a stage that could not run or to a time limit, *)
(* whatever the kit, the interpreter and the order of the commands.        *)
THEOREM GreenSawEverything == Spec => [](Ready /\ ~edited => Whole(kit))
  BY ReadyIsWhole, GateHolds, SeenHolds, PTL

(* --advisory lets a suite with findings exit 0.  Where the manifest is a  *)
(* mapping, it does not reach the migration checks (conformance.py:107):   *)
(* exit code 0 means that the sources the suite looked at name no unknown  *)
(* type and no deprecated endpoint.  What run author_migration finds is    *)
(* therefore a manifest that is none, or a checkout without sources.       *)
THEOREM MigrationReached ==
  Spec => [](suite.at \in {"ok", "findings"} /\ ExitCode = 0 /\ ~edited /\ IsDoc(kit)
               => SourcePart(kit, suite.absolute))
<1>1. Seen => (suite.at \in {"ok", "findings"} /\ ExitCode = 0 /\ ~edited /\ IsDoc(kit)
               => SourcePart(kit, suite.absolute))
  BY DEF Seen, SuiteSaw, ExitCode
<1> QED
  BY <1>1, SeenHolds, PTL

=============================================================================
