--------------------------- MODULE PolicyDocument ---------------------------
(***************************************************************************)
(* The policy document, .stdd/policy.md (cli/lib.mjs): a sequence of lines *)
(* that a human edits and stdd policy appends to.  Reader and writer share *)
(* the walk that resolves its headings.  Blank lines say nothing and are   *)
(* left out.                                                               *)
(***************************************************************************)
EXTENDS Naturals, Sequences, SequencesExt

Bullet(text) == [kind |-> "bullet", text |-> text]
Plain(kind) == [kind |-> kind, text |-> kind]

Sections == {"notes", "permissions"}
Headings == Sections \union {"heading"}  \* "heading": of any other section
(* "open" begins a comment, a line with "close" ends it; "aside" does both.*)
PlainKinds == Headings \union {"prose", "fence", "open", "close", "aside"}

-----------------------------------------------------------------------------
(* The walk: what each line that says something is, and in which section.  *)
Mark(walk, line, section) ==
  Append(walk.marks, [index |-> walk.index, kind |-> line.kind, section |-> section,
                      text |-> line.text])

Visible(walk, line) ==
  CASE line.kind = "fence" -> [walk EXCEPT !.mode = "fence", !.section = "none"]
    [] line.kind = "open" -> [walk EXCEPT !.mode = "comment", !.section = "none"]
    [] line.kind = "aside" -> [walk EXCEPT !.section = "none"]
    [] line.kind \in Headings ->
         [walk EXCEPT !.section = line.kind, !.marks = Mark(walk, line, line.kind)]
    [] OTHER -> [walk EXCEPT !.marks = Mark(walk, line, walk.section)]

WalkLine(walk, line) ==
  LET w == [walk EXCEPT !.index = @ + 1] IN
  CASE w.mode = "comment" -> IF line.kind \in {"close", "aside"} THEN [w EXCEPT !.mode = "text"] ELSE w
    [] w.mode = "fence" -> IF line.kind = "fence" THEN [w EXCEPT !.mode = "text"] ELSE w
    [] OTHER -> Visible(w, line)

Walk(doc) ==
  FoldLeft(WalkLine, [mode |-> "text", section |-> "none", index |-> 0, marks |-> <<>>], doc)

documentSections(doc) == Walk(doc).marks

(* A fence or a comment that the document opens and never ends.            *)
Unclosed(doc) == Walk(doc).mode # "text"

-----------------------------------------------------------------------------
(* The reader: a section's bullets, up to its first line of another kind.  *)
parsePolicy(doc) ==
  LET marks == documentSections(doc)
      Read(k) ==
        /\ marks[k].kind = "bullet" /\ marks[k].section \in Sections
        /\ \A j \in 1..(k - 1) : marks[j].kind \notin Headings \union {"bullet"} =>
             \E h \in (j + 1)..k : marks[h].kind \in Headings
      entries == [k \in DOMAIN marks |-> [read |-> Read(k), section |-> marks[k].section,
                                          text |-> marks[k].text]]
  IN  SelectSeq(entries, LAMBDA e : e.read)

(* A slip: prose does not end the section.                                 *)
EndsAtHeading(mark, section) == mark.kind \in Headings

EndsSection(mark, section) == mark.kind # "bullet" \/ mark.section # section

(* The writer: after the first such section's last bullet, or in a new     *)
(* section at the end.                                                     *)
appendPolicyEntry(doc, section, text) ==
  LET marks == documentSections(doc)
      heads == {k \in DOMAIN marks : marks[k].kind = section}
  IN  IF heads = {} THEN doc \o <<Plain(section), Bullet(text)>>
      ELSE LET head == Min(heads)
               end == Min({k \in (head + 1)..Len(marks) : EndsSection(marks[k], section)}
                          \union {Len(marks) + 1})
               bullets == {k \in (head + 1)..(end - 1) : marks[k].kind = "bullet"}
           IN  InsertAt(doc, marks[Max(bullets \union {head})].index + 1, Bullet(text))
=============================================================================
