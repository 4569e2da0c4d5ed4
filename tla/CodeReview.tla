------------------------------- MODULE CodeReview -------------------------------
(***************************************************************************)
(* The agents of agents/code_review: a reviewer and an auditor that report *)
(* on files, and a style checker that may also repair them.                *)
(*                                                                         *)
(* A line of a file is what it holds and the set of patterns (marks) that  *)
(* match it; a mark of a definition's line also stands for what the syntax *)
(* tree says of the definition.  What a line holds is the kind of          *)
(* statement the checkers see in it, and of its string literals only       *)
(* whether a repair altered them ("altered").  An agent collects its       *)
(* issues in a field that the next call replaces.  Nothing suspends a call *)
(* but the question to the language model, which the reviewer and the      *)
(* auditor ask at the end, when they found something.                      *)
(***************************************************************************)
EXTENDS Integers, FiniteSets, Sequences, FiniteSetsExt

CONSTANTS
    Reviews,    \* calls of the reviewer or the auditor
    Sources,    \* files
    Texts       \* texts a file may have: [python, parses, lines]

LineOfText == [what : STRING, marks : SUBSET STRING]
ASSUME ReviewAssumption == Texts \subseteq [python : BOOLEAN, parses : BOOLEAN, lines : Seq(LineOfText)]

Reporters == {"reviewer", "auditor"}

VARIABLES
    text,       \* of each file its text
    styled,     \* history: files the style checker repaired, and nobody changed since
    style,      \* of each file the last style report: [issues, score]
    review,     \* of each call: "none", "advice", "ended" or "failed"
    subject,    \* of each call: [agent, text], the text as it was read
    found,      \* of each call: the list of issues it made
    issues,     \* of each agent: the call whose list its field holds, "none" at first
    score,      \* of each call: the computed score
    result,     \* of each call: the call whose list its result holds
    overlaps    \* history: of each call, the calls begun while it waited

reviewvars == <<text, styled, style, review, subject, found, issues, score, result, overlaps>>

Unread == "none"

-------------------------------------------------------------------------------
(* Issues: [line, mark, severity]. *)

With(t, marks, severity) ==
    {[line |-> place[1], mark |-> place[2], severity |-> severity] :
        place \in {im \in (DOMAIN t.lines) \X marks : im[2] \in t.lines[im[1]].marks}}

\* Of a text that is no Python program the syntax error is the only finding here.
ReviewPython(t) ==
    IF ~t.parses THEN {[line |-> 1, mark |-> "syntax", severity |-> "CRITICAL"]}
    ELSE With(t, {"complex"}, "MEDIUM") \cup With(t, {"long body", "no docstring"}, "LOW")
         \cup With(t, {"bare except", "mutable default"}, "HIGH")

ReviewJavascript(t) ==
    With(t, {"console.log"}, "LOW") \cup With(t, {"var", "=="}, "MEDIUM")

\* Marks of a whole file are marks of its first line.
CheckCommonIssues(t) ==
    With(t, {"long file", "long line", "comments"}, "LOW")
    \cup With(t, {"todo"}, "INFO") \cup With(t, {"password", "secret", "api_key", "token"}, "CRITICAL")

ReviewFile(t) == (IF t.python THEN ReviewPython(t) ELSE ReviewJavascript(t)) \cup CheckCommonIssues(t)

CheckSecrets(t) ==
    With(t, {"password", "api_key", "secret", "token", "aws_access_key_id", "private_key"}, "CRITICAL")
CheckSqlInjection(t) == With(t, {"execute +", "execute %", "format execute", "fstring execute"}, "CRITICAL")
CheckXss(t) == With(t, {"innerHTML", "document.write", "eval", "dangerouslySetInnerHTML"}, "HIGH")
CheckInsecureCrypto(t) == With(t, {"md5", "sha1", "DES", "RC4"}, "HIGH")
CheckPathTraversal(t) == With(t, {"open +", "Path +", "join user"}, "HIGH")
CheckCommandInjection(t) == With(t, {"system +", "subprocess +", "exec +", "eval +"}, "CRITICAL")
CheckWeakRandom(t) == With(t, {"random.random", "Math.random"}, "MEDIUM")
CheckInsecureTransport(t) == With(t, {"http", "verify False", "unverified context"}, "MEDIUM")

AuditFile(t) ==
    CheckSecrets(t) \cup CheckSqlInjection(t) \cup CheckXss(t) \cup CheckInsecureCrypto(t)
    \cup CheckPathTraversal(t) \cup CheckCommandInjection(t) \cup CheckWeakRandom(t)
    \cup CheckInsecureTransport(t)

Findings(agent, t) == IF agent = "reviewer" THEN ReviewFile(t) ELSE AuditFile(t)

\* In half points, as INFO costs one half.
Deductions == [CRITICAL |-> 40, HIGH |-> 20, MEDIUM |-> 10, LOW |-> 4, INFO |-> 1]
CalculateScore(list) ==
    LET total == MapThenSumSet(LAMBDA i : Deductions[i.severity], list)
    IN  IF total > 200 THEN 0 ELSE 200 - total

Weights == [CRITICAL |-> 25, HIGH |-> 15, MEDIUM |-> 8, LOW |-> 3, INFO |-> 1]
CalculateRiskScore(list) ==
    LET total == MapThenSumSet(LAMBDA i : Weights[i.severity], list)
    IN  IF total > 100 THEN 100 ELSE total

Score(agent, list) == IF agent = "reviewer" THEN CalculateScore(list) ELSE CalculateRiskScore(list)

-------------------------------------------------------------------------------
(* Style. *)

Styled(i, mark, fixable) == [line |-> i, mark |-> mark, fixable |-> fixable]
AllStyled(lines, mark, fixable) == {Styled(i, mark, fixable) : i \in lines}

Marked(t, mark) == {i \in DOMAIN t.lines : mark \in t.lines[i].marks}
Holding(t, what) == {i \in DOMAIN t.lines : t.lines[i].what = what}

\* A relative import names no module, and counts as third-party.
ClassifyImport(what) == IF what = "import stdlib" THEN 0 ELSE 1
Imports(t) == Holding(t, "import stdlib") \cup Holding(t, "import other")

\* Fewer than two blank lines before line i.
Crowded(t, i) == i = 2 \/ (i > 2 /\ \E j \in {i - 1, i - 2} : t.lines[j].what # "blank")

\* The first class stops the search for functions.
Definitions(t) ==
    Holding(t, "class") \cup {i \in Holding(t, "def") : \A j \in Holding(t, "class") : i < j}

\* An import that sorts before the one above it.
Misplaced(t) ==
    {i \in Imports(t) : \E j \in Imports(t) :
        /\ j < i /\ \A k \in Imports(t) : k < i => k <= j
        /\ ClassifyImport(t.lines[i].what) < ClassifyImport(t.lines[j].what)}

CheckPythonStyle(t) ==
    AllStyled(Marked(t, "long") \ Holding(t, "comment"), "long", FALSE)
    \cup AllStyled(Marked(t, "ragged"), "ragged", TRUE)
    \cup AllStyled(Marked(t, "tab"), "tab", TRUE)
    \cup AllStyled(Marked(t, "trailing") \ Holding(t, "blank"), "trailing", TRUE)
    \cup AllStyled({i \in Definitions(t) : Crowded(t, i)}, "crowded", TRUE)
    \cup AllStyled(Misplaced(t), "imports", TRUE)
    \cup AllStyled(Marked(t, "misnamed"), "naming", FALSE)

CheckJavascriptStyle(t) ==
    UNION {AllStyled(Marked(t, mark), mark, mark # "misnamed") :
             mark \in {"no semicolon", "ragged", "var", "misnamed"}}

CheckCommonStyle(t) ==
    AllStyled({i \in DOMAIN t.lines : i > 2 /\ (i - 2)..i \subseteq Holding(t, "blank")}, "blank lines", TRUE)
    \cup AllStyled({i \in {Len(t.lines)} \cap DOMAIN t.lines : t.lines[i].what # "blank"}, "no newline", TRUE)

CheckStyle(t) ==
    (IF t.python THEN CheckPythonStyle(t) ELSE CheckJavascriptStyle(t)) \cup CheckCommonStyle(t)

\* One file: ten points an issue.
CalculateComplianceScore(list) == IF Cardinality(list) > 10 THEN 0 ELSE 100 - 10 * Cardinality(list)

\* Faulty variant: of the two repairs only the first is written back.
AutoFixTabs(t, list) ==
    {[t EXCEPT !.lines = [i \in DOMAIN t.lines |-> [t.lines[i] EXCEPT !.marks = @ \ {"tab"}]]]}

\* The tabs of a line turn to spaces wherever they are, and its trailing blanks go:
\* inside a string literal as well, which alters it, and where a keyword was followed
\* by a tab the line is recognised only now.
Readings(what, gone) ==
    {what} \cup IF what # "code" THEN {}
               ELSE {"altered"} \cup IF "tab" \in gone
                                    THEN {"class", "def", "import stdlib", "import other"} ELSE {}

\* A line that changes may become ragged or long, or cease to be.
Rewritten(line, gone) ==
    {[what |-> what, marks |-> ((line.marks \ gone) \ {"ragged", "long"}) \cup layout] :
        what \in Readings(line.what, gone), layout \in SUBSET {"ragged", "long"}}

FixLine(line, gone) == IF gone = {} THEN {line} ELSE Rewritten(line, gone)

\* Of the issues called fixable only tabs and trailing blanks are repaired.
Gone(list, i) == {s.mark : s \in {s \in list : s.line = i}} \cap {"tab", "trailing"}

FixLines(t, list) ==
    {lines \in [DOMAIN t.lines -> UNION {FixLine(t.lines[i], Gone(list, i)) : i \in DOMAIN t.lines}] :
        \A i \in DOMAIN t.lines : lines[i] \in FixLine(t.lines[i], Gone(list, i))}

\* Indentation that mixed tabs with spaces may parse only then, or no more.
AutoFix(t, list) ==
    {[python |-> t.python, parses |-> parses, lines |-> lines] :
        lines \in FixLines(t, list),
        parses \in IF \E i \in DOMAIN t.lines : "tab" \in Gone(list, i) THEN BOOLEAN ELSE {t.parses}}

\* write_text empties the file before it writes; one that breaks off leaves the lines
\* it had written.
BrokenOff(t) ==
    {[python |-> t.python, parses |-> parses, lines |-> SubSeq(t.lines, 1, n)] :
        n \in 0..Len(t.lines), parses \in BOOLEAN}

-------------------------------------------------------------------------------
(* Actions. *)

ReviewInit ==
    /\ text \in [Sources -> Texts]
    /\ styled = {}
    /\ style = [f \in Sources |-> [issues |-> {}, score |-> 100]]
    /\ review = [c \in Reviews |-> "none"]
    /\ subject = [c \in Reviews |-> [agent |-> "reviewer", text |-> CHOOSE t \in Texts : TRUE]]
    /\ found = [c \in Reviews |-> {}]
    /\ issues = [a \in Reporters |-> Unread]
    /\ score = [c \in Reviews |-> 0]
    /\ result = [c \in Reviews |-> Unread]
    /\ overlaps = [c \in Reviews |-> {}]

\* review and audit up to the question to the language model, which is not asked
\* when nothing was found.
Review(c, agent, f) ==
    /\ review[c] = "none"
    /\ LET list == Findings(agent, text[f])
       IN  /\ subject' = [subject EXCEPT ![c] = [agent |-> agent, text |-> text[f]]]
           /\ found' = [found EXCEPT ![c] = list]
           /\ issues' = [issues EXCEPT ![agent] = c]
           /\ score' = [score EXCEPT ![c] = Score(agent, list)]
           /\ review' = [review EXCEPT ![c] = IF list = {} THEN "ended" ELSE "advice"]
           /\ result' = [result EXCEPT ![c] = IF list = {} THEN c ELSE @]
    /\ overlaps' = [d \in Reviews |->
                      IF review[d] = "advice" /\ subject[d].agent = agent
                      THEN overlaps[d] \cup {c} ELSE overlaps[d]]
    /\ UNCHANGED <<text, styled, style>>

\* The answer came, and the result takes the list the field holds now.
GenerateRecommendations(c) ==
    /\ review[c] = "advice"
    /\ review' = [review EXCEPT ![c] = "ended"]
    /\ result' = [result EXCEPT ![c] = issues[subject[c].agent]]
    /\ UNCHANGED <<text, styled, style, subject, found, issues, score, overlaps>>

\* A language model that fails takes the review with it.
RecommendationsFail(c) ==
    /\ review[c] = "advice"
    /\ review' = [review EXCEPT ![c] = "failed"]
    /\ UNCHANGED <<text, styled, style, subject, found, issues, score, result, overlaps>>

\* check: the report is about the text before the repair, which writes every file that
\* has a fixable issue.
Check(f, auto_fix) ==
    LET list == CheckStyle(text[f])
    IN  /\ style' = [style EXCEPT ![f] = [issues |-> list, score |-> CalculateComplianceScore(list)]]
        /\ \/ /\ auto_fix /\ \E s \in list : s.fixable
              /\ \E t \in AutoFix(text[f], list) :
                   \/ text' = [text EXCEPT ![f] = t] /\ styled' = styled \cup {f}
                   \/ /\ \E u \in BrokenOff(t) : text' = [text EXCEPT ![f] = u]
                      /\ styled' = styled \ {f}
           \/ UNCHANGED <<text, styled>>   \* nothing to write, or the file cannot be opened
        /\ UNCHANGED <<review, subject, found, issues, score, result, overlaps>>

\* external: somebody edits the file.
Edit(f, t) ==
    /\ text' = [text EXCEPT ![f] = t]
    /\ styled' = styled \ {f}
    /\ UNCHANGED <<style, review, subject, found, issues, score, result, overlaps>>

ReviewNext ==
    \/ \E c \in Reviews, a \in Reporters, f \in Sources : Review(c, a, f)
    \/ \E c \in Reviews : GenerateRecommendations(c) \/ RecommendationsFail(c)
    \/ \E f \in Sources, auto_fix \in BOOLEAN : Check(f, auto_fix)
    \/ \E f \in Sources, t \in Texts : Edit(f, t)

-------------------------------------------------------------------------------
(* Properties. *)

\* Calls of one agent overlap while the language model thinks, and share its field.
\* Still a score is that of the text the call read, the issues of a result are all
\* those of one text, that of the call itself or of one begun while it waited.
ReviewsWhole ==
    \A c \in Reviews : review[c] = "ended" =>
        LET agent == subject[c].agent
        IN  /\ score[c] = Score(agent, Findings(agent, subject[c].text))
            /\ \E d \in {c} \cup overlaps[c] :
                 found[result[c]] = Findings(agent, subject[d].text)

\* A repair that was written leaves no tab and no trailing blank to report, whichever of
\* them share a line and whatever the repaired line turns out to be.
RepairsHold ==
    \A f \in styled : \A s \in CheckStyle(text[f]) : s.mark \notin {"tab", "trailing"}
===============================================================================
