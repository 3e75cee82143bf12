--------------------------- MODULE ConfigureOutput ---------------------------
(***************************************************************************)
(* What validate_configure_output.py accepts of a generated Terraform      *)
(* directory and its two reports.  A detector block is a text of marks and *)
(* constructs, in which comments, strings and heredocs are found by        *)
(* scanning; a construct that has quotes of its own closes them, too.      *)
(***************************************************************************)
EXTENDS SignalFlow, FiniteSets

\* A quote that opens the value of an attribute, and a heredoc, carry its name.
Lex(lex, name) == [lex |-> lex, name |-> name]
Mark(lex)      == Lex(lex, "")
Quotes         == {"'", "\""}

\* _blank_comment_lines: it knows quotes, and nothing of heredocs.
CommentRule(open, l) ==
  CASE open = {} /\ l.lex \in Quotes \cup {"#", "/*"} -> {l.lex}
    [] \/ l.lex \in Quotes /\ open = {l.lex}
       \/ l.lex = "eol" /\ open = {"#"}
       \/ l.lex = "*/" /\ open = {"/*"} -> {}
    [] OTHER -> open
\* _blank_string_prose keeps an interpolation; _blank_quoted_content does not.
QuoteRule(open, l) ==
  CASE open = {} /\ l.lex \in Quotes -> {l.lex}
    [] open = {l.lex} -> {}
    [] open \cap Quotes /= {} /\ l.lex = "${" -> open \cup {"${"}
    [] l.lex = "}" -> open \ {"${"}
    [] OTHER -> open
\* _blank_hcl_string_values: the bodies of heredocs that end, and the strings that
\* are values; detect_label has its own construct and survives.
ValueRule(open, l) ==
  CASE open = {} /\ (l.lex = "<<" \/ (l.lex = "\"" /\ l.name /= "")) -> {l.lex}
    [] (l.lex = ">>" /\ open = {"<<"}) \/ (l.lex = "\"" /\ open = {"\""}) -> {}
    [] OTHER -> open

\* What is open before each lexeme and at the end, by one of these rules.
RECURSIVE Opens(_, _, _)
Opens(text, rule, opens) ==
  LET open == Last(opens)
      l    == text[Len(opens)]
  IN IF Len(opens) > Len(text) THEN opens
     ELSE Opens(text, rule, Append(opens, CASE rule = "comments" -> CommentRule(open, l)
                                            [] rule = "strings"  -> QuoteRule(open, l)
                                            [] rule = "values"   -> ValueRule(open, l)))
Blanked(text, rule, Hidden(_, _)) ==
  LET opens == Opens(text, rule, <<{}>>)
  IN [n \in DOMAIN text |-> IF text[n].lex /= "eol" /\ Hidden(opens[n], opens[n + 1]) THEN Mark(" ") ELSE text[n]]

BlankComments(text) == Blanked(text, "comments", LAMBDA a, b : (a \cup b) \cap {"#", "/*"} /= {})
BlankQuoted(text)   == Blanked(text, "strings", LAMBDA a, b : a /= {} /\ b /= {})
BlankProse(text)    == Blanked(text, "strings", LAMBDA a, b : a = b /\ a /= {} /\ "${" \notin a)
\* A heredoc that does not end is left as it is.
BlankValues(text)   ==
  LET ends == Opens(text, "values", <<{}>>)[Len(text) + 1] /= {"<<"}
  IN Blanked(text, "values", LAMBDA a, b : a = b /\ (a = {"\""} \/ (a = {"<<"} /\ ends)))

\* program_text_body: found in the blanked text, cut out of the original.
ProgramBody(text, seen) ==
  LET starts == {n \in DOMAIN seen : seen[n] = Lex("<<", "program_text")}
      first  == CHOOSE n \in starts : \A m \in starts : n <= m
      ends   == {n \in DOMAIN seen : n > first /\ seen[n].lex = ">>"}
  IN IF starts = {} \/ ends = {} THEN <<>>
     ELSE SubSeq(text, first + 1, (CHOOSE n \in ends : \A m \in ends : n <= m) - 1)

Named(text, lex) ==
  LET these == SelectSeq(text, LAMBDA l : l.lex = lex) IN [n \in DOMAIN these |-> these[n].name]
Set(seq) == {seq[n] : n \in DOMAIN seq}

\* validate, for one block, of which "metric" is the metric.  What it reads: the
\* block without comments (searchable), and without the values of attributes
\* (decoy_blanked), the program, and that without its strings
\* (program_searchable).  matching_brace must find the end of the block;
\* data_call_metrics finds one metric, that is a literal; only a call in the
\* arguments of data(...) filters the stream.
DetectorAccepted(d, metric, files) ==
  \E visible \in {BlankComments(d.text)} : \E structure \in {BlankValues(visible)} :
  \E program \in {BlankComments(ProgramBody(d.text, structure))} : \E code \in {BlankQuoted(program)} :
    /\ Named(structure, "end") /= <<>>
    /\ Named(code, "data") = <<metric>>
    /\ metric \in (files.working \cup files.exceptions) \cap files.reported
    /\ "service.name" \in Set(Named(code, "filter"))
    /\ Set(Named(BlankProse(program), "var")) \subseteq files.declared
    /\ \E label \in Set(Named(code, "publish")) : Named(structure, "detect_label") = <<label>>
    /\ Named(visible, "unsafe") = <<>>

\* working_metrics: metrics in a row of "Tested And Working" that says Working.
Working(rows) == {r.item : r \in {x \in rows : x.section = "Tested And Working" /\ x.status = "Working" /\ x.type = "metric"}}

\* report_status, validate_heading_order, and the provider, variables, example
\* and ignore files: found once, and wired to what is declared.
FilesAccepted(files) ==
  /\ \A report \in DOMAIN files.results : Len(files.results[report]) = 1
  /\ \A report, other \in DOMAIN files.results : files.results[report][1] = files.results[other][1]
  /\ files.headings
  /\ {"api_token", "realm"} \subseteq files.declared /\ "api_token" \in files.sensitive
  /\ files.providers = 1 /\ files.wired
  /\ files.tokenEmpty /\ files.ignored

\* validate: the files, every block, and no two blocks alike; the signature is that
\* of the one data call, whose first argument is the metric.
ConfigureAccepted(detectors, files) ==
  /\ FilesAccepted(files)
  /\ \E metric \in [DOMAIN detectors -> files.reported] :
       LET Signed(n) == Signature([metric |-> metric[n], args |-> detectors[n].args, calls |-> detectors[n].calls])
       IN /\ \A n \in DOMAIN detectors : DetectorAccepted(detectors[n], metric[n], files)
          /\ \A m, n \in DOMAIN detectors :
               m /= n => detectors[m].id /= detectors[n].id /\ Signed(m) /= Signed(n)
=============================================================================
